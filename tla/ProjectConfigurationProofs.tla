---------------------- MODULE ProjectConfigurationProofs ----------------------
(***************************************************************************)
(* Where settings come from, what policies leave of them, and when doctor   *)
(* is ready: for all schemas, layers, policies, requirements and evidence.  *)
(***************************************************************************)
EXTENDS ProjectConfiguration, SequenceTheorems, FiniteSetTheorems, WellFoundedInduction, TLAPS

-----------------------------------------------------------------------------
(* Pointers                                                                 *)

Pointer == Seq(STRING)

LEMMA PrefixByKeys ==
  ASSUME NEW p \in Pointer, NEW q \in Pointer
  PROVE  IsPrefix(p, q) <=> Len(p) <= Len(q) /\ \A i \in 1..Len(p) : p[i] = q[i]
<1> USE DEF Pointer
<1>1. Len(p) \in Nat /\ Len(q) \in Nat
  BY LenProperties
<1>2. SubSeq(p, 1, Len(p)) = p
  BY SubSeqFull
<1> SUFFICES ASSUME Len(p) <= Len(q)
             PROVE  p = SubSeq(q, 1, Len(p)) <=> \A i \in 1..Len(p) : p[i] = q[i]
  BY <1>2 DEF IsPrefix
<1>3. /\ SubSeq(q, 1, Len(p)) \in Pointer /\ Len(SubSeq(q, 1, Len(p))) = Len(p)
      /\ \A i \in 1..Len(p) : SubSeq(q, 1, Len(p))[i] = q[i]
  <2>1. \A i \in 1..Len(p) : q[i] \in STRING
    BY <1>1, ElementOfSeq
  <2>2. /\ SubSeq(q, 1, Len(p)) \in Pointer
        /\ Len(SubSeq(q, 1, Len(p))) = IF 1 <= Len(p) THEN Len(p) - 1 + 1 ELSE 0
        /\ \A i \in 1..Len(p) - 1 + 1 : SubSeq(q, 1, Len(p))[i] = q[1 + i - 1]
    BY <1>1, <2>1, SubSeqProperties
  <2> QED  BY <1>1, <2>2
<1>4. (\A i \in 1..Len(p) : p[i] = q[i]) => p = SubSeq(q, 1, Len(p))
  <2> HAVE \A i \in 1..Len(p) : p[i] = q[i]
  <2>1. \A i \in 1..Len(p) : p[i] = SubSeq(q, 1, Len(p))[i]
    BY <1>3
  <2> QED  BY <1>3, <2>1, SeqEqual
<1> QED  BY <1>3, <1>4

LEMMA BeyondPrefix ==
  ASSUME NEW p \in Pointer, NEW q \in Pointer, IsPrefix(p, q)
  PROVE  /\ Beyond(p, q) \in Pointer /\ q = p \o Beyond(p, q)
         /\ Len(q) = Len(p) + Len(Beyond(p, q))
<1> USE DEF Pointer
<1>1. Len(p) \in Nat /\ Len(q) \in Nat /\ Len(p) <= Len(q)
  BY PrefixByKeys, LenProperties
<1>2. Beyond(p, q) \in Pointer
  <2>1. \A i \in (Len(p) + 1)..Len(q) : q[i] \in STRING
    BY <1>1, ElementOfSeq
  <2> QED  BY <1>1, <2>1, SubSeqProperties DEF Beyond
<1>3. p = SubSeq(q, 1, Len(p))
  BY SubSeqFull DEF IsPrefix
<1>4. SubSeq(q, 1, Len(p)) \o SubSeq(q, Len(p) + 1, Len(q)) = SubSeq(q, 1, Len(q))
  <2>1. 1 \in 1..Len(q) + 1 /\ Len(p) \in 1 - 1..Len(q) /\ Len(q) \in Len(p)..Len(q)
    BY <1>1
  <2> QED  BY <2>1, ConcatAdjacentSubSeq
<1>5. q = p \o Beyond(p, q)
  BY <1>3, <1>4, SubSeqFull DEF Beyond
<1> QED  BY <1>2, <1>5, ConcatProperties

LEMMA PrefixOfJoin ==
  ASSUME NEW p \in Pointer, NEW r \in Pointer
  PROVE  p \o r \in Pointer /\ IsPrefix(p, p \o r) /\ Beyond(p, p \o r) = r
<1> USE DEF Pointer
<1>1. /\ p \o r \in Pointer /\ Len(p \o r) = Len(p) + Len(r)
      /\ \A i \in 1..Len(p) + Len(r) : (p \o r)[i] = IF i <= Len(p) THEN p[i] ELSE r[i - Len(p)]
  BY ConcatProperties
<1>2. Len(p) \in Nat /\ Len(r) \in Nat
  BY LenProperties
<1>3. IsPrefix(p, p \o r)
  <2>1. Len(p) <= Len(p \o r) /\ \A i \in 1..Len(p) : p[i] = (p \o r)[i]
    BY <1>1, <1>2
  <2> QED  BY <1>1, <2>1, PrefixByKeys
<1>4. Beyond(p, p \o r) \in Pointer /\ p \o r = p \o Beyond(p, p \o r)
  BY <1>1, <1>3, BeyondPrefix
<1>5. r = Beyond(p, p \o r)
  <2>1. \A S : \A s, t, v \in Seq(S) : s \o t = s \o v => t = v
    BY ConcatSimplifications
  <2> QED  BY <1>4, <2>1
<1> QED  BY <1>1, <1>3, <1>5

(* Two pointers to what is around a third are about one another.            *)
LEMMA PrefixesOverlap ==
  ASSUME NEW p \in Pointer, NEW t \in Pointer, NEW q \in Pointer,
         IsPrefix(p, q), IsPrefix(t, q)
  PROVE  Overlapping(p, t)
<1>1. Len(p) \in Nat /\ Len(t) \in Nat
  BY LenProperties DEF Pointer
<1>2. CASE Len(p) <= Len(t)
  BY <1>1, <1>2, PrefixByKeys DEF Overlapping
<1>3. CASE Len(t) <= Len(p)
  BY <1>1, <1>3, PrefixByKeys DEF Overlapping
<1> QED  BY <1>1, <1>2, <1>3

LEMMA EmptyPointer ==
  /\ <<>> \in Pointer
  /\ \A q \in Pointer : IsPrefix(<<>>, q) /\ Beyond(<<>>, q) = q /\ <<>> \o q = q /\ q \o <<>> = q
  /\ Ancestors(<<>>) = {}
<1>1. <<>> \in Pointer
  BY DEF Pointer
<1>2. ASSUME NEW q \in Pointer
      PROVE  IsPrefix(<<>>, q) /\ Beyond(<<>>, q) = q /\ <<>> \o q = q /\ q \o <<>> = q
  <2>1. <<>> \o q = q /\ q \o <<>> = q
    BY ConcatEmptySeq DEF Pointer
  <2> QED  BY <1>1, <2>1, PrefixOfJoin
<1>3. Ancestors(<<>>) = {}
  <2>1. Len(<<>>) = 0
    BY EmptySeq
  <2>2. 0..(Len(<<>>) - 1) = {}
    BY <2>1
  <2> QED  BY <2>2 DEF Ancestors
<1> QED  BY <1>1, <1>2, <1>3

(* The pointers above a pointer are its proper prefixes.                    *)
LEMMA AncestorsArePrefixes ==
  ASSUME NEW p \in Pointer
  PROVE  /\ \A a \in Ancestors(p) : a \in Pointer /\ IsPrefix(a, p) /\ a # p /\ Len(a) < Len(p)
         /\ \A a \in Pointer : IsPrefix(a, p) => a = p \/ a \in Ancestors(p)
<1> USE DEF Pointer
<1>1. Len(p) \in Nat
  BY LenProperties
<1>2. ASSUME NEW n \in 0..(Len(p) - 1)
      PROVE  LET a == SubSeq(p, 1, n)
             IN a \in Pointer /\ IsPrefix(a, p) /\ a # p /\ Len(a) < Len(p)
  <2> DEFINE a == SubSeq(p, 1, n)
  <2>1. \A i \in 1..n : p[i] \in STRING
    BY <1>1, ElementOfSeq
  <2>2. /\ a \in Seq(STRING) /\ Len(a) = (IF 1 <= n THEN n - 1 + 1 ELSE 0)
        /\ \A i \in 1..n - 1 + 1 : a[i] = p[1 + i - 1]
    BY <1>1, <2>1, SubSeqProperties
  <2>3. a \in Seq(STRING) /\ Len(a) = n /\ \A i \in 1..n : a[i] = p[i]
    BY <2>2
  <2> HIDE DEF a
  <2>4. IsPrefix(a, p)
    BY <1>1, <2>3, PrefixByKeys
  <2> QED  BY <1>1, <2>3, <2>4 DEF a
<1>3. ASSUME NEW a \in Pointer, IsPrefix(a, p), a # p
      PROVE  a \in Ancestors(p)
  <2>1. Len(a) \in Nat /\ Len(a) <= Len(p)
    BY <1>3, PrefixByKeys, LenProperties
  <2>2. a = SubSeq(p, 1, Len(a))
    BY <1>3, SubSeqFull DEF IsPrefix
  <2>3. Len(a) # Len(p)
    BY <1>3, <2>2, SubSeqFull
  <2>4. Len(a) \in 0..(Len(p) - 1)
    BY <1>1, <2>1, <2>3
  <2> QED  BY <2>2, <2>4 DEF Ancestors
<1> QED  BY <1>2, <1>3 DEF Ancestors

-----------------------------------------------------------------------------
(* What is read and set at a pointer                                        *)

Rooted(v) == v = [q \in DOMAIN v |-> v[q]] /\ DOMAIN v \subseteq Pointer
Blocked(v, p) == \E a \in Ancestors(p) : a \notin DOMAIN v \/ v[a].kind # "object"

LEMMA AbsentIsRooted == Rooted(Absent) /\ DOMAIN Absent = {} /\ \A v : Rooted(v) => (v = Absent <=> DOMAIN v = {})
<1>1. DOMAIN Absent = {}
  BY DEF Absent
<1>2. Absent = [q \in DOMAIN Absent |-> Absent[q]]
  BY DEF Absent
<1>3. ASSUME NEW v, Rooted(v), DOMAIN v = {}
      PROVE  v = Absent
  <2>1. v = [q \in {} |-> v[q]]
    BY <1>3 DEF Rooted
  <2>2. [q \in {} |-> v[q]] = [q \in {} |-> q]
    OBVIOUS
  <2> QED  BY <2>1, <2>2 DEF Absent
<1> QED  BY <1>1, <1>2, <1>3 DEF Rooted

LEMMA AtBelow ==
  ASSUME NEW v, DOMAIN v \subseteq Pointer, NEW p \in Pointer
  PROVE  /\ Rooted(At(v, p))
         /\ \A r \in Pointer : r \in DOMAIN At(v, p) <=> p \o r \in DOMAIN v
         /\ \A r \in DOMAIN At(v, p) : r \in Pointer /\ At(v, p)[r] = v[p \o r]
<1> DEFINE D == {Beyond(p, q) : q \in {q \in DOMAIN v : IsPrefix(p, q)}}
<1>1. At(v, p) = [r \in D |-> v[p \o r]]
  BY DEF At
<1>2. ASSUME NEW r \in D
      PROVE  r \in Pointer /\ p \o r \in DOMAIN v
  <2>1. PICK q \in DOMAIN v : IsPrefix(p, q) /\ r = Beyond(p, q)
    OBVIOUS
  <2>2. q \in Pointer
    OBVIOUS
  <2> QED  BY <2>1, <2>2, BeyondPrefix
<1>3. ASSUME NEW r \in Pointer, p \o r \in DOMAIN v
      PROVE  r \in D
  <2>1. IsPrefix(p, p \o r) /\ Beyond(p, p \o r) = r
    BY PrefixOfJoin
  <2> QED  BY <1>3, <2>1
<1> HIDE DEF D
<1>4. DOMAIN At(v, p) = D
  BY <1>1
<1>5. At(v, p) = [r \in DOMAIN At(v, p) |-> At(v, p)[r]]
  BY <1>1
<1>6. \A r \in DOMAIN At(v, p) : At(v, p)[r] = v[p \o r]
  BY <1>1, <1>4
<1>7. DOMAIN At(v, p) \subseteq Pointer
  BY <1>2, <1>4
<1> QED  BY <1>2, <1>3, <1>4, <1>5, <1>6, <1>7 DEF Rooted

(* In a tree something is at a pointer exactly when it has that pointer.    *)
LEMMA AtPresent ==
  ASSUME NEW v, IsTree(v), NEW p \in Pointer
  PROVE  At(v, p) # Absent <=> p \in DOMAIN v
<1>1. DOMAIN v \subseteq Pointer
  BY DEF IsTree, Pointer
<1>2. At(v, p) # Absent <=> DOMAIN At(v, p) # {}
  BY <1>1, AtBelow, AbsentIsRooted
<1>3. ASSUME NEW r \in DOMAIN At(v, p)
      PROVE  p \in DOMAIN v
  <2>1. r \in Pointer /\ p \o r \in DOMAIN v
    BY <1>1, AtBelow
  <2>2. IsPrefix(p, p \o r) /\ p \o r \in Pointer
    BY <2>1, PrefixOfJoin
  <2>3. p = p \o r \/ p \in Ancestors(p \o r)
    BY <2>2, AncestorsArePrefixes
  <2> QED  BY <2>1, <2>3 DEF IsTree
<1>4. p \in DOMAIN v => <<>> \in DOMAIN At(v, p)
  BY <1>1, AtBelow, EmptyPointer
<1> QED  BY <1>2, <1>3, <1>4

LEMMA RootOfTree ==
  ASSUME NEW v, IsTree(v)
  PROVE  /\ Rooted(v)
         /\ v # Absent <=> <<>> \in DOMAIN v
<1>1. Rooted(v)
  BY DEF IsTree, Rooted, Pointer
<1>2. ASSUME NEW q \in DOMAIN v
      PROVE  <<>> \in DOMAIN v
  <2>1. q \in Pointer /\ IsPrefix(<<>>, q) /\ <<>> \in Pointer
    BY <1>1, EmptyPointer DEF Rooted
  <2>2. <<>> = q \/ <<>> \in Ancestors(q)
    BY <2>1, AncestorsArePrefixes
  <2> QED  BY <2>2 DEF IsTree
<1> QED  BY <1>1, <1>2, AbsentIsRooted

LEMMA SetIsRooted ==
  ASSUME NEW v, Rooted(v), NEW p \in Pointer, NEW new, Rooted(new), ~Blocked(v, p)
  PROVE  /\ Rooted(SetAt(v, p, new))
         /\ \A q \in Pointer : q \in DOMAIN SetAt(v, p, new) <=>
              IF IsPrefix(p, q) THEN Beyond(p, q) \in DOMAIN new ELSE q \in DOMAIN v
         /\ \A q \in DOMAIN SetAt(v, p, new) :
              SetAt(v, p, new)[q] = IF IsPrefix(p, q) THEN new[Beyond(p, q)] ELSE v[q]
<1> DEFINE D == {q \in DOMAIN v : ~IsPrefix(p, q)} \cup {p \o r : r \in DOMAIN new}
<1>1. SetAt(v, p, new) = [q \in D |-> IF IsPrefix(p, q) THEN new[Beyond(p, q)] ELSE v[q]]
  BY DEF SetAt, Blocked
<1>2. \A r \in DOMAIN new : r \in Pointer
  BY DEF Rooted
<1>3. D \subseteq Pointer
  <2>1. \A r \in DOMAIN new : p \o r \in Pointer
    BY <1>2, PrefixOfJoin
  <2>2. DOMAIN v \subseteq Pointer
    BY DEF Rooted
  <2> QED  BY <2>1, <2>2
<1>4. ASSUME NEW q \in Pointer
      PROVE  q \in D <=> IF IsPrefix(p, q) THEN Beyond(p, q) \in DOMAIN new ELSE q \in DOMAIN v
  <2>1. CASE IsPrefix(p, q)
    <3>1. q = p \o Beyond(p, q)
      BY <2>1, BeyondPrefix
    <3>2. \A r \in DOMAIN new : q = p \o r => r = Beyond(p, q)
      BY <1>2, PrefixOfJoin
    <3> QED  BY <2>1, <3>1, <3>2
  <2>2. CASE ~IsPrefix(p, q)
    <3>1. \A r \in DOMAIN new : q # p \o r
      BY <1>2, <2>2, PrefixOfJoin
    <3> QED  BY <2>2, <3>1
  <2> QED  BY <2>1, <2>2
<1> HIDE DEF D
<1>5. DOMAIN SetAt(v, p, new) = D
  BY <1>1
<1>6. SetAt(v, p, new) = [q \in DOMAIN SetAt(v, p, new) |-> SetAt(v, p, new)[q]]
  BY <1>1
<1>7. \A q \in DOMAIN SetAt(v, p, new) :
        SetAt(v, p, new)[q] = IF IsPrefix(p, q) THEN new[Beyond(p, q)] ELSE v[q]
  BY <1>1, <1>5
<1> QED  BY <1>3, <1>4, <1>5, <1>6, <1>7 DEF Rooted

(* What was set is there.                                                   *)
LEMMA SetThenAt ==
  ASSUME NEW v, Rooted(v), NEW p \in Pointer, NEW new, Rooted(new), ~Blocked(v, p)
  PROVE  At(SetAt(v, p, new), p) = new
<1> DEFINE s == SetAt(v, p, new)
<1>1. Rooted(s)
  BY SetIsRooted
<1>2. DOMAIN s \subseteq Pointer
  BY <1>1 DEF Rooted
<1>3. ASSUME NEW r \in Pointer
      PROVE  r \in DOMAIN At(s, p) <=> r \in DOMAIN new
  <2>1. r \in DOMAIN At(s, p) <=> p \o r \in DOMAIN s
    BY <1>2, AtBelow
  <2>2. p \o r \in Pointer /\ IsPrefix(p, p \o r) /\ Beyond(p, p \o r) = r
    BY PrefixOfJoin
  <2> QED  BY <2>1, <2>2, SetIsRooted
<1>4. Rooted(At(s, p))
  BY <1>2, AtBelow
<1>5. DOMAIN At(s, p) = DOMAIN new
  BY <1>3, <1>4 DEF Rooted
<1>6. ASSUME NEW r \in DOMAIN new
      PROVE  At(s, p)[r] = new[r]
  <2>1. r \in Pointer /\ At(s, p)[r] = s[p \o r] /\ p \o r \in DOMAIN s
    BY <1>2, <1>5, AtBelow
  <2>2. IsPrefix(p, p \o r) /\ Beyond(p, p \o r) = r
    BY <2>1, PrefixOfJoin
  <2> QED  BY <2>1, <2>2, SetIsRooted
<1> HIDE DEF s
<1>7. At(s, p) = [r \in DOMAIN new |-> At(s, p)[r]] /\ new = [r \in DOMAIN new |-> new[r]]
  BY <1>4, <1>5 DEF Rooted
<1>8. At(s, p) = new
  BY <1>6, <1>7
<1> QED  BY <1>8 DEF s

(* What is not about the pointer that is set stays as it was.               *)
LEMMA SetElsewhere ==
  ASSUME NEW v, Rooted(v), NEW p \in Pointer, NEW new, Rooted(new), ~Blocked(v, p),
         NEW t \in Pointer, ~Overlapping(p, t)
  PROVE  At(SetAt(v, p, new), t) = At(v, t)
<1> DEFINE s == SetAt(v, p, new)
<1>1. DOMAIN s \subseteq Pointer /\ DOMAIN v \subseteq Pointer
  BY SetIsRooted DEF Rooted
<1>2. ASSUME NEW r \in Pointer
      PROVE  /\ t \o r \in DOMAIN s <=> t \o r \in DOMAIN v
             /\ t \o r \in DOMAIN s => s[t \o r] = v[t \o r]
  <2>1. t \o r \in Pointer /\ IsPrefix(t, t \o r)
    BY PrefixOfJoin
  <2>2. ~IsPrefix(p, t \o r)
    BY <2>1, PrefixesOverlap
  <2> QED  BY <2>1, <2>2, SetIsRooted
<1>3. Rooted(At(s, t)) /\ Rooted(At(v, t))
  BY <1>1, AtBelow
<1> HIDE DEF s
<1>4. DOMAIN At(s, t) = DOMAIN At(v, t)
  <2>1. \A r \in Pointer : r \in DOMAIN At(s, t) <=> r \in DOMAIN At(v, t)
    BY <1>1, <1>2, AtBelow
  <2> QED  BY <1>3, <2>1 DEF Rooted
<1>5. \A r \in DOMAIN At(v, t) : At(s, t)[r] = At(v, t)[r]
  <2> TAKE r \in DOMAIN At(v, t)
  <2>1. r \in DOMAIN At(s, t) /\ r \in Pointer
    BY <1>3, <1>4 DEF Rooted
  <2>2. At(s, t)[r] = s[t \o r] /\ t \o r \in DOMAIN s
    BY <1>1, <2>1, AtBelow
  <2>3. At(v, t)[r] = v[t \o r]
    BY <1>1, AtBelow
  <2> QED  BY <1>2, <2>1, <2>2, <2>3
<1>6. /\ At(s, t) = [r \in DOMAIN At(v, t) |-> At(s, t)[r]]
      /\ At(v, t) = [r \in DOMAIN At(v, t) |-> At(v, t)[r]]
  BY <1>3, <1>4 DEF Rooted
<1>7. At(s, t) = At(v, t)
  BY <1>5, <1>6
<1> QED  BY <1>7 DEF s

-----------------------------------------------------------------------------
(* Lists that are put together                                              *)

(* Sets of numbers that hold 1 and with a number the next one.              *)
LEMMA Counting ==
  ASSUME NEW N \in Nat, NEW S, 1 \in S, \A n \in 2..N : n - 1 \in S => n \in S
  PROVE  \A n \in 1..N : n \in S
<1> DEFINE R == OpToRel(<, Nat)
           T == {n \in 1..N : n \notin S}
<1>1. IsWellFoundedOn(R, Nat)
  BY NatLessThanWellFounded, Zenon
<1>2. \A i, j \in Nat : i < j => <<i, j>> \in R
  BY DEF OpToRel
<1> HIDE DEF R
<1> SUFFICES ASSUME T # {}
             PROVE  FALSE
  OBVIOUS
<1>3. PICK n \in T : \A m \in T : ~(<<m, n>> \in R)
  <2>1. T \in SUBSET Nat
    OBVIOUS
  <2> HIDE DEF T
  <2> QED  BY <1>1, <2>1, WFMin
<1>4. n \in 2..N /\ n - 1 \in 1..N /\ n - 1 < n /\ n \in Nat /\ n - 1 \in Nat
  <2>1. n \in 1..N /\ n # 1
    BY <1>3
  <2> QED  BY <2>1
<1>5. n - 1 \in S
  BY <1>2, <1>3, <1>4
<1> QED  BY <1>3, <1>4, <1>5

LEMMA LeastOf ==
  ASSUME NEW S \in SUBSET Nat, S # {}
  PROVE  \E n \in S : \A m \in S : n <= m
<1> DEFINE R == OpToRel(<, Nat)
<1>1. IsWellFoundedOn(R, Nat)
  BY NatLessThanWellFounded, Zenon
<1>2. \A i, j \in Nat : i < j => <<i, j>> \in R
  BY DEF OpToRel
<1> HIDE DEF R
<1>3. PICK n \in S : \A m \in S : ~(<<m, n>> \in R)
  BY <1>1, WFMin
<1>4. ASSUME NEW m \in S
      PROVE  n <= m
  <2>1. ~(m < n)
    BY <1>2, <1>3
  <2> QED  BY <2>1
<1> QED  BY <1>4

(* A set of numbers up to a bound has a greatest one.                       *)
LEMMA GreatestOf ==
  ASSUME NEW N \in Nat, NEW S \in SUBSET (1..N), S # {}
  PROVE  Max(S) \in S /\ \A m \in S : m <= Max(S)
<1> DEFINE T == {N - n : n \in S}
<1>1. PICK k \in T : \A m \in T : k <= m
  <2>1. \A n \in S : N - n \in Nat
    OBVIOUS
  <2>2. T \in SUBSET Nat /\ T # {}
    BY <2>1
  <2> HIDE DEF T
  <2> QED  BY <2>2, LeastOf
<1>2. PICK x \in S : k = N - x
  OBVIOUS
<1>3. \A m \in S : x >= m
  <2> TAKE m \in S
  <2>1. N - m \in T
    OBVIOUS
  <2>2. N - x <= N - m
    BY <1>1, <1>2, <2>1
  <2>3. x \in 1..N /\ m \in 1..N
    OBVIOUS
  <2> QED  BY <2>2, <2>3
<1> QED  BY <1>2, <1>3 DEF Max

LEMMA JoinedMembers ==
  ASSUME NEW V, NEW s \in Seq(V), NEW t \in Seq(V)
  PROVE  s \o t \in Seq(V) /\ ToSet(s \o t) = ToSet(s) \cup ToSet(t)
<1>1. /\ s \o t \in Seq(V) /\ Len(s \o t) = Len(s) + Len(t)
      /\ \A i \in 1..Len(s) + Len(t) : (s \o t)[i] = IF i <= Len(s) THEN s[i] ELSE t[i - Len(s)]
  BY ConcatProperties
<1>2. /\ Len(s) \in Nat /\ Len(t) \in Nat
      /\ DOMAIN s = 1..Len(s) /\ DOMAIN t = 1..Len(t) /\ DOMAIN (s \o t) = 1..Len(s) + Len(t)
  BY <1>1, LenProperties
<1>3. \A i \in DOMAIN (s \o t) : (s \o t)[i] \in ToSet(s) \cup ToSet(t)
  <2> TAKE i \in DOMAIN (s \o t)
  <2>1. CASE i <= Len(s)
    <3>1. i \in DOMAIN s /\ (s \o t)[i] = s[i]
      BY <1>1, <1>2, <2>1
    <3> QED  BY <3>1 DEF ToSet
  <2>2. CASE ~(i <= Len(s))
    <3>1. i - Len(s) \in DOMAIN t /\ (s \o t)[i] = t[i - Len(s)]
      BY <1>1, <1>2, <2>2
    <3> QED  BY <3>1 DEF ToSet
  <2> QED  BY <2>1, <2>2
<1>4. \A i \in DOMAIN s : s[i] \in ToSet(s \o t)
  <2> TAKE i \in DOMAIN s
  <2>1. i \in DOMAIN (s \o t) /\ (s \o t)[i] = s[i]
    BY <1>1, <1>2
  <2> QED  BY <2>1 DEF ToSet
<1>5. \A i \in DOMAIN t : t[i] \in ToSet(s \o t)
  <2> TAKE i \in DOMAIN t
  <2>1. Len(s) + i \in DOMAIN (s \o t) /\ (s \o t)[Len(s) + i] = t[i]
    BY <1>1, <1>2
  <2> QED  BY <2>1 DEF ToSet
<1> QED  BY <1>1, <1>3, <1>4, <1>5 DEF ToSet

Flattens(f, seqs, n) == f = [i \in 1..n |-> IF i = 1 THEN seqs[i] ELSE f[i - 1] \o seqs[i]]

LEMMA FlatteningExists ==
  ASSUME NEW V, NEW N \in Nat, N # 0, NEW seqs \in [1..N -> Seq(V)]
  PROVE  \E f : Flattens(f, seqs, N)
<1> DEFINE S == {n \in 1..N : \E f : Flattens(f, seqs, n)}
<1>1. 1 \in S
  <2> DEFINE f == [i \in 1..1 |-> seqs[1]]
  <2>1. f = [i \in 1..1 |-> IF i = 1 THEN seqs[i] ELSE f[i - 1] \o seqs[i]]
    OBVIOUS
  <2> HIDE DEF f
  <2>2. Flattens(f, seqs, 1)
    BY <2>1 DEF Flattens
  <2> QED  BY <2>2
<1>2. ASSUME NEW n \in 2..N, n - 1 \in S
      PROVE  n \in S
  <2>1. PICK g : Flattens(g, seqs, n - 1)
    BY <1>2
  <2> DEFINE f == [i \in 1..n |-> IF i = n THEN g[n - 1] \o seqs[n] ELSE g[i]]
  <2>2. DOMAIN g = 1..n - 1 /\ \A i \in 1..n - 1 : g[i] = IF i = 1 THEN seqs[i] ELSE g[i - 1] \o seqs[i]
    BY <2>1 DEF Flattens
  <2>3. \A i \in 1..n - 1 : f[i] = g[i]
    OBVIOUS
  <2>4. \A i \in 1..n : f[i] = IF i = 1 THEN seqs[i] ELSE f[i - 1] \o seqs[i]
    <3> TAKE i \in 1..n
    <3>1. CASE i = n
      <4>1. f[i] = g[n - 1] \o seqs[n] /\ f[n - 1] = g[n - 1] /\ i # 1
        BY <2>3, <3>1
      <4> QED  BY <3>1, <4>1
    <3>2. CASE i # n /\ i # 1
      <4>1. i \in 1..n - 1 /\ i - 1 \in 1..n - 1
        BY <3>2
      <4>2. f[i] = g[i] /\ f[i - 1] = g[i - 1]
        BY <2>3, <4>1
      <4> QED  BY <2>2, <3>2, <4>1, <4>2
    <3>3. CASE i # n /\ i = 1
      <4>1. i \in 1..n - 1
        BY <3>3
      <4> QED  BY <2>2, <2>3, <3>3, <4>1
    <3> QED  BY <3>1, <3>2, <3>3
  <2>5. f = [i \in 1..n |-> f[i]]
    OBVIOUS
  <2> HIDE DEF f
  <2>6. Flattens(f, seqs, n)
    BY <2>4, <2>5 DEF Flattens
  <2> QED  BY <2>6
<1> HIDE DEF S
<1>3. N \in S
  <2>1. \A n \in 1..N : n \in S
    BY <1>1, <1>2, Counting
  <2> QED  BY <2>1
<1> QED  BY <1>3 DEF S

(* The members of a list that is put together are those of its parts.       *)
LEMMA Flattened ==
  ASSUME NEW V, NEW N \in Nat, NEW seqs \in [1..N -> Seq(V)]
  PROVE  /\ FlattenSeq(seqs) \in Seq(V)
         /\ ToSet(FlattenSeq(seqs)) = UNION {ToSet(seqs[i]) : i \in 1..N}
<1>1. Len(seqs) = N
  OBVIOUS
<1>2. CASE N = 0
  <2>1. seqs = <<>>
    BY <1>2
  <2>2. FlattenSeq(seqs) = <<>>
    BY <1>1, <1>2, <2>1 DEF FlattenSeq
  <2>3. ToSet(<<>>) = {} /\ 1..N = {}
    BY <1>2 DEF ToSet
  <2> QED  BY <2>2, <2>3
<1>3. CASE N # 0
  <2> DEFINE f == CHOOSE f : Flattens(f, seqs, N)
  <2>1. FlattenSeq(seqs) = f[N]
    BY <1>1, <1>3 DEF FlattenSeq, Flattens
  <2>2. Flattens(f, seqs, N)
    BY <1>3, FlatteningExists
  <2> HIDE DEF f
  <2>3. \A i \in 1..N : f[i] = IF i = 1 THEN seqs[i] ELSE f[i - 1] \o seqs[i]
    BY <2>2 DEF Flattens
  <2> DEFINE S == {n \in 1..N : /\ f[n] \in Seq(V)
                                /\ ToSet(f[n]) = UNION {ToSet(seqs[i]) : i \in 1..n}}
  <2>4. 1 \in S
    <3>1. f[1] = seqs[1] /\ 1 \in 1..N /\ 1..1 = {1}
      BY <1>3, <2>3
    <3>2. UNION {ToSet(seqs[i]) : i \in {1}} = ToSet(seqs[1])
      OBVIOUS
    <3> QED  BY <3>1, <3>2
  <2>5. ASSUME NEW n \in 2..N, n - 1 \in S
        PROVE  n \in S
    <3>1. f[n] = f[n - 1] \o seqs[n] /\ f[n - 1] \in Seq(V) /\ seqs[n] \in Seq(V)
      <4>1. n \in 1..N /\ n # 1
        OBVIOUS
      <4> QED  BY <2>3, <2>5, <4>1
    <3>2. ToSet(f[n]) = ToSet(f[n - 1]) \cup ToSet(seqs[n])
      BY <3>1, JoinedMembers
    <3>3. 1..n = (1..n - 1) \cup {n}
      OBVIOUS
    <3>4. UNION {ToSet(seqs[i]) : i \in 1..n}
            = (UNION {ToSet(seqs[i]) : i \in 1..n - 1}) \cup ToSet(seqs[n])
      BY <3>3
    <3>5. n \in 1..N /\ f[n] \in Seq(V)
      BY <3>1, JoinedMembers
    <3>6. ToSet(f[n - 1]) = UNION {ToSet(seqs[i]) : i \in 1..n - 1}
      BY <2>5
    <3>7. ToSet(f[n]) = UNION {ToSet(seqs[i]) : i \in 1..n}
      BY <3>2, <3>4, <3>6
    <3> QED  BY <3>5, <3>7
  <2> HIDE DEF S
  <2>6. N \in S
    <3>1. \A n \in 1..N : n \in S
      BY <2>4, <2>5, Counting
    <3> QED  BY <1>3, <3>1
  <2> QED  BY <2>1, <2>6 DEF S
<1> QED  BY <1>2, <1>3

(* A list without repetitions has the same members.                         *)
LEMMA DistinctMembers ==
  ASSUME NEW V, NEW items \in Seq(V)
  PROVE  Distinct(items) \in Seq(V) /\ ToSet(Distinct(items)) = ToSet(items)
<1> DEFINE Kept(i) == IF \E j \in 1..(i - 1) : items[j] = items[i] THEN <<>> ELSE <<items[i]>>
           kept == [i \in DOMAIN items |-> Kept(i)]
<1>1. Len(items) \in Nat /\ DOMAIN items = 1..Len(items) /\ \A i \in 1..Len(items) : items[i] \in V
  BY LenProperties, ElementOfSeq
<1>2. \A i \in 1..Len(items) : Kept(i) \in Seq(V)
  BY <1>1
<1>3. kept \in [1..Len(items) -> Seq(V)]
  BY <1>1, <1>2
<1>4. Distinct(items) = FlattenSeq(kept)
  BY DEF Distinct
<1>5. \A i \in 1..Len(items) : kept[i] = Kept(i)
  BY <1>1
<1> HIDE DEF kept
<1>6. /\ Distinct(items) \in Seq(V)
      /\ ToSet(Distinct(items)) = UNION {ToSet(kept[i]) : i \in 1..Len(items)}
  <2>1. /\ FlattenSeq(kept) \in Seq(V)
        /\ ToSet(FlattenSeq(kept)) = UNION {ToSet(kept[i]) : i \in 1..Len(items)}
    BY <1>1, <1>3, Flattened
  <2> QED  BY <1>4, <2>1, Zenon
<1>7. ASSUME NEW i \in 1..Len(items)
      PROVE  ToSet(kept[i]) \subseteq ToSet(items)
  <2>1. ToSet(<<items[i]>>) = {items[i]} /\ ToSet(<<>>) = {}
    BY DEF ToSet
  <2>2. items[i] \in ToSet(items)
    BY <1>1 DEF ToSet
  <2> QED  BY <1>5, <2>1, <2>2
<1>8. ASSUME NEW i \in 1..Len(items)
      PROVE  \E j \in 1..Len(items) : items[i] \in ToSet(kept[j])
  <2> DEFINE S == {j \in 1..Len(items) : items[j] = items[i]}
  <2>1. PICK j \in S : \A k \in S : j <= k
    <3>1. S \in SUBSET Nat /\ S # {}
      OBVIOUS
    <3> HIDE DEF S
    <3> QED  BY <3>1, LeastOf
  <2>2. kept[j] = <<items[j]>>
    <3>1. ~(\E k \in 1..(j - 1) : items[k] = items[j])
      BY <1>1, <2>1
    <3> QED  BY <1>5, <3>1
  <2>3. items[j] \in ToSet(<<items[j]>>)
    BY DEF ToSet
  <2> QED  BY <2>1, <2>2, <2>3
<1>9. ToSet(items) = {items[i] : i \in 1..Len(items)}
  BY <1>1 DEF ToSet
<1>10. UNION {ToSet(kept[i]) : i \in 1..Len(items)} = ToSet(items)
  <2>1. \A x \in UNION {ToSet(kept[i]) : i \in 1..Len(items)} : x \in ToSet(items)
    BY <1>7
  <2>2. \A x \in ToSet(items) : x \in UNION {ToSet(kept[i]) : i \in 1..Len(items)}
    <3> TAKE x \in ToSet(items)
    <3>1. PICK i \in 1..Len(items) : x = items[i]
      BY <1>9
    <3>2. PICK j \in 1..Len(items) : items[i] \in ToSet(kept[j])
      BY <1>8
    <3> QED  BY <3>1, <3>2
  <2> QED  BY <2>1, <2>2
<1> QED  BY <1>6, <1>10

(* What the arrays among some values hold.                                  *)
ItemsOf(v) == IF KindOf(v) = "array" THEN Node(v).items ELSE <<>>

LEMMA ItemsOfValue ==
  ASSUME NEW v, IsValue(v)
  PROVE  ItemsOf(v) \in Seq(ToSet(ItemsOf(v)))
<1>1. <<>> \in Seq(ToSet(<<>>))
  OBVIOUS
<1>2. CASE KindOf(v) = "array"
  <2>1. v # Absent /\ v[<<>>].kind = "array"
    BY <1>2 DEF KindOf, Node
  <2>2. <<>> \in DOMAIN v
    BY <2>1, RootOfTree DEF IsValue
  <2> QED  BY <1>2, <2>1, <2>2 DEF IsValue, IsList, ItemsOf, Node
<1>3. CASE KindOf(v) # "array"
  BY <1>1, <1>3 DEF ItemsOf
<1> QED  BY <1>2, <1>3

LEMMA ItemsMembers ==
  ASSUME NEW N \in Nat, NEW values, DOMAIN values = 1..N, \A i \in 1..N : IsValue(values[i])
  PROVE  /\ ToSet(Items(values)) = UNION {ToSet(ItemsOf(values[i])) : i \in 1..N}
         /\ Items(values) \in Seq(ToSet(Items(values)))
<1> DEFINE seqs == [i \in DOMAIN values |-> ItemsOf(values[i])]
           V == UNION {ToSet(ItemsOf(values[i])) : i \in 1..N}
<1>1. Items(values) = FlattenSeq(seqs)
  BY DEF Items, ItemsOf
<1>2. \A i \in 1..N : ItemsOf(values[i]) \in Seq(V)
  <2> TAKE i \in 1..N
  <2>1. ItemsOf(values[i]) \in Seq(ToSet(ItemsOf(values[i])))
    BY ItemsOfValue
  <2>2. ToSet(ItemsOf(values[i])) \subseteq V
    OBVIOUS
  <2> QED  BY <2>1, <2>2, SeqMonotonic
<1>3. seqs \in [1..N -> Seq(V)] /\ \A i \in 1..N : seqs[i] = ItemsOf(values[i])
  BY <1>2
<1>4. UNION {ToSet(seqs[i]) : i \in 1..N} = V
  BY <1>3
<1> HIDE DEF seqs, V
<1>5. FlattenSeq(seqs) \in Seq(V) /\ ToSet(FlattenSeq(seqs)) = UNION {ToSet(seqs[i]) : i \in 1..N}
  BY <1>3, Flattened
<1>6. Items(values) \in Seq(V) /\ ToSet(Items(values)) = V
  BY <1>1, <1>4, <1>5, Zenon
<1> QED  BY <1>6 DEF V

-----------------------------------------------------------------------------
(* What there is for a setting                                              *)

LEMMA PrefixesChain ==
  ASSUME NEW a \in Pointer, NEW p \in Pointer, NEW q \in Pointer, IsPrefix(p, q)
  PROVE  /\ IsPrefix(a, p) => IsPrefix(a, q)
         /\ IsPrefix(a, q) => IsPrefix(p, a) \/ a \in Ancestors(p)
<1>1. Len(a) \in Nat /\ Len(p) \in Nat /\ Len(q) \in Nat
  BY LenProperties DEF Pointer
<1>2. Len(p) <= Len(q) /\ \A i \in 1..Len(p) : p[i] = q[i]
  BY PrefixByKeys
<1>3. ASSUME IsPrefix(a, p)
      PROVE  IsPrefix(a, q)
  <2>1. Len(a) <= Len(p) /\ \A i \in 1..Len(a) : a[i] = p[i]
    BY <1>3, PrefixByKeys
  <2>2. Len(a) <= Len(q) /\ \A i \in 1..Len(a) : i \in 1..Len(p)
    BY <1>1, <1>2, <2>1
  <2>3. \A i \in 1..Len(a) : a[i] = q[i]
    BY <1>2, <2>1, <2>2
  <2> QED  BY <2>2, <2>3, PrefixByKeys
<1>4. ASSUME IsPrefix(a, q)
      PROVE  IsPrefix(p, a) \/ a \in Ancestors(p)
  <2>1. IsPrefix(a, p) \/ IsPrefix(p, a)
    BY <1>4, PrefixesOverlap DEF Overlapping
  <2>2. IsPrefix(a, p) => a = p \/ a \in Ancestors(p)
    BY AncestorsArePrefixes
  <2>3. IsPrefix(p, p)
    BY <1>1, PrefixByKeys
  <2> QED  BY <2>1, <2>2, <2>3
<1> QED  BY <1>3, <1>4

(* The pointers around a pointer: one of every length, itself the longest.  *)
LEMMA AroundIs ==
  ASSUME NEW p \in Pointer
  PROVE  /\ Len(p) \in Nat
         /\ \A a \in Around(p) :
              /\ a \in Pointer /\ IsPrefix(a, p) /\ Len(a) \in 0..Len(p)
              /\ a = SubSeq(p, 1, Len(a)) /\ Beyond(a, p) \in Pointer
         /\ \A k \in 0..Len(p) : SubSeq(p, 1, k) \in Around(p) /\ Len(SubSeq(p, 1, k)) = k
<1>1. Len(p) \in Nat /\ SubSeq(p, 1, Len(p)) = p /\ IsPrefix(p, p)
  BY LenProperties, SubSeqFull, PrefixByKeys DEF Pointer
<1>2. ASSUME NEW a \in Around(p)
      PROVE  /\ a \in Pointer /\ IsPrefix(a, p) /\ Len(a) \in 0..Len(p)
             /\ a = SubSeq(p, 1, Len(a)) /\ Beyond(a, p) \in Pointer
  <2>1. a \in Pointer /\ IsPrefix(a, p)
    BY <1>1, AncestorsArePrefixes DEF Around
  <2>2. Len(a) \in 0..Len(p)
    BY <1>1, <2>1, PrefixByKeys, LenProperties DEF Pointer
  <2>3. SubSeq(a, 1, Len(a)) = a
    BY <2>1, SubSeqFull DEF Pointer
  <2> QED  BY <2>1, <2>2, <2>3, BeyondPrefix DEF IsPrefix
<1>3. ASSUME NEW k \in 0..Len(p)
      PROVE  SubSeq(p, 1, k) \in Around(p) /\ Len(SubSeq(p, 1, k)) = k
  <2>1. \A i \in 1..k : p[i] \in STRING
    BY <1>1, ElementOfSeq DEF Pointer
  <2>2. Len(SubSeq(p, 1, k)) = IF 1 <= k THEN k - 1 + 1 ELSE 0
    BY <1>1, <2>1, SubSeqProperties
  <2>3. CASE k = Len(p)
    BY <1>1, <2>2, <2>3 DEF Around
  <2>4. CASE k # Len(p)
    <3>1. k \in 0..(Len(p) - 1)
      <4>1. Len(p) \in Nat
        BY <1>1
      <4> QED  BY <2>4, <4>1
    <3> QED  BY <2>2, <3>1 DEF Around, Ancestors
  <2> QED  BY <2>3, <2>4
<1> QED  BY <1>1, <1>2, <1>3

LEMMA ShortestIs ==
  ASSUME NEW p \in Pointer, NEW S \in SUBSET Around(p), S # {}
  PROVE  Shortest(S) \in S /\ \A t \in S : Len(Shortest(S)) <= Len(t)
<1>1. {Len(t) : t \in S} \in SUBSET Nat /\ {Len(t) : t \in S} # {}
  <2>1. \A t \in S : t \in Pointer
    BY AroundIs
  <2>2. \A t \in S : Len(t) \in Nat
    BY <2>1, LenProperties DEF Pointer
  <2> QED  BY <2>2
<1>2. \E n \in {Len(t) : t \in S} : \A m \in {Len(t) : t \in S} : n <= m
  BY <1>1, LeastOf
<1>3. \E t \in S : \A u \in S : Len(t) <= Len(u)
  BY <1>2
<1> QED  BY <1>3 DEF Shortest

(* What is around something around a pointer is around the pointer.         *)
LEMMA AncestorsChain ==
  ASSUME NEW p \in Pointer, NEW a \in Ancestors(p), NEW b \in Ancestors(a)
  PROVE  b \in Ancestors(p)
<1>1. a \in Pointer /\ IsPrefix(a, p) /\ Len(a) < Len(p)
  BY AncestorsArePrefixes
<1>2. b \in Pointer /\ IsPrefix(b, a) /\ Len(b) < Len(a)
  BY <1>1, AncestorsArePrefixes
<1>3. IsPrefix(b, p)
  BY <1>1, <1>2, PrefixesChain
<1>4. b # p
  BY <1>1, <1>2, LenProperties DEF Pointer
<1> QED  BY <1>2, <1>3, <1>4, AncestorsArePrefixes

LEMMA JoinedPointers ==
  ASSUME NEW p \in Pointer, NEW q \in Pointer, NEW r \in Pointer
  PROVE  (p \o q) \o r = p \o (q \o r)
  BY ConcatAssociative DEF Pointer

LEMMA AtRoot ==
  ASSUME NEW v, Rooted(v)
  PROVE  At(v, <<>>) = v
<1>1. DOMAIN v \subseteq Pointer
  BY DEF Rooted
<1>2. Rooted(At(v, <<>>))
  BY <1>1, AtBelow, EmptyPointer
<1>3. DOMAIN At(v, <<>>) = DOMAIN v
  <2>1. \A r \in Pointer : r \in DOMAIN At(v, <<>>) <=> r \in DOMAIN v
    <3>1. \A r \in Pointer : r \in DOMAIN At(v, <<>>) <=> <<>> \o r \in DOMAIN v
      BY <1>1, AtBelow, EmptyPointer
    <3> QED  BY <3>1, EmptyPointer
  <2> QED  BY <1>1, <1>2, <2>1 DEF Rooted
<1>4. \A r \in DOMAIN v : At(v, <<>>)[r] = v[r]
  <2> TAKE r \in DOMAIN v
  <2>1. r \in DOMAIN At(v, <<>>) /\ r \in Pointer /\ <<>> \in Pointer
    BY <1>1, <1>3, EmptyPointer
  <2>2. At(v, <<>>)[r] = v[<<>> \o r]
    BY <1>1, <2>1, AtBelow
  <2>3. <<>> \o r = r
    BY <2>1, EmptyPointer
  <2> QED  BY <2>2, <2>3
<1>5. /\ At(v, <<>>) = [r \in DOMAIN v |-> At(v, <<>>)[r]]
      /\ v = [r \in DOMAIN v |-> v[r]]
  BY <1>2, <1>3 DEF Rooted
<1> QED  BY <1>4, <1>5

LEMMA AtAbsent ==
  ASSUME NEW p \in Pointer
  PROVE  At(Absent, p) = Absent
<1>1. DOMAIN Absent = {}
  BY AbsentIsRooted
<1>2. Rooted(At(Absent, p)) /\ \A r \in DOMAIN At(Absent, p) : r \in Pointer
  BY <1>1, AtBelow
<1>3. \A r \in Pointer : r \notin DOMAIN At(Absent, p)
  BY <1>1, AtBelow
<1>4. DOMAIN At(Absent, p) = {}
  BY <1>2, <1>3
<1> QED  BY <1>2, <1>4, AbsentIsRooted

LEMMA AtChain ==
  ASSUME NEW v, DOMAIN v \subseteq Pointer, NEW p \in Pointer, NEW r \in Pointer
  PROVE  At(v, p \o r) = At(At(v, p), r)
<1> DEFINE w == At(v, p)
           x == At(v, p \o r)
           y == At(w, r)
<1>1. p \o r \in Pointer
  BY PrefixOfJoin
<1>2. /\ Rooted(x)
      /\ \A q \in Pointer : q \in DOMAIN x <=> (p \o r) \o q \in DOMAIN v
      /\ \A q \in DOMAIN x : q \in Pointer /\ x[q] = v[(p \o r) \o q]
  BY <1>1, AtBelow
<1>3. /\ DOMAIN w \subseteq Pointer
      /\ \A q \in Pointer : q \in DOMAIN w <=> p \o q \in DOMAIN v
      /\ \A q \in DOMAIN w : w[q] = v[p \o q]
  BY AtBelow DEF Rooted
<1> HIDE DEF w, x
<1>4. /\ Rooted(y)
      /\ \A q \in Pointer : q \in DOMAIN y <=> r \o q \in DOMAIN w
      /\ \A q \in DOMAIN y : q \in Pointer /\ y[q] = w[r \o q]
  BY <1>3, AtBelow
<1> HIDE DEF y
<1>5. \A q \in Pointer : (p \o r) \o q = p \o (r \o q) /\ r \o q \in Pointer
  BY JoinedPointers, PrefixOfJoin
<1>6. \A q \in Pointer : q \in DOMAIN x <=> q \in DOMAIN y
  BY <1>2, <1>3, <1>4, <1>5
<1>7. DOMAIN x = DOMAIN y
  BY <1>2, <1>4, <1>6
<1>8. \A q \in DOMAIN x : x[q] = y[q]
  <2> TAKE q \in DOMAIN x
  <2>1. q \in Pointer /\ q \in DOMAIN y
    BY <1>2, <1>7
  <2>2. r \o q \in DOMAIN w
    BY <1>4, <2>1
  <2>3. y[q] = w[r \o q] /\ w[r \o q] = v[p \o (r \o q)] /\ x[q] = v[(p \o r) \o q]
    BY <1>2, <1>3, <1>4, <2>1, <2>2
  <2>4. (p \o r) \o q = p \o (r \o q)
    BY <1>5, <2>1
  <2> QED  BY <2>3, <2>4, Zenon
<1>9. x = [q \in DOMAIN x |-> x[q]] /\ y = [q \in DOMAIN x |-> y[q]]
  BY <1>2, <1>4, <1>7 DEF Rooted
<1>10. x = y
  BY <1>8, <1>9
<1> QED  BY <1>10 DEF w, x, y

LEMMA AtIsValue ==
  ASSUME NEW v, IsValue(v), NEW p \in Pointer
  PROVE  IsValue(At(v, p))
<1>1. DOMAIN v \subseteq Pointer
  BY DEF IsValue, IsTree, Pointer
<1> DEFINE w == At(v, p)
<1>2. /\ Rooted(w)
      /\ \A r \in Pointer : r \in DOMAIN w <=> p \o r \in DOMAIN v
      /\ \A r \in DOMAIN w : r \in Pointer /\ w[r] = v[p \o r]
  BY <1>1, AtBelow
<1>3. ASSUME NEW r \in DOMAIN w, NEW a \in Ancestors(r)
      PROVE  a \in DOMAIN w /\ p \o a \in Ancestors(p \o r)
  <2>1. r \in Pointer /\ p \o r \in DOMAIN v /\ p \o r \in Pointer
    BY <1>2, PrefixOfJoin
  <2>2. a \in Pointer /\ IsPrefix(a, r) /\ a # r
    BY <2>1, AncestorsArePrefixes
  <2>3. r = a \o Beyond(a, r) /\ Beyond(a, r) \in Pointer
    BY <2>1, <2>2, BeyondPrefix
  <2>4. p \o a \in Pointer /\ (p \o a) \o Beyond(a, r) = p \o r
    <3>1. (p \o a) \o Beyond(a, r) = p \o (a \o Beyond(a, r))
      BY <2>2, <2>3, JoinedPointers
    <3> QED  BY <2>2, <2>3, <3>1, PrefixOfJoin
  <2>5. IsPrefix(p \o a, p \o r)
    BY <2>3, <2>4, PrefixOfJoin
  <2>6. p \o a # p \o r
    <3>1. Beyond(p, p \o a) = a /\ Beyond(p, p \o r) = r
      BY <2>1, <2>2, PrefixOfJoin
    <3> QED  BY <2>2, <3>1
  <2>7. p \o a \in Ancestors(p \o r)
    BY <2>1, <2>4, <2>5, <2>6, AncestorsArePrefixes
  <2>8. p \o a \in DOMAIN v
    BY <2>1, <2>7 DEF IsValue, IsTree
  <2> QED  BY <1>2, <2>2, <2>7, <2>8
<1>4. IsTree(w)
  BY <1>2, <1>3 DEF IsTree, Rooted, Pointer
<1>5. ASSUME NEW r \in DOMAIN w
      PROVE  /\ \A a \in Ancestors(r) : w[a].kind = "object"
             /\ w[r].kind = "array" => IsList(w[r].items)
             /\ w[r].kind = "number" => w[r].value \in Int
  <2>1. p \o r \in DOMAIN v /\ w[r] = v[p \o r]
    BY <1>2
  <2>2. \A a \in Ancestors(r) : w[a] = v[p \o a] /\ p \o a \in Ancestors(p \o r)
    BY <1>2, <1>3
  <2> QED  BY <2>1, <2>2 DEF IsValue
<1> HIDE DEF w
<1>6. IsValue(w)
  BY <1>4, <1>5 DEF IsValue
<1> QED  BY <1>6 DEF w

LayersOf(layers) == IsList(layers) /\ \A i \in DOMAIN layers : IsValue(layers[i])

LEMMA ListsAreNumbered ==
  ASSUME NEW s, IsList(s)
  PROVE  Len(s) \in Nat /\ DOMAIN s = 1..Len(s)
  BY LenProperties DEF IsList

LEMMA SourcesOfSetting ==
  ASSUME NEW schema, IsSchema(schema), NEW layers, LayersOf(layers), NEW p \in DOMAIN schema
  PROVE  LET values == Sources(schema, layers, p)
         IN /\ p \in Pointer /\ Len(p) \in Nat /\ Len(layers) \in Nat
            /\ DOMAIN values = 1..(Len(p) + 1 + Len(layers))
            /\ \A n \in 1..(Len(p) + 1) : values[n] =
                 At(schema[SubSeq(p, 1, Len(p) + 1 - n)].default, SubSeq(p, Len(p) + 2 - n, Len(p)))
            /\ \A i \in 1..Len(layers) : values[Len(p) + 1 + i] = At(layers[i], p)
            /\ \A n \in DOMAIN values : IsValue(values[n])
<1> DEFINE K == Len(p) + 1
           N == Len(layers)
           Inner(n) == At(schema[SubSeq(p, 1, K - n)].default, SubSeq(p, K + 1 - n, Len(p)))
           Given(i) == At(layers[i], p)
           s == [n \in 1..K |-> Inner(n)]
           t == [i \in DOMAIN layers |-> Given(i)]
           values == Sources(schema, layers, p)
<1>1. p \in Pointer /\ Len(p) \in Nat
  BY LenProperties DEF IsSchema, IsTree, Pointer
<1>2. N \in Nat /\ DOMAIN layers = 1..N
  BY ListsAreNumbered DEF LayersOf
<1>3. values = s \o t
  BY <1>1 DEF Sources
<1>4. \A n \in 1..K : IsValue(Inner(n))
  <2> TAKE n \in 1..K
  <2>1. \A i \in 1..Len(p) : p[i] \in STRING
    BY <1>1, ElementOfSeq DEF Pointer
  <2>2. SubSeq(p, K + 1 - n, Len(p)) \in Pointer
    <3>1. \A i \in (K + 1 - n)..Len(p) : p[i] \in STRING
      BY <1>1, <2>1
    <3> QED  BY <1>1, <3>1, SubSeqProperties DEF Pointer
  <2>3. SubSeq(p, 1, K - n) \in DOMAIN schema
    <3>1. CASE n = 1
      <4>1. K - n = Len(p)
        BY <1>1, <3>1
      <4> QED  BY <1>1, <4>1, SubSeqFull DEF Pointer
    <3>2. CASE n # 1
      <4>1. K - n \in 0..(Len(p) - 1)
        BY <1>1, <3>2
      <4> QED  BY <4>1 DEF Ancestors, IsSchema, IsTree
    <3> QED  BY <3>1, <3>2
  <2>4. IsValue(schema[SubSeq(p, 1, K - n)].default)
    BY <2>3 DEF IsSchema
  <2> QED  BY <2>2, <2>4, AtIsValue
<1>5. \A i \in 1..N : IsValue(Given(i))
  BY <1>1, <1>2, AtIsValue DEF LayersOf
<1> DEFINE V == {Inner(n) : n \in 1..K} \cup {Given(i) : i \in 1..N}
<1>6. s \in Seq(V) /\ t \in Seq(V) /\ Len(s) = K /\ Len(t) = N
  BY <1>1, <1>2
<1>7. (\A n \in 1..K : s[n] = Inner(n)) /\ (\A i \in 1..N : t[i] = Given(i))
  BY <1>2
<1> HIDE DEF s, t, V, Inner, Given
<1>k. K \in Nat /\ K = Len(p) + 1
  BY <1>1
<1> HIDE DEF K, N
<1>8. /\ s \o t \in Seq(V) /\ Len(s \o t) = K + N
      /\ \A i \in 1..(K + N) : (s \o t)[i] = IF i <= K THEN s[i] ELSE t[i - K]
  <2>1. /\ s \o t \in Seq(V) /\ Len(s \o t) = Len(s) + Len(t)
        /\ \A i \in 1..Len(s) + Len(t) : (s \o t)[i] = IF i <= Len(s) THEN s[i] ELSE t[i - Len(s)]
    BY <1>6, ConcatProperties
  <2> QED  BY <1>6, <2>1
<1>9. DOMAIN (s \o t) = 1..(K + N)
  BY <1>8, LenProperties
<1>10. \A n \in 1..K : values[n] = Inner(n)
  <2> TAKE n \in 1..K
  <2>1. n \in 1..(K + N) /\ n <= K
    BY <1>k, <1>2
  <2> QED  BY <1>3, <1>7, <1>8, <2>1
<1>11. \A i \in 1..N : values[K + i] = Given(i)
  <2> TAKE i \in 1..N
  <2> DEFINE k == K + i
  <2>1. k \in 1..(K + N) /\ ~(k <= K) /\ k - K = i
    BY <1>k, <1>2
  <2> HIDE DEF k
  <2>2. (s \o t)[k] = IF k <= K THEN s[k] ELSE t[k - K]
    BY <1>8, <2>1, Zenon
  <2>3. (s \o t)[k] = t[i]
    BY <2>1, <2>2
  <2>4. t[i] = Given(i)
    BY <1>7
  <2> QED  BY <1>3, <2>3, <2>4 DEF k
<1>12. \A n \in 1..(K + N) : IsValue(values[n])
  <2> TAKE n \in 1..(K + N)
  <2>1. CASE n \in 1..K
    BY <1>4, <1>10, <2>1
  <2>2. CASE n \notin 1..K
    <3>1. n - K \in 1..N /\ K + (n - K) = n
      BY <1>k, <1>2, <2>2
    <3> QED  BY <1>5, <1>11, <3>1
  <2> QED  BY <2>1, <2>2
<1>13. DOMAIN values = 1..(K + N)
  BY <1>3, <1>9
<1>14. \A n \in 1..K : values[n] =
         At(schema[SubSeq(p, 1, K - n)].default, SubSeq(p, K + 1 - n, Len(p)))
  BY <1>10 DEF Inner
<1>15. \A i \in 1..N : values[K + i] = At(layers[i], p)
  BY <1>11 DEF Given
<1> HIDE DEF values
<1>16. \A n \in 1..(Len(p) + 1) : K - n = Len(p) + 1 - n /\ K + 1 - n = Len(p) + 2 - n
  BY <1>1, <1>k
<1>17. \A n \in 1..(Len(p) + 1) : values[n] =
         At(schema[SubSeq(p, 1, Len(p) + 1 - n)].default, SubSeq(p, Len(p) + 2 - n, Len(p)))
  BY <1>14, <1>16, <1>k
<1> QED  BY <1>1, <1>2, <1>12, <1>13, <1>15, <1>17, <1>k DEF values, N

(* What the defaults around a setting say of it: the outermost that does.   *)
Said(schema, a, p) == At(schema[a].default, Beyond(a, p))
DefaultOf(schema, p) ==
  LET saying == {a \in Around(p) : Said(schema, a, p) # Absent}
  IN IF saying = {} THEN Absent ELSE Said(schema, Shortest(saying), p)

(* The sources begin with the defaults around, the innermost first.         *)
LEMMA SourcesAround ==
  ASSUME NEW schema, IsSchema(schema), NEW layers, LayersOf(layers), NEW p \in DOMAIN schema
  PROVE  LET values == Sources(schema, layers, p)
             K == Len(p) + 1
         IN /\ \A a \in Around(p) : /\ Len(a) \in Nat /\ K - Len(a) \in 1..K
                                    /\ a = SubSeq(p, 1, Len(a))
                                    /\ values[K - Len(a)] = Said(schema, a, p)
            /\ \A n \in 1..K : \E a \in Around(p) : Len(a) = K - n /\ values[n] = Said(schema, a, p)
<1> DEFINE values == Sources(schema, layers, p)
           K == Len(p) + 1
<1>1. p \in Pointer /\ Len(p) \in Nat
  BY SourcesOfSetting
<1>2. \A n \in 1..(Len(p) + 1) : values[n] =
        At(schema[SubSeq(p, 1, Len(p) + 1 - n)].default, SubSeq(p, Len(p) + 2 - n, Len(p)))
  BY SourcesOfSetting
<1> HIDE DEF values
<1>3. ASSUME NEW n \in 1..K
      PROVE  LET a == SubSeq(p, 1, K - n)
             IN a \in Around(p) /\ Len(a) = K - n /\ values[n] = Said(schema, a, p)
  <2> DEFINE a == SubSeq(p, 1, K - n)
  <2>1. K - n \in 0..Len(p)
    BY <1>1
  <2>2. a \in Around(p) /\ Len(a) = K - n
    BY <1>1, <2>1, AroundIs
  <2>3. Beyond(a, p) = SubSeq(p, Len(p) + 2 - n, Len(p))
    <3>1. Len(a) + 1 = Len(p) + 2 - n
      BY <1>1, <2>2
    <3> QED  BY <3>1 DEF Beyond
  <2>4. values[n] = At(schema[a].default, SubSeq(p, Len(p) + 2 - n, Len(p)))
    BY <1>2
  <2> QED  BY <2>2, <2>3, <2>4 DEF Said
<1>4. ASSUME NEW a \in Around(p)
      PROVE  /\ Len(a) \in Nat /\ K - Len(a) \in 1..K /\ a = SubSeq(p, 1, Len(a))
             /\ values[K - Len(a)] = Said(schema, a, p)
  <2>1. Len(a) \in 0..Len(p) /\ a = SubSeq(p, 1, Len(a))
    BY <1>1, AroundIs
  <2> DEFINE n == K - Len(a)
  <2>2. n \in 1..K /\ K - n = Len(a)
    BY <1>1, <2>1
  <2> HIDE DEF n
  <2>3. values[n] = Said(schema, a, p)
    BY <1>3, <2>1, <2>2
  <2> QED  BY <2>1, <2>2, <2>3 DEF n
<1>5. \A n \in 1..K : \E a \in Around(p) : Len(a) = K - n /\ values[n] = Said(schema, a, p)
  BY <1>3
<1> QED  BY <1>4, <1>5 DEF values

(* What a setting has of the layers: the highest that has a value there,    *)
(* and none of them, what there is by default.                              *)
LEMMA LatestSource ==
  ASSUME NEW schema, IsSchema(schema), NEW layers, LayersOf(layers), NEW p \in DOMAIN schema
  PROVE  LET C == Candidates(layers, p)
         IN /\ C \subseteq 1..Len(layers)
            /\ C # {} => Max(C) \in C
            /\ Latest(Sources(schema, layers, p)) =
                 IF C # {} THEN At(layers[Max(C)], p) ELSE DefaultOf(schema, p)
<1> DEFINE values == Sources(schema, layers, p)
           C == Candidates(layers, p)
           K == Len(p) + 1
           N == Len(layers)
           present == {i \in DOMAIN values : values[i] # Absent}
<1>1. K \in Nat /\ K >= 1 /\ N \in Nat /\ DOMAIN values = 1..(K + N)
  BY SourcesOfSetting
<1>2. \A i \in 1..N : values[K + i] = At(layers[i], p)
  BY SourcesOfSetting
<1>3. /\ \A a \in Around(p) : /\ Len(a) \in Nat /\ K - Len(a) \in 1..K
                              /\ a = SubSeq(p, 1, Len(a))
                              /\ values[K - Len(a)] = Said(schema, a, p)
      /\ \A n \in 1..K : \E a \in Around(p) : Len(a) = K - n /\ values[n] = Said(schema, a, p)
  BY SourcesAround
<1>4. C = {i \in 1..N : At(layers[i], p) # Absent}
  BY ListsAreNumbered DEF Candidates, LayersOf
<1>5. Latest(values) = IF present = {} THEN Absent ELSE values[Max(present)]
  BY DEF Latest
<1>p. p \in Pointer
  BY SourcesOfSetting
<1> HIDE DEF values, C, K, N
<1>6. present \in SUBSET (1..(K + N)) /\ C \in SUBSET (1..N)
  BY <1>1, <1>4
<1>7. present # {} => Max(present) \in present /\ \A m \in present : m <= Max(present)
  <2>1. K + N \in Nat
    BY <1>1
  <2> HIDE DEF present
  <2> QED  BY <1>6, <2>1, GreatestOf
<1>8. C # {} => Max(C) \in C /\ \A m \in C : m <= Max(C)
  BY <1>1, <1>6, GreatestOf
<1>9. CASE C # {}
  <2> DEFINE c == Max(C)
  <2>1. c \in 1..N /\ At(layers[c], p) # Absent /\ \A m \in C : m <= c
    BY <1>4, <1>8, <1>9
  <2> HIDE DEF c
  <2>2. K + c \in present /\ values[K + c] = At(layers[c], p)
    BY <1>1, <1>2, <2>1
  <2>3. \A m \in present : m <= K + c
    <3> TAKE m \in present
    <3>1. CASE m <= K
      BY <1>1, <1>6, <2>1, <3>1
    <3>2. CASE ~(m <= K)
      <4>1. m - K \in 1..N /\ K + (m - K) = m
        BY <1>1, <1>6, <3>2
      <4>2. m - K \in C
        BY <1>2, <1>4, <4>1
      <4> QED  BY <1>1, <2>1, <4>1, <4>2
    <3> QED  BY <3>1, <3>2
  <2>4. Max(present) = K + c
    <3>1. /\ Max(present) \in present /\ K + c <= Max(present) /\ Max(present) <= K + c
      BY <1>7, <2>2, <2>3
    <3>2. Max(present) \in Int /\ K + c \in Int
      BY <1>1, <1>6, <2>1, <3>1
    <3> HIDE DEF present
    <3> QED  BY <3>1, <3>2
  <2>5. Latest(values) = At(layers[c], p)
    BY <1>5, <2>2, <2>4
  <2> QED  BY <1>6, <1>8, <1>9, <2>5 DEF c, values, C, N
<1>10. CASE C = {}
  <2> DEFINE saying == {a \in Around(p) : Said(schema, a, p) # Absent}
  <2>1. \A m \in present : m \in 1..K
    <3> TAKE m \in present
    <3>1. ~(m > K)
      <4> SUFFICES ASSUME m > K
                   PROVE  FALSE
        OBVIOUS
      <4>1. m - K \in 1..N /\ K + (m - K) = m
        BY <1>1, <1>6
      <4> QED  BY <1>2, <1>4, <1>10, <4>1
    <3> QED  BY <1>1, <1>6, <3>1
  <2>2. \A a \in saying : K - Len(a) \in present
    <3> TAKE a \in saying
    <3>1. K - Len(a) \in 1..K /\ values[K - Len(a)] # Absent
      BY <1>3
    <3>2. K - Len(a) \in 1..(K + N)
      BY <1>1, <3>1
    <3> QED  BY <1>1, <3>1, <3>2
  <2>3. CASE present = {}
    <3>1. saying = {}
      BY <2>2, <2>3
    <3>2. DefaultOf(schema, p) = Absent
      BY <3>1 DEF DefaultOf
    <3>3. Latest(values) = Absent
      BY <1>5, <2>3
    <3> QED  BY <1>6, <1>10, <3>2, <3>3 DEF values, C, N
  <2>4. CASE present # {}
    <3> DEFINE m == Max(present)
    <3>1. m \in present /\ \A k \in present : k <= m
      BY <1>7, <2>4
    <3>2. m \in 1..K /\ values[m] # Absent /\ Latest(values) = values[m]
      BY <1>5, <2>1, <2>4, <3>1
    <3> HIDE DEF m
    <3>3. PICK a \in Around(p) : Len(a) = K - m /\ values[m] = Said(schema, a, p)
      BY <1>3, <3>2
    <3>4. a \in saying
      BY <3>2, <3>3
    <3> HIDE DEF saying
    <3>5. saying \in SUBSET Around(p) /\ saying # {}
      BY <3>4 DEF saying
    <3> DEFINE t == Shortest(saying)
    <3>6. t \in saying /\ \A u \in saying : Len(t) <= Len(u)
      BY <1>p, <3>5, ShortestIs
    <3> HIDE DEF t
    <3>7. Len(t) <= Len(a) /\ K - Len(t) <= m /\ t \in Around(p)
      BY <2>2, <3>1, <3>4, <3>5, <3>6
    <3>8. Len(t) \in Nat /\ Len(a) \in Nat
      BY <1>3, <3>7
    <3>9. Len(t) = Len(a)
      BY <1>1, <3>2, <3>3, <3>7, <3>8
    <3>10. t = a
      <4>1. t = SubSeq(p, 1, Len(t)) /\ a = SubSeq(p, 1, Len(a))
        BY <1>3, <3>7
      <4> QED  BY <3>9, <4>1
    <3>11. DefaultOf(schema, p) = Said(schema, a, p)
      BY <3>5, <3>10 DEF DefaultOf, saying, t
    <3> QED  BY <1>6, <1>10, <3>2, <3>3, <3>11 DEF values, C, N
  <2> QED  BY <2>3, <2>4
<1> QED  BY <1>9, <1>10

-----------------------------------------------------------------------------
(* What is merged                                                           *)

Settings(schema) == Reached(schema) \ Merging(schema)
MergedAt(schema, layers, p) == Decided(schema[p], Sources(schema, layers, p))

(* A value, node by node.                                                   *)
NodeIsSound(v, q) ==
  /\ v[q].kind = "array" => IsList(v[q].items)
  /\ v[q].kind = "number" => v[q].value \in Int

LEMMA ValueByNodes ==
  ASSUME NEW v
  PROVE  IsValue(v) <=> /\ Rooted(v)
                        /\ \A q \in DOMAIN v : /\ NodeIsSound(v, q)
                                               /\ \A a \in Ancestors(q) :
                                                    a \in DOMAIN v /\ v[a].kind = "object"
  BY DEF IsValue, IsTree, Rooted, NodeIsSound, Pointer

LEMMA AbsentIsValue == IsValue(Absent)
  BY AbsentIsRooted, ValueByNodes

LEMMA ArrayIsValue ==
  ASSUME NEW items, IsList(items)
  PROVE  IsValue(Array(items))
<1> DEFINE v == Array(items)
<1>1. DOMAIN v = {<<>>} /\ v = [q \in DOMAIN v |-> v[q]] /\ v[<<>>].kind = "array" /\ v[<<>>].items = items
  BY DEF Array, Leaf
<1> HIDE DEF v
<1>2. Rooted(v)
  BY <1>1, EmptyPointer DEF Rooted
<1>3. NodeIsSound(v, <<>>)
  BY <1>1 DEF NodeIsSound
<1>4. IsValue(v)
  BY <1>1, <1>2, <1>3, EmptyPointer, ValueByNodes
<1> QED  BY <1>4 DEF v

LEMMA NumberIsValue ==
  ASSUME NEW n \in Int
  PROVE  IsValue(Number(n)) /\ KindOf(Number(n)) = "number" /\ Node(Number(n)).value = n
<1> DEFINE v == Number(n)
<1>1. DOMAIN v = {<<>>} /\ v = [q \in DOMAIN v |-> v[q]] /\ v[<<>>].kind = "number" /\ v[<<>>].value = n
  BY DEF Number, Leaf
<1> HIDE DEF v
<1>2. Rooted(v)
  BY <1>1, EmptyPointer DEF Rooted
<1>3. NodeIsSound(v, <<>>)
  BY <1>1 DEF NodeIsSound
<1>4. IsValue(v)
  BY <1>1, <1>2, <1>3, EmptyPointer, ValueByNodes
<1>5. v # Absent
  BY <1>1, AbsentIsRooted
<1>6. KindOf(v) = "number" /\ Node(v).value = n
  BY <1>1, <1>5 DEF KindOf, Node
<1> QED  BY <1>4, <1>6 DEF v

LEMMA DecidedIsValue ==
  ASSUME NEW schema, IsSchema(schema), NEW layers, LayersOf(layers), NEW p \in DOMAIN schema
  PROVE  IsValue(MergedAt(schema, layers, p))
<1> DEFINE values == Sources(schema, layers, p)
           n == Len(p) + 1 + Len(layers)
           present == {i \in DOMAIN values : values[i] # Absent}
<1>1. n \in Nat /\ DOMAIN values = 1..n /\ \A i \in DOMAIN values : IsValue(values[i])
  BY SourcesOfSetting
<1> HIDE DEF values, n
<1>2. IsValue(Latest(values))
  <2>1. present \in SUBSET (1..n)
    BY <1>1
  <2>2. CASE present = {}
    <3>1. Latest(values) = Absent
      BY <2>2 DEF Latest
    <3> QED  BY <3>1, AbsentIsValue
  <2>3. CASE present # {}
    <3>1. Latest(values) = values[Max(present)]
      BY <2>3 DEF Latest
    <3> HIDE DEF present
    <3>2. Max(present) \in present
      BY <1>1, <2>1, <2>3, GreatestOf
    <3> QED  BY <1>1, <2>1, <3>1, <3>2
  <2> QED  BY <2>2, <2>3
<1>3. Items(values) \in Seq(ToSet(Items(values)))
  BY <1>1, ItemsMembers
<1>4. IsValue(Array(Items(values)))
  BY <1>3, ArrayIsValue DEF IsList
<1>5. IsValue(Array(Distinct(Items(values))))
  <2>1. Distinct(Items(values)) \in Seq(ToSet(Distinct(Items(values))))
    BY <1>3, DistinctMembers
  <2> QED  BY <2>1, ArrayIsValue DEF IsList
<1>6. IsValue(Decided(schema[p], values))
  BY <1>2, <1>4, <1>5 DEF Decided
<1> QED  BY <1>6 DEF values, MergedAt

LEMMA DecidedIsRooted ==
  ASSUME NEW schema, IsSchema(schema), NEW layers, LayersOf(layers), NEW p \in DOMAIN schema
  PROVE  Rooted(MergedAt(schema, layers, p))
  BY DecidedIsValue, ValueByNodes

(* No setting is inside another, and no object that merges is inside one.   *)
LEMMA SettingsApart ==
  ASSUME NEW schema, IsSchema(schema), NEW p \in Settings(schema), NEW q \in Reached(schema),
         IsPrefix(p, q)
  PROVE  q = p
<1>1. p \in Pointer /\ q \in Pointer
  BY DEF Settings, Reached, IsSchema, IsTree, Pointer
<1>2. p = q \/ p \in Ancestors(q)
  BY <1>1, AncestorsArePrefixes
<1> QED  BY <1>2 DEF Settings, Reached

LEMMA OneSettingAround ==
  ASSUME NEW schema, IsSchema(schema), NEW p \in Settings(schema), NEW t \in Settings(schema),
         NEW q \in Pointer, IsPrefix(p, q), IsPrefix(t, q)
  PROVE  p = t
<1>1. p \in Pointer /\ t \in Pointer
  BY DEF Settings, Reached, IsSchema, IsTree, Pointer
<1>2. IsPrefix(p, t) \/ IsPrefix(t, p)
  BY <1>1, PrefixesOverlap DEF Overlapping
<1>3. p \in Reached(schema) /\ t \in Reached(schema)
  BY DEF Settings
<1> QED  BY <1>2, <1>3, SettingsApart

LEMMA MergedPointers ==
  ASSUME NEW schema, IsSchema(schema), NEW layers, LayersOf(layers)
  PROVE  LET merge == Merge(schema, layers)
         IN /\ Rooted(merge)
            /\ \A q \in Pointer : q \in DOMAIN merge <=>
                 \/ q \in Reached(schema) \cap Merging(schema)
                 \/ \E p \in Settings(schema) :
                      IsPrefix(p, q) /\ Beyond(p, q) \in DOMAIN MergedAt(schema, layers, p)
            /\ \A q \in DOMAIN merge, p \in Settings(schema) :
                 IsPrefix(p, q) => merge[q] = MergedAt(schema, layers, p)[Beyond(p, q)]
<1> DEFINE objects == Reached(schema) \cap Merging(schema)
           settings == Reached(schema) \ objects
           decided == [p \in settings |-> Decided(schema[p], Sources(schema, layers, p))]
           around(q) == CHOOSE p \in settings : IsPrefix(p, q)
           D == objects \cup UNION {{p \o r : r \in DOMAIN decided[p]} : p \in settings}
           merge == Merge(schema, layers)
           W(q) == IF q \in objects THEN [kind |-> "object"] ELSE decided[around(q)][Beyond(around(q), q)]
<1>1. settings = Settings(schema)
  BY DEF Settings
<1>2. merge = [q \in D |-> W(q)]
  BY DEF Merge
<1>3. \A p \in settings : p \in Pointer /\ p \in Reached(schema)
  BY DEF Reached, IsSchema, IsTree, Pointer
<1>4. \A p \in settings : decided[p] = MergedAt(schema, layers, p) /\ Rooted(decided[p])
  <2> TAKE p \in settings
  <2>1. p \in DOMAIN schema
    BY DEF Reached
  <2>2. decided[p] = MergedAt(schema, layers, p)
    BY DEF MergedAt
  <2> QED  BY <2>1, <2>2, DecidedIsRooted
<1> HIDE DEF decided
<1>5. ASSUME NEW q \in Pointer
      PROVE  q \in D <=>
               \/ q \in objects
               \/ \E p \in settings : IsPrefix(p, q) /\ Beyond(p, q) \in DOMAIN decided[p]
  <2>1. ASSUME NEW p \in settings
        PROVE  (\E r \in DOMAIN decided[p] : q = p \o r)
                 <=> IsPrefix(p, q) /\ Beyond(p, q) \in DOMAIN decided[p]
    <3>1. ASSUME NEW r \in DOMAIN decided[p], q = p \o r
          PROVE  IsPrefix(p, q) /\ Beyond(p, q) \in DOMAIN decided[p]
      <4>1. p \in Pointer /\ r \in Pointer
        BY <1>3, <1>4 DEF Rooted
      <4> QED  BY <3>1, <4>1, PrefixOfJoin
    <3>2. ASSUME IsPrefix(p, q), Beyond(p, q) \in DOMAIN decided[p]
          PROVE  q = p \o Beyond(p, q)
      BY <1>3, <3>2, BeyondPrefix
    <3> QED  BY <3>1, <3>2
  <2> HIDE DEF settings, objects
  <2>2. q \in D <=> q \in objects \/ \E p \in settings : \E r \in DOMAIN decided[p] : q = p \o r
    OBVIOUS
  <2> QED  BY <2>1, <2>2
<1>6. D \subseteq Pointer
  <2>1. objects \subseteq Pointer
    BY DEF Reached, IsSchema, IsTree, Pointer
  <2>2. ASSUME NEW p \in settings, NEW r \in DOMAIN decided[p]
        PROVE  p \o r \in Pointer
    BY <1>3, <1>4, PrefixOfJoin DEF Rooted
  <2> HIDE DEF settings, objects
  <2>3. \A q \in D : q \in objects \/ \E p \in settings : \E r \in DOMAIN decided[p] : q = p \o r
    OBVIOUS
  <2> HIDE DEF D
  <2> QED  BY <2>1, <2>2, <2>3
<1>7. ASSUME NEW q \in D, NEW p \in settings, IsPrefix(p, q)
      PROVE  q \notin objects /\ around(q) = p
  <2>1. q \notin objects
    BY <1>1, <1>7, SettingsApart
  <2>2. \A t \in settings : IsPrefix(t, q) => t = p
    BY <1>1, <1>6, <1>7, OneSettingAround
  <2> HIDE DEF settings, objects
  <2> QED  BY <1>7, <2>1, <2>2
<1> HIDE DEF D
<1>8. DOMAIN merge = D /\ merge = [q \in DOMAIN merge |-> merge[q]]
  BY <1>2
<1>9. ASSUME NEW q \in D, NEW p \in settings, IsPrefix(p, q)
      PROVE  merge[q] = decided[p][Beyond(p, q)]
  <2>1. merge[q] = W(q)
    BY <1>2
  <2> HIDE DEF merge, settings, objects, around
  <2>2. q \notin objects /\ around(q) = p
    BY <1>7, <1>9
  <2> QED  BY <2>1, <2>2
<1> HIDE DEF merge, settings, around
<1>10. Rooted(merge)
  BY <1>6, <1>8 DEF Rooted
<1>11. \A q \in Pointer : q \in DOMAIN merge <=>
         \/ q \in objects
         \/ \E p \in settings :
              IsPrefix(p, q) /\ Beyond(p, q) \in DOMAIN MergedAt(schema, layers, p)
  BY <1>4, <1>5, <1>8
<1>12. \A q \in DOMAIN merge, p \in settings :
         IsPrefix(p, q) => merge[q] = MergedAt(schema, layers, p)[Beyond(p, q)]
  BY <1>4, <1>8, <1>9
<1> QED  BY <1>1, <1>10, <1>11, <1>12 DEF merge

(* A setting has what its own rule decides.                                 *)
LEMMA MergedSetting ==
  ASSUME NEW schema, IsSchema(schema), NEW layers, LayersOf(layers), NEW p \in Settings(schema)
  PROVE  At(Merge(schema, layers), p) = MergedAt(schema, layers, p)
<1> DEFINE merge == Merge(schema, layers)
           value == MergedAt(schema, layers, p)
<1>1. p \in Pointer /\ p \in DOMAIN schema
  BY DEF Settings, Reached, IsSchema, IsTree, Pointer
<1>2. Rooted(value)
  BY <1>1, DecidedIsRooted
<1>3. /\ Rooted(merge)
      /\ \A q \in Pointer : q \in DOMAIN merge <=>
           \/ q \in Reached(schema) \cap Merging(schema)
           \/ \E t \in Settings(schema) :
                IsPrefix(t, q) /\ Beyond(t, q) \in DOMAIN MergedAt(schema, layers, t)
      /\ \A q \in DOMAIN merge, t \in Settings(schema) :
           IsPrefix(t, q) => merge[q] = MergedAt(schema, layers, t)[Beyond(t, q)]
  BY MergedPointers
<1> HIDE DEF merge
<1>4. DOMAIN merge \subseteq Pointer
  BY <1>3 DEF Rooted
<1>5. ASSUME NEW r \in Pointer
      PROVE  /\ p \o r \in DOMAIN merge <=> r \in DOMAIN value
             /\ p \o r \in DOMAIN merge => merge[p \o r] = value[r]
  <2>1. p \o r \in Pointer /\ IsPrefix(p, p \o r) /\ Beyond(p, p \o r) = r
    BY <1>1, PrefixOfJoin
  <2>2. p \o r \notin Reached(schema) \cap Merging(schema)
    BY <2>1, SettingsApart DEF Settings
  <2>3. \A t \in Settings(schema) : IsPrefix(t, p \o r) => t = p
    BY <2>1, OneSettingAround
  <2> QED  BY <1>3, <2>1, <2>2, <2>3
<1>6. /\ Rooted(At(merge, p))
      /\ \A r \in Pointer : r \in DOMAIN At(merge, p) <=> p \o r \in DOMAIN merge
      /\ \A r \in DOMAIN At(merge, p) : r \in Pointer /\ At(merge, p)[r] = merge[p \o r]
  BY <1>1, <1>4, AtBelow
<1> HIDE DEF value
<1>7. DOMAIN At(merge, p) = DOMAIN value
  <2>1. \A r \in Pointer : r \in DOMAIN At(merge, p) <=> r \in DOMAIN value
    BY <1>5, <1>6
  <2>2. DOMAIN value \subseteq Pointer
    BY <1>2 DEF Rooted
  <2> QED  BY <1>6, <2>1, <2>2
<1>8. \A r \in DOMAIN value : At(merge, p)[r] = value[r]
  <2> TAKE r \in DOMAIN value
  <2>1. r \in Pointer /\ At(merge, p)[r] = merge[p \o r]
    BY <1>6, <1>7
  <2> QED  BY <1>5, <2>1
<1>9. /\ At(merge, p) = [r \in DOMAIN value |-> At(merge, p)[r]]
      /\ value = [r \in DOMAIN value |-> value[r]]
  BY <1>2, <1>6, <1>7 DEF Rooted
<1>10. At(merge, p) = value
  BY <1>8, <1>9
<1> QED  BY <1>10 DEF merge, value

-----------------------------------------------------------------------------
(* What the trace says                                                      *)

LEMMA NothingInAbsent == ToSet(ItemsOf(Absent)) = {}
<1>1. ItemsOf(Absent) = <<>>
  BY DEF ItemsOf, KindOf
<1> QED  BY <1>1 DEF ToSet

LEMMA ItemsOfOne ==
  ASSUME NEW v, IsValue(v)
  PROVE  ToSet(Items(<<v>>)) = ToSet(ItemsOf(v))
<1>1. DOMAIN <<v>> = 1..1 /\ 1..1 = {1} /\ <<v>>[1] = v
  OBVIOUS
<1>2. ToSet(Items(<<v>>)) = UNION {ToSet(ItemsOf(<<v>>[i])) : i \in 1..1}
  <2>1. \A i \in 1..1 : IsValue(<<v>>[i])
    BY <1>1
  <2> DEFINE values == <<v>>
  <2>2. DOMAIN values = 1..1 /\ \A i \in 1..1 : IsValue(values[i])
    BY <1>1, <2>1
  <2> HIDE DEF values
  <2>3. ToSet(Items(values)) = UNION {ToSet(ItemsOf(values[i])) : i \in 1..1}
    BY <2>2, ItemsMembers
  <2> QED  BY <2>3 DEF values
<1>3. UNION {ToSet(ItemsOf(<<v>>[i])) : i \in {1}} = ToSet(ItemsOf(<<v>>[1]))
  OBVIOUS
<1> QED  BY <1>1, <1>2, <1>3

(* What an array that accumulates holds: what the defaults around it and    *)
(* the candidates do.                                                      *)
LEMMA AccumulatedItems ==
  ASSUME NEW schema, IsSchema(schema), NEW layers, LayersOf(layers), NEW p \in DOMAIN schema,
         schema[p].merge \in {"append", "union"}
  PROVE  /\ IsValue(MergedAt(schema, layers, p))
         /\ ToSet(ItemsOf(MergedAt(schema, layers, p))) =
              UNION ({ToSet(ItemsOf(At(layers[i], p))) : i \in Candidates(layers, p)}
                       \cup {ToSet(ItemsOf(Said(schema, a, p))) : a \in Around(p)})
<1> DEFINE values == Sources(schema, layers, p)
           C == Candidates(layers, p)
           K == Len(p) + 1
           N == Len(layers)
           In(i) == ToSet(ItemsOf(values[i]))
           By(a) == ToSet(ItemsOf(Said(schema, a, p)))
           Of(i) == ToSet(ItemsOf(At(layers[i], p)))
<1>1. K \in Nat /\ K >= 1 /\ N \in Nat /\ DOMAIN values = 1..(K + N)
  BY SourcesOfSetting
<1>2. (\A i \in 1..N : values[K + i] = At(layers[i], p)) /\ \A n \in 1..(K + N) : IsValue(values[n])
  BY <1>1, SourcesOfSetting
<1>3. /\ \A a \in Around(p) : /\ Len(a) \in Nat /\ K - Len(a) \in 1..K
                              /\ a = SubSeq(p, 1, Len(a))
                              /\ values[K - Len(a)] = Said(schema, a, p)
      /\ \A n \in 1..K : \E a \in Around(p) : Len(a) = K - n /\ values[n] = Said(schema, a, p)
  BY SourcesAround
<1>4. C = {i \in 1..N : At(layers[i], p) # Absent}
  BY ListsAreNumbered DEF Candidates, LayersOf
<1>v. IsValue(MergedAt(schema, layers, p))
  BY DecidedIsValue
<1> HIDE DEF values, C, K, N
<1>5. /\ ToSet(Items(values)) = UNION {In(i) : i \in 1..(K + N)}
      /\ Items(values) \in Seq(ToSet(Items(values)))
  <2>1. K + N \in Nat
    BY <1>1
  <2> QED  BY <1>1, <1>2, <2>1, ItemsMembers
<1>6. ToSet(ItemsOf(MergedAt(schema, layers, p))) = ToSet(Items(values))
  <2>1. \A items : ItemsOf(Array(items)) = items
    <3> TAKE items
    <3>1. DOMAIN Array(items) = {<<>>} /\ DOMAIN Absent = {}
      BY DEF Array, Leaf, Absent
    <3>2. Array(items) # Absent
      BY <3>1
    <3>3. Node(Array(items)) = [kind |-> "array", items |-> items]
      BY DEF Node, Array, Leaf
    <3> QED  BY <3>2, <3>3 DEF ItemsOf, KindOf
  <2>2. CASE schema[p].merge = "append"
    <3>1. MergedAt(schema, layers, p) = Array(Items(values))
      BY <2>2 DEF MergedAt, Decided, values
    <3> QED  BY <2>1, <3>1
  <2>3. CASE schema[p].merge = "union"
    <3>1. MergedAt(schema, layers, p) = Array(Distinct(Items(values)))
      BY <2>3 DEF MergedAt, Decided, values
    <3>2. ToSet(Distinct(Items(values))) = ToSet(Items(values))
      BY <1>5, DistinctMembers
    <3> QED  BY <2>1, <3>1, <3>2
  <2> QED  BY <2>2, <2>3
<1>7. \A a \in Around(p) : \E n \in 1..(K + N) : In(n) = By(a)
  <2> TAKE a \in Around(p)
  <2>1. K - Len(a) \in 1..K /\ values[K - Len(a)] = Said(schema, a, p)
    BY <1>3
  <2>2. 1..K \subseteq 1..(K + N)
    BY <1>1
  <2> QED  BY <2>1, <2>2
<1>8. \A i \in C : \E n \in 1..(K + N) : In(n) = Of(i)
  <2> TAKE i \in C
  <2>1. K + i \in 1..(K + N) /\ values[K + i] = At(layers[i], p)
    BY <1>1, <1>2, <1>4
  <2> QED  BY <2>1
<1>9. ASSUME NEW n \in 1..(K + N)
      PROVE  In(n) = {} \/ (\E a \in Around(p) : In(n) = By(a)) \/ \E i \in C : In(n) = Of(i)
  <2>1. CASE n \in 1..K
    BY <1>3, <2>1
  <2>2. CASE n \notin 1..K
    <3>1. n - K \in 1..N /\ K + (n - K) = n
      BY <1>1, <2>2
    <3>2. values[n] = At(layers[n - K], p)
      BY <1>2, <3>1
    <3>3. CASE n - K \in C
      BY <3>2, <3>3
    <3>4. CASE n - K \notin C
      <4>1. values[n] = Absent
        BY <1>4, <3>1, <3>2, <3>4
      <4> QED  BY <4>1, NothingInAbsent
    <3> QED  BY <3>3, <3>4
  <2> QED  BY <2>1, <2>2
<1> DEFINE all == UNION ({Of(i) : i \in C} \cup {By(a) : a \in Around(p)})
<1> HIDE DEF In, Of, By
<1>10. \A x : x \in UNION {In(i) : i \in 1..(K + N)} => x \in all
  <2> TAKE x
  <2> HAVE x \in UNION {In(i) : i \in 1..(K + N)}
  <2>1. PICK n \in 1..(K + N) : x \in In(n)
    OBVIOUS
  <2>2. (\E a \in Around(p) : x \in By(a)) \/ \E i \in C : x \in Of(i)
    BY <1>9, <2>1
  <2> QED  BY <2>2
<1>11. \A x : x \in all => x \in UNION {In(i) : i \in 1..(K + N)}
  <2> TAKE x
  <2> HAVE x \in all
  <2>1. CASE \E a \in Around(p) : x \in By(a)
    BY <1>7, <2>1
  <2>2. CASE \E i \in C : x \in Of(i)
    <3>1. PICK i \in C : x \in Of(i)
      BY <2>2
    <3>2. PICK n \in 1..(K + N) : In(n) = Of(i)
      BY <1>8
    <3>3. x \in In(n)
      BY <3>1, <3>2
    <3> QED  BY <3>3
  <2> QED  BY <2>1, <2>2
<1>e. UNION {In(i) : i \in 1..(K + N)} = all
  <2> HIDE DEF all
  <2> QED  BY <1>10, <1>11
<1>12. ToSet(ItemsOf(MergedAt(schema, layers, p))) = all
  BY <1>5, <1>6, <1>e
<1> QED  BY <1>v, <1>12 DEF By, Of, C

(* What is under a key of an object that merges.                            *)
LEMMA MemberHasSource ==
  ASSUME NEW schema, IsSchema(schema), NEW layers, LayersOf(layers),
         NEW p \in Reached(schema) \cap Merging(schema),
         NEW q \in DOMAIN At(Merge(schema, layers), p), Len(q) = 1,
         schema[p \o q].merge = "replace"
  PROVE  \/ DefaultOf(schema, p \o q) # Absent
         \/ \E i \in Candidates(layers, p) : q \in DOMAIN At(layers[i], p)
<1> DEFINE merge == Merge(schema, layers)
           t == p \o q
<1>1. /\ Rooted(merge)
      /\ \A u \in Pointer : u \in DOMAIN merge <=>
           \/ u \in Reached(schema) \cap Merging(schema)
           \/ \E s \in Settings(schema) :
                IsPrefix(s, u) /\ Beyond(s, u) \in DOMAIN MergedAt(schema, layers, s)
  BY MergedPointers
<1> HIDE DEF merge
<1>2. p \in Pointer /\ p \in DOMAIN schema /\ DOMAIN merge \subseteq Pointer
  BY <1>1 DEF Reached, IsSchema, IsTree, Pointer, Rooted
<1>3. q \in Pointer /\ t \in Pointer /\ t \in DOMAIN merge
  <2>1. q \in DOMAIN At(merge, p)
    BY DEF merge
  <2>2. q \in Pointer
    BY <1>2, <2>1, AtBelow
  <2> QED  BY <1>2, <2>1, <2>2, AtBelow, PrefixOfJoin
<1>4. Len(p) \in Nat /\ Len(t) = Len(p) + 1
  <2>1. Len(p \o q) = Len(p) + Len(q)
    BY <1>2, <1>3, ConcatProperties DEF Pointer
  <2>2. Len(p) \in Nat
    BY <1>2, LenProperties DEF Pointer
  <2> QED  BY <2>1, <2>2
<1>5. IsPrefix(p, t) /\ p # t
  BY <1>2, <1>3, <1>4, PrefixOfJoin
<1>6. p \in Ancestors(t)
  BY <1>2, <1>3, <1>5, AncestorsArePrefixes
<1>7. schema[t].merge # "merge"
  OBVIOUS
<1>8. PICK s \in Settings(schema) :
        IsPrefix(s, t) /\ Beyond(s, t) \in DOMAIN MergedAt(schema, layers, s)
  BY <1>1, <1>3, <1>7 DEF Merging
<1>9. s \in Pointer /\ s \in Reached(schema) /\ s \notin Merging(schema) /\ s \in DOMAIN schema
  BY DEF Settings, Reached, IsSchema, IsTree, Pointer
<1>10. s = t
  <2> SUFFICES ASSUME s # t
               PROVE  FALSE
    OBVIOUS
  <2>1. s \in Ancestors(t)
    BY <1>3, <1>8, <1>9, AncestorsArePrefixes
  <2>2. Len(s) < Len(t) /\ Len(s) \in Nat
    BY <1>3, <1>9, <2>1, AncestorsArePrefixes, LenProperties DEF Pointer
  <2>3. Len(s) <= Len(p)
    BY <1>4, <2>2
  <2>4. IsPrefix(s, p)
    <3>1. \A i \in 1..Len(s) : s[i] = t[i]
      BY <1>3, <1>8, <1>9, PrefixByKeys
    <3>2. \A i \in 1..Len(p) : p[i] = t[i]
      BY <1>2, <1>3, <1>5, PrefixByKeys
    <3>3. \A i \in 1..Len(s) : i \in 1..Len(p)
      BY <1>4, <2>2, <2>3
    <3>4. \A i \in 1..Len(s) : s[i] = p[i]
      BY <3>1, <3>2, <3>3
    <3> QED  BY <1>2, <1>9, <2>3, <3>4, PrefixByKeys
  <2>5. p = s
    BY <2>4, SettingsApart
  <2> QED  BY <1>9, <2>5
<1>11. t \in DOMAIN schema
  BY <1>9, <1>10
<1> DEFINE C == Candidates(layers, t)
<1>12. MergedAt(schema, layers, t) = IF C # {} THEN At(layers[Max(C)], t) ELSE DefaultOf(schema, t)
  <2>1. Latest(Sources(schema, layers, t)) =
          IF C # {} THEN At(layers[Max(C)], t) ELSE DefaultOf(schema, t)
    BY <1>11, LatestSource
  <2>2. MergedAt(schema, layers, t) = Latest(Sources(schema, layers, t))
    BY DEF MergedAt, Decided
  <2> QED  BY <2>1, <2>2
<1>13. MergedAt(schema, layers, t) # Absent
  BY <1>8, <1>10, AbsentIsRooted
<1> SUFFICES ASSUME DefaultOf(schema, t) = Absent
             PROVE  \E i \in Candidates(layers, p) : q \in DOMAIN At(layers[i], p)
  OBVIOUS
<1>14. PICK i \in C : TRUE
  BY <1>12, <1>13
<1>15. i \in DOMAIN layers /\ IsTree(layers[i]) /\ t \in DOMAIN layers[i]
  <2>1. i \in DOMAIN layers /\ At(layers[i], t) # Absent
    BY <1>14 DEF Candidates
  <2>2. IsTree(layers[i])
    BY <2>1 DEF LayersOf, IsValue
  <2> QED  BY <1>3, <2>1, <2>2, AtPresent
<1>16. p \in DOMAIN layers[i] /\ DOMAIN layers[i] \subseteq Pointer
  BY <1>6, <1>15 DEF IsTree, Pointer
<1>17. At(layers[i], p) # Absent
  BY <1>2, <1>15, <1>16, AtPresent
<1>18. q \in DOMAIN At(layers[i], p)
  BY <1>2, <1>3, <1>15, <1>16, AtBelow
<1> QED  BY <1>15, <1>17, <1>18 DEF Candidates

(* What decides a setting is reached, and is the setting or around it.      *)
LEMMA DeciderIs ==
  ASSUME IsSchema(problem.schema), NEW p \in DOMAIN problem.schema
  PROVE  /\ p \in Pointer /\ Decider(p) \in Around(p)
         /\ Decider(p) \in Reached(problem.schema)
<1> DEFINE schema == problem.schema
           whole == {a \in Ancestors(p) : schema[a].merge # "merge"}
<1>1. p \in Pointer /\ Ancestors(p) \subseteq DOMAIN schema
  BY DEF IsSchema, IsTree, Pointer
<1>2. CASE whole = {}
  <2>1. Decider(p) = p
    BY <1>2 DEF Decider
  <2>2. Ancestors(p) \subseteq Merging(schema)
    BY <1>1, <1>2 DEF Merging
  <2> QED  BY <1>1, <2>1, <2>2 DEF Around, Reached
<1>3. CASE whole # {}
  <2> DEFINE s == Shortest(whole)
  <2>1. Decider(p) = s
    BY <1>3 DEF Decider
  <2>2. whole \in SUBSET Around(p)
    BY DEF Around
  <2> HIDE DEF whole
  <2>3. s \in whole /\ \A t \in whole : Len(s) <= Len(t)
    BY <1>1, <1>3, <2>2, ShortestIs
  <2> HIDE DEF s
  <2>4. s \in Ancestors(p) /\ s \in Around(p) /\ s \in DOMAIN schema /\ s \in Pointer
    BY <1>1, <2>2, <2>3, AncestorsArePrefixes DEF whole
  <2>5. ASSUME NEW a \in Ancestors(s)
        PROVE  a \in Merging(schema)
    <3>1. a \in Ancestors(p)
      BY <1>1, <2>4, AncestorsChain
    <3>2. Len(a) < Len(s) /\ Len(a) \in Nat /\ Len(s) \in Nat
      <4>1. Len(a) < Len(s) /\ a \in Pointer
        BY <2>4, AncestorsArePrefixes
      <4> QED  BY <2>4, <4>1, LenProperties DEF Pointer
    <3>3. ~(Len(s) <= Len(a))
      BY <3>2
    <3>4. a \notin whole
      BY <2>3, <3>3
    <3> QED  BY <1>1, <3>1, <3>4 DEF whole, Merging
  <2> QED  BY <1>1, <2>1, <2>4, <2>5 DEF Reached
<1> QED  BY <1>2, <1>3

(* Where a value came from: what is traced of its decider.                  *)
LEMMA SourceOfSetting ==
  ASSUME IsSchema(problem.schema), LayersOf(problem.layers),
         merged = Merge(problem.schema, problem.layers),
         trace = MakeTrace(problem.schema, problem.layers),
         NEW p \in DOMAIN trace
  PROVE  SourceIsTrue(p)
<1> DEFINE schema == problem.schema
           layers == problem.layers
           s == Decider(p)
           C == Candidates(layers, s)
           N == Len(layers)
           rule == schema[s]
           entry == trace[s]
           value == At(merged, s)
<1>1. p \in DOMAIN schema /\ DOMAIN trace = DOMAIN schema
  BY DEF MakeTrace
<1>2. /\ p \in Pointer /\ s \in Around(p) /\ s \in Reached(schema)
      /\ s \in Pointer /\ IsPrefix(s, p) /\ Beyond(s, p) \in Pointer /\ p = s \o Beyond(s, p)
  <2>1. p \in Pointer /\ s \in Around(p) /\ s \in Reached(schema)
    BY <1>1, DeciderIs
  <2>2. s \in Pointer /\ IsPrefix(s, p)
    BY <2>1, AroundIs
  <2> QED  BY <2>1, <2>2, BeyondPrefix
<1>3. s \in DOMAIN schema
  BY <1>2 DEF Reached
<1>t. entry = Traced(rule, C, Max(C))
  BY <1>1, <1>3 DEF MakeTrace, TraceAt
<1>4. /\ C \subseteq 1..N
      /\ C # {} => Max(C) \in C
      /\ Latest(Sources(schema, layers, s)) =
           IF C # {} THEN At(layers[Max(C)], s) ELSE DefaultOf(schema, s)
  BY <1>3, LatestSource
<1>5. N \in Nat /\ DOMAIN layers = 1..N
  BY ListsAreNumbered DEF LayersOf
<1>6. /\ entry.accepted = {i \in C : AcceptsAll(rule) \/ i = Max(C)}
      /\ entry.effectiveSource = IF C # {} THEN Max(C)
                                 ELSE IF rule.default # Absent THEN Default ELSE NoSource
  BY <1>t DEF Traced
<1>d. /\ \A a, t : Declared(a, t) = Said(schema, a, t)
      /\ \A t : ByDefault(t) = DefaultOf(schema, t)
  BY DEF Declared, Said, ByDefault, DefaultOf
<1>7. /\ ValueIn(Default, s) = DefaultOf(schema, s)
      /\ ValueIn(NoSource, s) = DefaultOf(schema, s)
      /\ \A i \in 1..N : ValueIn(i, s) = At(layers[i], s)
  BY <1>5, <1>d DEF ValueIn, Default, NoSource
<1>8. Default \notin 1..N /\ NoSource \notin 1..N
  BY <1>5 DEF Default, NoSource
<1>9. rule.merge \in {"replace", "append", "union", "merge"}
  BY <1>3 DEF IsSchema
<1>r. DOMAIN merged \subseteq Pointer
  BY MergedPointers DEF Rooted
<1> HIDE DEF s, C, N, entry, value
<1>10. CASE rule.merge = "replace"
  <2>1. s \in Settings(schema)
    BY <1>2, <1>10 DEF Settings, Merging
  <2>2. value = Latest(Sources(schema, layers, s))
    <3>1. value = MergedAt(schema, layers, s)
      BY <2>1, MergedSetting DEF value
    <3> QED  BY <1>10, <3>1 DEF MergedAt, Decided
  <2>3. entry.accepted = {i \in C : i = Max(C)}
    BY <1>6, <1>10 DEF AcceptsAll
  <2>4. value = ValueIn(entry.effectiveSource, s)
    <3>1. CASE C # {}
      <4>1. Max(C) \in 1..N /\ entry.effectiveSource = Max(C)
        BY <1>4, <1>6, <3>1
      <4> QED  BY <1>4, <1>7, <2>2, <3>1, <4>1
    <3>2. CASE C = {}
      <4>1. entry.effectiveSource \in {Default, NoSource}
        BY <1>6, <3>2
      <4> QED  BY <1>4, <1>7, <2>2, <3>2, <4>1
    <3> QED  BY <3>1, <3>2
  <2>5. entry.accepted = {entry.effectiveSource} \cap DOMAIN layers
    <3>1. CASE C # {}
      <4>1. Max(C) \in C /\ Max(C) \in 1..N /\ entry.effectiveSource = Max(C)
        BY <1>4, <1>6, <3>1
      <4> QED  BY <1>5, <2>3, <4>1
    <3>2. CASE C = {}
      BY <1>5, <1>6, <1>8, <2>3, <3>2
    <3> QED  BY <3>1, <3>2
  <2>6. At(merged, p) = At(value, Beyond(s, p))
    <3>1. At(merged, s \o Beyond(s, p)) = At(At(merged, s), Beyond(s, p))
      BY <1>2, <1>r, AtChain
    <3> QED  BY <1>2, <3>1, Zenon DEF value
  <2>7. At(merged, p) = At(ValueIn(entry.effectiveSource, s), Beyond(s, p))
    BY <2>4, <2>6, Zenon
  <2> QED  BY <1>10, <2>5, <2>7 DEF SourceIsTrue, entry, s
<1>11. CASE rule.merge \in {"append", "union"}
  <2>1. s \in Settings(schema)
    BY <1>2, <1>11 DEF Settings, Merging
  <2>2. value = MergedAt(schema, layers, s)
    BY <2>1, MergedSetting DEF value
  <2>3. entry.accepted = C
    BY <1>6, <1>11 DEF AcceptsAll
  <2> DEFINE Of(i) == ToSet(ItemsOf(At(layers[i], s)))
             By(a) == ToSet(ItemsOf(Said(schema, a, s)))
  <2>4. MembersOf(value) = UNION ({Of(i) : i \in C} \cup {By(a) : a \in Around(s)})
    <3>1. /\ IsValue(MergedAt(schema, layers, s))
          /\ ToSet(ItemsOf(MergedAt(schema, layers, s))) =
               UNION ({Of(i) : i \in C} \cup {By(a) : a \in Around(s)})
      BY <1>3, <1>11, AccumulatedItems DEF C
    <3> HIDE DEF Of, By
    <3>2. MembersOf(value) = ToSet(ItemsOf(MergedAt(schema, layers, s)))
      BY <2>2, <3>1, ItemsOfOne DEF MembersOf
    <3> QED  BY <3>1, <3>2
  <2>5. \A a \in Around(s) : MembersOf(Declared(a, s)) = By(a)
    <3> TAKE a \in Around(s)
    <3>1. a \in DOMAIN schema /\ Beyond(a, s) \in Pointer
      BY <1>2, <1>3, AroundIs DEF Around, IsSchema, IsTree
    <3>2. IsValue(Said(schema, a, s))
      BY <3>1, AtIsValue DEF Said, IsSchema
    <3> QED  BY <1>d, <3>2, ItemsOfOne DEF MembersOf
  <2>6. \A i \in C : MembersOf(ValueIn(i, s)) = Of(i)
    <3> TAKE i \in C
    <3>1. i \in 1..N
      BY <1>4
    <3>2. IsValue(At(layers[i], s))
      BY <1>2, <1>5, <3>1, AtIsValue DEF LayersOf
    <3> QED  BY <1>7, <3>1, <3>2, ItemsOfOne DEF MembersOf
  <2> HIDE DEF Of, By
  <2>7. UNION ({MembersOf(ValueIn(i, s)) : i \in C} \cup {MembersOf(Declared(a, s)) : a \in Around(s)})
          = UNION ({Of(i) : i \in C} \cup {By(a) : a \in Around(s)})
    <3>1. {MembersOf(ValueIn(i, s)) : i \in C} = {Of(i) : i \in C}
      BY <2>6
    <3>2. {MembersOf(Declared(a, s)) : a \in Around(s)} = {By(a) : a \in Around(s)}
      BY <2>5
    <3> QED  BY <3>1, <3>2
  <2>8. MembersOf(value) = UNION ({MembersOf(ValueIn(i, s)) : i \in entry.accepted}
                                    \cup {MembersOf(Declared(a, s)) : a \in Around(s)})
    BY <2>3, <2>4, <2>7
  <2>9. rule.merge # "replace"
    BY <1>11
  <2> QED  BY <1>11, <2>8, <2>9 DEF SourceIsTrue, entry, value, s
<1>12. CASE rule.merge = "merge"
  <2>1. s \in Reached(schema) \cap Merging(schema)
    BY <1>2, <1>3, <1>12 DEF Merging
  <2>2. entry.accepted = C
    BY <1>6, <1>12 DEF AcceptsAll
  <2>3. ASSUME NEW q \in DOMAIN value, Len(q) = 1, schema[s \o q].merge = "replace",
               DefaultOf(schema, s \o q) = Absent
        PROVE  \E i \in entry.accepted : q \in DOMAIN ValueIn(i, s)
    <3>1. q \in DOMAIN At(Merge(schema, layers), s)
      BY DEF value
    <3>2. PICK i \in C : q \in DOMAIN At(layers[i], s)
      BY <2>1, <2>3, <3>1, MemberHasSource DEF C
    <3>3. i \in 1..N
      BY <1>4
    <3> QED  BY <1>7, <2>2, <3>2, <3>3
  <2>4. rule.merge # "replace" /\ rule.merge \notin {"append", "union"}
    BY <1>12
  <2>5. \A q \in {q \in DOMAIN value : Len(q) = 1} :
          \/ schema[s \o q].merge # "replace"
          \/ ByDefault(s \o q) # Absent
          \/ \E i \in entry.accepted : q \in DOMAIN ValueIn(i, s)
    BY <1>d, <2>3
  <2> QED  BY <2>4, <2>5 DEF SourceIsTrue, entry, value, s
<1> QED  BY <1>9, <1>10, <1>11, <1>12

-----------------------------------------------------------------------------
(* What is merged or set is a value again                                   *)

(* Between a pointer and what it is a prefix of.                            *)
LEMMA AncestorsBeyond ==
  ASSUME NEW p \in Pointer, NEW q \in Pointer, IsPrefix(p, q),
         NEW a \in Ancestors(q), IsPrefix(p, a)
  PROVE  Beyond(p, a) \in Ancestors(Beyond(p, q))
<1>1. a \in Pointer /\ IsPrefix(a, q) /\ a # q
  BY AncestorsArePrefixes
<1> DEFINE b == Beyond(p, a)
           c == Beyond(a, q)
           r == Beyond(p, q)
<1>2. /\ b \in Pointer /\ a = p \o b
      /\ c \in Pointer /\ q = a \o c
      /\ r \in Pointer /\ q = p \o r
  BY <1>1, BeyondPrefix
<1> HIDE DEF b, c, r
<1>3. q = p \o (b \o c) /\ b \o c \in Pointer
  <2>1. (p \o b) \o c = p \o (b \o c)
    BY <1>2, JoinedPointers
  <2> QED  BY <1>2, <2>1, PrefixOfJoin
<1>4. r = b \o c
  <2>1. Beyond(p, p \o r) = r /\ Beyond(p, p \o (b \o c)) = b \o c
    BY <1>2, <1>3, PrefixOfJoin
  <2>2. p \o r = p \o (b \o c)
    BY <1>2, <1>3
  <2> QED  BY <2>1, <2>2
<1>5. IsPrefix(b, r)
  BY <1>2, <1>4, PrefixOfJoin
<1>6. b # r
  BY <1>1, <1>2
<1>7. b \in Ancestors(r)
  BY <1>2, <1>5, <1>6, AncestorsArePrefixes
<1> QED  BY <1>7 DEF b, r

LEMMA MergeIsValue ==
  ASSUME NEW schema, IsSchema(schema), NEW layers, LayersOf(layers)
  PROVE  IsValue(Merge(schema, layers))
<1> DEFINE merge == Merge(schema, layers)
           objects == Reached(schema) \cap Merging(schema)
           settings == Settings(schema)
           value(p) == MergedAt(schema, layers, p)
<1>1. /\ Rooted(merge)
      /\ \A q \in Pointer : q \in DOMAIN merge <=>
           \/ q \in objects
           \/ \E p \in settings : IsPrefix(p, q) /\ Beyond(p, q) \in DOMAIN value(p)
      /\ \A q \in DOMAIN merge, p \in settings :
           IsPrefix(p, q) => merge[q] = value(p)[Beyond(p, q)]
  BY MergedPointers
<1>2. \A q \in objects : merge[q].kind = "object" /\ q \in Pointer /\ q \in DOMAIN merge
  <2>1. \A q \in objects : q \in Pointer
    BY DEF Reached, IsSchema, IsTree, Pointer
  <2>2. \A q \in objects : q \in DOMAIN merge
    BY <1>1, <2>1
  <2>3. \A q \in objects : merge[q] = [kind |-> "object"]
    BY <2>2 DEF Merge
  <2> QED  BY <2>1, <2>2, <2>3
<1>3. \A p \in settings : p \in Pointer /\ p \in DOMAIN schema /\ IsValue(value(p))
  <2> TAKE p \in settings
  <2>1. p \in Pointer /\ p \in DOMAIN schema
    BY DEF Settings, Reached, IsSchema, IsTree, Pointer
  <2> QED  BY <2>1, DecidedIsValue
<1>4. \A p \in Reached(schema) : \A a \in Ancestors(p) : a \in objects
  <2> TAKE p \in Reached(schema)
  <2> TAKE a \in Ancestors(p)
  <2>1. p \in DOMAIN schema /\ p \in Pointer /\ a \in Merging(schema) /\ a \in DOMAIN schema
    BY DEF Reached, IsSchema, IsTree, Pointer
  <2>2. a \in Pointer /\ IsPrefix(a, p)
    BY <2>1, AncestorsArePrefixes
  <2>3. \A b \in Ancestors(a) : b \in Ancestors(p)
    BY <2>1, AncestorsChain
  <2> QED  BY <2>1, <2>3 DEF Reached
<1> HIDE DEF merge, value
<1>5. ASSUME NEW q \in DOMAIN merge
      PROVE  NodeIsSound(merge, q) /\ \A a \in Ancestors(q) : a \in DOMAIN merge /\ merge[a].kind = "object"
  <2>1. q \in Pointer
    BY <1>1 DEF Rooted
  <2>2. CASE q \in objects
    BY <1>2, <1>4, <2>2 DEF NodeIsSound
  <2>3. ASSUME NEW p \in settings, IsPrefix(p, q), Beyond(p, q) \in DOMAIN value(p)
        PROVE  NodeIsSound(merge, q) /\ \A a \in Ancestors(q) : a \in DOMAIN merge /\ merge[a].kind = "object"
    <3>1. NodeIsSound(merge, q)
      <4>1. merge[q] = value(p)[Beyond(p, q)]
        BY <1>1, <2>3
      <4>2. NodeIsSound(value(p), Beyond(p, q))
        BY <1>3, <2>3, ValueByNodes
      <4> QED  BY <4>1, <4>2 DEF NodeIsSound
    <3>2. ASSUME NEW a \in Ancestors(q)
          PROVE  a \in DOMAIN merge /\ merge[a].kind = "object"
      <4>1. a \in Pointer /\ IsPrefix(a, q) /\ p \in Pointer
        BY <1>3, <2>1, AncestorsArePrefixes
      <4>2. CASE a \in Ancestors(p)
        BY <1>2, <1>4, <4>2 DEF Settings
      <4>3. CASE IsPrefix(p, a)
        <5>1. Beyond(p, a) \in Ancestors(Beyond(p, q))
          BY <2>1, <2>3, <4>1, <4>3, AncestorsBeyond
        <5>2. Beyond(p, a) \in DOMAIN value(p) /\ value(p)[Beyond(p, a)].kind = "object"
          BY <1>3, <2>3, <5>1, ValueByNodes
        <5>3. a \in DOMAIN merge
          BY <1>1, <4>1, <4>3, <5>2
        <5>4. merge[a] = value(p)[Beyond(p, a)]
          BY <1>1, <4>3, <5>3
        <5> QED  BY <5>2, <5>3, <5>4
      <4> QED  BY <2>1, <2>3, <4>1, <4>2, <4>3, PrefixesChain
    <3> QED  BY <3>1, <3>2
  <2> QED  BY <1>1, <2>1, <2>2, <2>3
<1>6. IsValue(merge)
  BY <1>1, <1>5, ValueByNodes
<1> QED  BY <1>6 DEF merge

LEMMA SetIsValue ==
  ASSUME NEW v, IsValue(v), NEW p \in Pointer, NEW new, IsValue(new)
  PROVE  IsValue(SetAt(v, p, new))
<1> DEFINE s == SetAt(v, p, new)
<1>1. CASE Blocked(v, p)
  <2>1. s = Absent
    BY <1>1 DEF SetAt, Blocked
  <2> QED  BY <2>1, AbsentIsValue
<1>2. CASE ~Blocked(v, p)
  <2>1. Rooted(v) /\ Rooted(new)
    BY ValueByNodes
  <2>2. /\ Rooted(s)
        /\ \A q \in Pointer : q \in DOMAIN s <=>
             IF IsPrefix(p, q) THEN Beyond(p, q) \in DOMAIN new ELSE q \in DOMAIN v
        /\ \A q \in DOMAIN s : s[q] = IF IsPrefix(p, q) THEN new[Beyond(p, q)] ELSE v[q]
    BY <1>2, <2>1, SetIsRooted
  <2> HIDE DEF s
  <2>3. ASSUME NEW q \in DOMAIN s
        PROVE  NodeIsSound(s, q) /\ \A a \in Ancestors(q) : a \in DOMAIN s /\ s[a].kind = "object"
    <3>1. q \in Pointer
      BY <2>2 DEF Rooted
    <3>2. NodeIsSound(s, q)
      <4>1. CASE IsPrefix(p, q)
        <5>1. Beyond(p, q) \in DOMAIN new /\ s[q] = new[Beyond(p, q)]
          BY <2>2, <3>1, <4>1
        <5>2. NodeIsSound(new, Beyond(p, q))
          BY <5>1, ValueByNodes
        <5> QED  BY <5>1, <5>2 DEF NodeIsSound
      <4>2. CASE ~IsPrefix(p, q)
        <5>1. q \in DOMAIN v /\ s[q] = v[q]
          BY <2>2, <3>1, <4>2
        <5>2. NodeIsSound(v, q)
          BY <5>1, ValueByNodes
        <5> QED  BY <5>1, <5>2 DEF NodeIsSound
      <4> QED  BY <4>1, <4>2
    <3>3. ASSUME NEW a \in Ancestors(q)
          PROVE  a \in DOMAIN s /\ s[a].kind = "object"
      <4>1. a \in Pointer /\ IsPrefix(a, q)
        BY <3>1, AncestorsArePrefixes
      <4>2. CASE ~IsPrefix(p, a)
        <5>1. a \in DOMAIN v /\ v[a].kind = "object"
          <6>1. CASE IsPrefix(p, q)
            <7>1. a \in Ancestors(p)
              BY <3>1, <4>1, <4>2, <6>1, PrefixesChain
            <7> QED  BY <1>2, <7>1 DEF Blocked
          <6>2. CASE ~IsPrefix(p, q)
            <7>1. q \in DOMAIN v
              BY <2>2, <3>1, <6>2
            <7> QED  BY <7>1, ValueByNodes
          <6> QED  BY <6>1, <6>2
        <5> QED  BY <2>2, <4>1, <4>2, <5>1
      <4>3. CASE IsPrefix(p, a)
        <5>1. IsPrefix(p, q)
          BY <3>1, <4>1, <4>3, PrefixesChain
        <5>2. Beyond(p, a) \in Ancestors(Beyond(p, q)) /\ Beyond(p, q) \in DOMAIN new
          BY <2>2, <3>1, <4>1, <4>3, <5>1, AncestorsBeyond
        <5>3. Beyond(p, a) \in DOMAIN new /\ new[Beyond(p, a)].kind = "object"
          BY <5>2, ValueByNodes
        <5> QED  BY <2>2, <4>1, <4>3, <5>3
      <4> QED  BY <4>2, <4>3
    <3> QED  BY <3>2, <3>3
  <2>4. IsValue(s)
    BY <2>2, <2>3, ValueByNodes
  <2> QED  BY <2>4 DEF s
<1> QED  BY <1>1, <1>2

-----------------------------------------------------------------------------
(* What a policy does                                                       *)

LEMMA TwoNumbers ==
  ASSUME NEW m \in Int, NEW n \in Int
  PROVE  /\ Max({m, n}) = IF m >= n THEN m ELSE n
         /\ Min({m, n}) = IF m <= n THEN m ELSE n
<1>1. \A x \in {m, n} : (\A y \in {m, n} : x >= y) <=> x = IF m >= n THEN m ELSE n
  OBVIOUS
<1>2. \A x \in {m, n} : (\A y \in {m, n} : x <= y) <=> x = IF m <= n THEN m ELSE n
  OBVIOUS
<1> QED  BY <1>1, <1>2 DEF Max, Min

MinimumAlone(policy) == policy.action = "clamped" /\ policy.min # {} /\ policy.max = {}

LEMMA ClampedBounds ==
  ASSUME NEW n \in Int, NEW low, IsLimit(low), NEW high, IsLimit(high),
         \A l \in low, h \in high : l <= h
  PROVE  /\ Clamped(n, low, high) \in Int
         /\ \A h \in high : Clamped(n, low, high) <= h
         /\ low = {} \/ high # {} => \A l \in low : Clamped(n, low, high) >= l
<1>1. low = {} \/ \E l \in Int : low = {l}
  <2>1. \A l \in low : l \in Int /\ low = {l}
    BY DEF IsLimit
  <2> QED  BY <2>1
<1>2. high = {} \/ \E h \in Int : high = {h}
  <2>1. \A h \in high : h \in Int /\ high = {h}
    BY DEF IsLimit
  <2> QED  BY <2>1
<1>3. PICK a \in Int : Or(low, n) = {a} /\ low \in {{}, {a}} /\ (low = {} => a = n)
  BY <1>1 DEF Or
<1>4. PICK b \in Int : Or(high, n) = {b} /\ high \in {{}, {b}} /\ (high = {} => b = n)
  BY <1>2 DEF Or
<1> DEFINE raised == IF a >= n THEN a ELSE n
<1>5. Max(Or(low, n) \cup {n}) = raised /\ raised \in Int
  <2>1. Or(low, n) \cup {n} = {a, n}
    BY <1>3
  <2> QED  BY <2>1, TwoNumbers
<1> HIDE DEF raised
<1>6. Clamped(n, low, high) = IF b <= raised THEN b ELSE raised
  <2>1. Or(high, n) \cup {raised} = {b, raised}
    BY <1>4
  <2>2. Clamped(n, low, high) = Min(Or(high, n) \cup {raised})
    BY <1>5 DEF Clamped
  <2>3. Min({b, raised}) = IF b <= raised THEN b ELSE raised
    BY <1>5, TwoNumbers
  <2> QED  BY <2>1, <2>2, <2>3
<1>7. raised >= a /\ raised >= n
  BY DEF raised
<1>8. Clamped(n, low, high) \in Int /\ Clamped(n, low, high) <= b
  BY <1>5, <1>6
<1>9. ASSUME low = {} \/ high # {}, NEW l \in low
      PROVE  Clamped(n, low, high) >= l
  <2>1. l = a /\ high = {b} /\ a <= b
    BY <1>3, <1>4, <1>9
  <2> QED  BY <1>5, <1>6, <1>7, <2>1
<1> QED  BY <1>4, <1>8, <1>9

(* Where setting came to something it was not blocked.                      *)
LEMMA SetWorks ==
  ASSUME NEW v, IsValue(v), NEW p \in Pointer, NEW new, IsValue(new),
         SetAt(v, p, new) # Absent
  PROVE  /\ At(SetAt(v, p, new), p) = new
         /\ \A t \in Pointer : ~Overlapping(p, t) => At(SetAt(v, p, new), t) = At(v, t)
         /\ v = Absent => p = <<>>
<1>1. ~Blocked(v, p)
  BY DEF SetAt, Blocked
<1>2. Rooted(v) /\ Rooted(new)
  BY ValueByNodes
<1>3. v = Absent => p = <<>>
  <2> SUFFICES ASSUME v = Absent, p # <<>>
               PROVE  FALSE
    OBVIOUS
  <2>1. <<>> \in Ancestors(p)
    BY EmptyPointer, AncestorsArePrefixes
  <2> QED  BY <1>1, <2>1, AbsentIsRooted DEF Blocked
<1> QED  BY <1>1, <1>2, <1>3, SetThenAt, SetElsewhere

(* What only allows or denies leaves the configuration as it is.            *)
LEMMA PolicyLeaves ==
  ASSUME NEW schema, NEW v, NEW policy, IsPolicy(policy),
         ApplyPolicy(v, policy, schema).ok
  PROVE  policy.action \in {"forced", "clamped"} \/ ApplyPolicy(v, policy, schema).config = v
<1> DEFINE result == ApplyPolicy(v, policy, schema)
<1>1. policy.pointer \in DOMAIN schema
  BY DEF ApplyPolicy, Refused
<1>2. Applied(v).config = v
  BY DEF Applied
<1>3. policy.action = "allowed" => result = Applied(v)
  BY <1>1 DEF ApplyPolicy
<1>4. policy.action = "denied" => result = Applied(v)
  BY <1>1 DEF ApplyPolicy, Deny, Refused
<1> HIDE DEF result
<1>5. policy.action \in {"allowed", "denied", "forced", "clamped"}
  BY DEF IsPolicy
<1>6. policy.action \in {"forced", "clamped"} \/ result.config = v
  BY <1>2, <1>3, <1>4, <1>5
<1> QED  BY <1>6 DEF result

LEMMA PolicyApplied ==
  ASSUME NEW schema, NEW v, IsValue(v), NEW policy, IsPolicy(policy),
         ApplyPolicy(v, policy, schema).ok
  PROVE  LET new == ApplyPolicy(v, policy, schema).config
         IN /\ IsValue(new)
            /\ new # Absent =>
                 /\ Holds(policy, new) \/ MinimumAlone(policy)
                 /\ \A t \in Pointer : ~Overlapping(policy.pointer, t) => At(new, t) = At(v, t)
                 /\ v = Absent => policy.pointer = <<>>
<1> DEFINE result == ApplyPolicy(v, policy, schema)
           new == result.config
           p == policy.pointer
<1>1. p \in Pointer /\ policy.action \in {"allowed", "denied", "forced", "clamped"}
  BY DEF IsPolicy, Pointer
<1>2. p \in DOMAIN schema
  BY DEF ApplyPolicy, Refused
<1>3. CASE policy.action = "allowed"
  <2>1. result = Applied(v)
    BY <1>2, <1>3 DEF ApplyPolicy
  <2>2. new = v
    BY <2>1 DEF Applied
  <2> HIDE DEF result
  <2> QED  BY <1>3, <2>2 DEF Holds, result
<1>4. CASE policy.action = "denied"
  <2>1. result = Deny(v, policy)
    BY <1>2, <1>4 DEF ApplyPolicy
  <2>2. At(v, p) = Absent /\ result = Applied(v)
    BY <2>1 DEF Deny, Refused
  <2>3. new = v
    BY <2>2 DEF Applied
  <2> HIDE DEF result
  <2> QED  BY <1>4, <2>2, <2>3 DEF Holds, result
<1>5. CASE policy.action = "forced"
  <2>1. result = ForcePolicy(v, policy, schema)
    BY <1>2, <1>5 DEF ApplyPolicy
  <2>2. result = Applied(SetAt(v, p, policy.value))
    BY <2>1 DEF ForcePolicy, Refused
  <2>3. new = SetAt(v, p, policy.value)
    BY <2>2 DEF Applied
  <2>4. IsValue(policy.value)
    BY <1>5 DEF IsPolicy
  <2> HIDE DEF result
  <2>5. IsValue(new)
    BY <1>1, <2>3, <2>4, SetIsValue
  <2>6. ASSUME new # Absent
        PROVE  /\ At(new, p) = policy.value
               /\ \A t \in Pointer : ~Overlapping(p, t) => At(new, t) = At(v, t)
               /\ v = Absent => p = <<>>
    BY <1>1, <2>3, <2>4, <2>6, SetWorks
  <2>7. At(new, p) = policy.value => Holds(policy, new)
    BY <1>5 DEF Holds
  <2> QED  BY <2>5, <2>6, <2>7 DEF result
<1>6. CASE policy.action = "clamped"
  <2> DEFINE current == At(v, p)
             n == Node(current).value
             c == Clamped(n, policy.min, policy.max)
  <2>1. result = ClampPolicy(v, policy)
    BY <1>2, <1>6 DEF ApplyPolicy
  <2>2. /\ KindOf(current) = "number"
        /\ ~(\E low \in policy.min, high \in policy.max : low > high)
        /\ result = Applied(SetAt(v, p, Number(c)))
    BY <2>1 DEF ClampPolicy, Refused
  <2>3. new = SetAt(v, p, Number(c))
    BY <2>2 DEF Applied
  <2> HIDE DEF result
  <2>4. n \in Int
    <3>1. IsValue(current)
      BY <1>1, AtIsValue
    <3>2. current # Absent /\ current[<<>>].kind = "number"
      BY <2>2 DEF KindOf, Node
    <3>3. <<>> \in DOMAIN current
      BY <3>1, <3>2, RootOfTree DEF IsValue
    <3> QED  BY <3>1, <3>2, <3>3, ValueByNodes DEF NodeIsSound, Node
  <2>5. IsLimit(policy.min) /\ IsLimit(policy.max)
    BY <1>6 DEF IsPolicy
  <2>6. \A low \in policy.min, high \in policy.max : low <= high
    BY <2>2, <2>5 DEF IsLimit
  <2> HIDE DEF n, current
  <2>7. /\ c \in Int
        /\ \A h \in policy.max : c <= h
        /\ policy.min = {} \/ policy.max # {} => \A l \in policy.min : c >= l
    BY <2>4, <2>5, <2>6, ClampedBounds
  <2> HIDE DEF c
  <2>8. IsValue(Number(c)) /\ KindOf(Number(c)) = "number" /\ Node(Number(c)).value = c
    BY <2>7, NumberIsValue
  <2>9. IsValue(new)
    BY <1>1, <2>3, <2>8, SetIsValue
  <2>10. ASSUME new # Absent
         PROVE  /\ At(new, p) = Number(c)
                /\ \A t \in Pointer : ~Overlapping(p, t) => At(new, t) = At(v, t)
                /\ v = Absent => p = <<>>
    BY <1>1, <2>3, <2>8, <2>10, SetWorks
  <2>11. ASSUME At(new, p) = Number(c), ~MinimumAlone(policy)
         PROVE  Holds(policy, new)
    <3>1. \A l \in policy.min : c >= l
      BY <1>6, <2>7, <2>11 DEF MinimumAlone
    <3>2. /\ KindOf(At(new, p)) = "number"
          /\ \A low \in policy.min : Node(At(new, p)).value >= low
          /\ \A high \in policy.max : Node(At(new, p)).value <= high
      BY <2>7, <2>8, <2>11, <3>1
    <3> QED  BY <1>6, <3>2 DEF Holds
  <2> QED  BY <2>9, <2>10, <2>11 DEF result
<1> QED  BY <1>1, <1>3, <1>4, <1>5, <1>6

-----------------------------------------------------------------------------
(* Evidence                                                                 *)

LEMMA FiniteImage ==
  ASSUME NEW S, IsFiniteSet(S), NEW f
  PROVE  IsFiniteSet({f[x] : x \in S})
<1> DEFINE T == {f[x] : x \in S}
           g == [x \in S |-> f[x]]
<1>1. g \in Surjection(S, T)
  BY DEF Surjection
<1> HIDE DEF g
<1> QED  BY <1>1, FS_Surjection

(* Support that is found is support that stands.                            *)
LEMMA SatisfiedIsSupported ==
  ASSUME NEW requirement, IsList(problem.evidence),
         \A i \in DOMAIN problem.evidence : problem.evidence[i].strength \in Strengths,
         Decide(requirement, Claims(requirement, problem.evidence)) = "satisfied"
  PROVE  Proven(requirement)
<1> DEFINE about == About(requirement)
           decisive == Decisive(requirement, problem.evidence)
           claims == Claims(requirement, problem.evidence)
           unsupported == {e \in claims : e.state = "unsupported"}
           supported == {e \in claims : e.state = "supported"}
           Leads(e) == \A f \in decisive : ~Before(f, e)
           first == CHOOSE e \in decisive : Leads(e)
<1>1. /\ Len(problem.evidence) \in Nat /\ DOMAIN problem.evidence = 1..Len(problem.evidence)
      /\ IsFiniteSet(ToSet(problem.evidence))
  <2>1. Len(problem.evidence) \in Nat /\ DOMAIN problem.evidence = 1..Len(problem.evidence)
    BY ListsAreNumbered
  <2>2. IsFiniteSet(1..Len(problem.evidence))
    BY <2>1, FS_Interval
  <2>3. IsFiniteSet({problem.evidence[i] : i \in 1..Len(problem.evidence)})
    BY <2>2, FiniteImage
  <2> QED  BY <2>1, <2>3 DEF ToSet
<1>2. about = Matching(requirement, problem.evidence)
  BY DEF About, Matching, ToSet
<1>3. decisive = {e \in about : e.state # "unknown"} /\ decisive \subseteq ToSet(problem.evidence)
  BY <1>2 DEF Decisive, Matching
<1>4. \A e \in about : e.strength \in 1..4
  BY DEF About, Strengths
<1>5. claims = {e \in decisive : e.strength = first.strength}
  BY DEF Claims
<1>6. ~ConflictingClaims(unsupported, supported) /\ unsupported = {} /\ supported # {}
  BY DEF Decide
<1> HIDE DEF about, decisive, claims
<1>7. PICK e \in supported : TRUE
  BY <1>6
<1>8. e \in decisive /\ e \in about /\ e.state = "supported" /\ e.strength = first.strength
  BY <1>3, <1>5, <1>7
<1>9. first \in decisive /\ Leads(first)
  <2> DEFINE S == {f.strength : f \in decisive}
  <2>1. S \in SUBSET (1..4) /\ S # {}
    BY <1>3, <1>4, <1>8
  <2>2. 4 \in Nat
    OBVIOUS
  <2>3. Max(S) \in S /\ \A m \in S : m <= Max(S)
    <3> HIDE DEF S
    <3> QED  BY <2>1, <2>2, GreatestOf
  <2>4. PICK f \in decisive : f.strength = Max(S)
    BY <2>3
  <2>5. \A g \in decisive : g.strength <= f.strength /\ g.strength \in 1..4 /\ f.strength \in 1..4
    <3>1. \A g \in decisive : g.strength \in S
      OBVIOUS
    <3>2. \A g \in decisive : g.strength <= f.strength
      BY <2>3, <2>4, <3>1, Zenon
    <3>3. \A g \in decisive : g.strength \in 1..4
      BY <1>3, <1>4
    <3> QED  BY <3>2, <3>3
  <2>6. Leads(f)
    BY <2>5 DEF Before
  <2> HIDE DEF Leads
  <2> QED  BY <2>4, <2>6
<1>10. ASSUME NEW f \in about, f.strength >= e.strength, f.state # "unknown"
       PROVE  f \in claims
  <2>1. f \in decisive
    BY <1>3, <1>10
  <2>2. ~(f.strength > first.strength)
    BY <1>9, <2>1 DEF Before
  <2>3. f.strength \in 1..4 /\ e.strength \in 1..4
    BY <1>4, <1>8
  <2>4. f.strength = first.strength
    BY <1>8, <1>10, <2>2, <2>3
  <2> QED  BY <1>5, <2>1, <2>4
<1>11. ASSUME NEW f \in supported, NEW g \in supported
       PROVE  Agree(f, g)
  <2> DEFINE D == {h.digest : h \in supported} \ {NoDigest}
  <2>1. ~(Cardinality(D) > 1)
    BY <1>6 DEF ConflictingClaims
  <2>2. IsFiniteSet(D)
    <3>1. supported \subseteq ToSet(problem.evidence)
      BY <1>3, <1>5
    <3> HIDE DEF supported
    <3>2. IsFiniteSet(supported)
      BY <1>1, <3>1, FS_Subset
    <3> DEFINE digest == [h \in supported |-> h.digest]
               digests == {h.digest : h \in supported}
    <3>3. digests = {digest[h] : h \in supported}
      OBVIOUS
    <3> HIDE DEF digest
    <3>4. IsFiniteSet(digests)
      BY <3>2, <3>3, FiniteImage
    <3>5. D \subseteq digests
      OBVIOUS
    <3> HIDE DEF D, digests
    <3> QED  BY <3>4, <3>5, FS_Subset
  <2>3. ASSUME f.digest # g.digest, f.digest # NoDigest, g.digest # NoDigest
        PROVE  FALSE
    <3>1. {f.digest, g.digest} \subseteq D
      BY <2>3
    <3> HIDE DEF D
    <3>2. Cardinality({f.digest, g.digest}) <= Cardinality(D) /\ Cardinality(D) \in Nat
      BY <2>2, <3>1, FS_Subset, FS_CardinalityType
    <3>3. Cardinality({f.digest, g.digest}) = 2
      <4>1. IsFiniteSet({g.digest}) /\ Cardinality({g.digest}) = 1
        BY FS_Singleton
      <4>2. Cardinality({g.digest} \cup {f.digest}) = Cardinality({g.digest}) + 1
        <5>1. f.digest \notin {g.digest}
          BY <2>3
        <5> QED  BY <4>1, <5>1, FS_AddElement
      <4>3. {f.digest, g.digest} = {g.digest} \cup {f.digest}
        OBVIOUS
      <4>4. Cardinality({f.digest, g.digest}) = Cardinality({g.digest}) + 1
        BY <4>2, <4>3, Zenon
      <4> QED  BY <4>1, <4>4
    <3> QED  BY <2>1, <3>2, <3>3
  <2> QED  BY <2>3 DEF Agree
<1>12. ASSUME NEW f \in about, NEW g \in about, f.strength >= e.strength, g.strength >= e.strength
       PROVE  /\ f.state # "unsupported"
              /\ f.state = "supported" /\ g.state = "supported" /\ f.strength = g.strength
                   => Agree(f, g)
  <2>1. f.state # "unsupported"
    BY <1>6, <1>10, <1>12
  <2>2. ASSUME f.state = "supported", g.state = "supported"
        PROVE  Agree(f, g)
    <3>1. f \in supported /\ g \in supported
      BY <1>10, <1>12, <2>2
    <3> QED  BY <1>11, <3>1
  <2> QED  BY <2>1, <2>2
<1>13. \A f, g \in {f \in about : f.strength >= e.strength} :
         /\ f.state # "unsupported"
         /\ f.state = "supported" /\ g.state = "supported" /\ f.strength = g.strength
              => Agree(f, g)
  BY <1>12
<1> QED  BY <1>8, <1>13 DEF Proven, about

-----------------------------------------------------------------------------
(* The inductive invariant                                                  *)

(* What is resolved is of one of the families.                              *)
WellPosed ==
  /\ IsSchema(problem.schema)
  /\ LayersOf(problem.layers)
  /\ IsList(problem.policies) /\ \A i \in DOMAIN problem.policies : IsPolicy(problem.policies[i])
  /\ IsList(problem.requirements)
  /\ IsList(problem.evidence)
  /\ \A i \in DOMAIN problem.evidence : problem.evidence[i].strength \in Strengths

TypeOK ==
  /\ pc \in {"read", "layers", "policies", "convert", "evaluate", "answered", "invalid"}
  /\ next \in Nat \ {0}
  /\ IsValue(config)
  /\ pc = "policies" => next <= Len(problem.policies) + 1
  /\ pc = "evaluate" => next <= Len(problem.requirements) + 1

(* Of the first n policies each one holds of v, or was overridden.          *)
Kept(v, n) ==
  \A i \in 1..n :
    \/ Holds(problem.policies[i], v)
    \/ MinimumAlone(problem.policies[i])
    \/ \E j \in (i + 1)..n : Overrides(problem.policies[j], problem.policies[i])

PoliciesAreKept ==
  /\ pc = "policies" /\ config # Absent => Kept(config, next - 1)
  /\ Resolved /\ config # Absent => Kept(config, Len(problem.policies))
  /\ Resolved => ValidConfig(problem.schema, config)

TraceIsMade ==
  /\ pc \in {"read", "layers", "policies"} => ~Resolved
  /\ pc = "policies" => merged = Merge(problem.schema, problem.layers)
  /\ Resolved => /\ trace = MakeTrace(problem.schema, problem.layers)
                 /\ merged = Merge(problem.schema, problem.layers)

ResolvedSoFar(n) ==
  /\ Len(resolutions) = n /\ DOMAIN resolutions = 1..n
  /\ \A i \in 1..n : resolutions[i] = ResolveOne(problem.requirements[i], problem.evidence)

EvidenceIsHeard ==
  /\ pc \in {"read", "layers", "policies", "convert"} => resolutions = <<>>
  /\ pc = "evaluate" => resolutions \in Seq(ToSet(resolutions)) /\ ResolvedSoFar(next - 1)
  /\ pc # "answered" => ~ready
  /\ ready => /\ ResolvedSoFar(Len(problem.requirements))
              /\ \A i \in DOMAIN resolutions : ~Blocking(resolutions[i])

IInv == WellPosed /\ TypeOK /\ PoliciesAreKept /\ TraceIsMade /\ EvidenceIsHeard

LEMMA InitIsSound == Init => IInv
<1> HAVE Init
<1>1. WellPosed
  <2>1. PICK f \in Families :
          problem \in [schema : f.schemas, layers : f.layers, policies : f.policies,
                       requirements : f.requirements, evidence : f.evidence,
                       convertible : f.convertible]
    BY DEF Init
  <2>2. /\ problem.schema \in f.schemas /\ problem.layers \in f.layers
        /\ problem.policies \in f.policies /\ problem.requirements \in f.requirements
        /\ problem.evidence \in f.evidence
    BY <2>1
  <2> QED  BY <2>2, FamiliesAssumption DEF WellPosed, LayersOf
<1>2. TypeOK
  BY AbsentIsValue DEF Init, TypeOK
<1>3. PoliciesAreKept
  BY DEF Init, PoliciesAreKept, Resolved
<1>4. TraceIsMade
  BY DEF Init, TraceIsMade, Resolved
<1>5. EvidenceIsHeard
  BY DEF Init, EvidenceIsHeard
<1> QED  BY <1>1, <1>2, <1>3, <1>4, <1>5 DEF IInv

LEMMA AppendedList ==
  ASSUME NEW s, s \in Seq(ToSet(s)), NEW x
  PROVE  LET t == Append(s, x)
         IN /\ t \in Seq(ToSet(t)) /\ Len(s) \in Nat
            /\ Len(t) = Len(s) + 1 /\ DOMAIN t = 1..(Len(s) + 1)
            /\ \A i \in 1..Len(s) : t[i] = s[i]
            /\ t[Len(s) + 1] = x
<1> DEFINE t == Append(s, x)
           V == ToSet(s) \cup {x}
<1>1. s \in Seq(V) /\ x \in V
  <2>1. ToSet(s) \subseteq V
    OBVIOUS
  <2> QED  BY <2>1, SeqMonotonic
<1> HIDE DEF V
<1>2. /\ t \in Seq(V) /\ Len(t) = Len(s) + 1
      /\ \A i \in 1..Len(s) : t[i] = s[i]
      /\ t[Len(s) + 1] = x
  BY <1>1, AppendProperties
<1>3. Len(s) \in Nat
  BY LenProperties
<1> HIDE DEF t
<1>4. DOMAIN t = 1..(Len(s) + 1)
  BY <1>2, LenProperties
<1>5. t \in Seq(ToSet(t))
  <2>1. \A i \in 1..Len(t) : t[i] \in ToSet(t)
    BY <1>2, <1>4 DEF ToSet
  <2> QED  BY <1>2, <2>1, SeqDef, LenProperties
<1> QED  BY <1>2, <1>3, <1>4, <1>5 DEF t

(* One more policy: what it does not change stays as the others left it.    *)
LEMMA OneMorePolicy ==
  ASSUME WellPosed, NEW v, IsValue(v), NEW n \in 1..Len(problem.policies),
         v # Absent => Kept(v, n - 1),
         ApplyPolicy(v, problem.policies[n], problem.schema).ok
  PROVE  LET new == ApplyPolicy(v, problem.policies[n], problem.schema).config
         IN IsValue(new) /\ (new # Absent => Kept(new, n))
<1> DEFINE P == problem.policies
           new == ApplyPolicy(v, P[n], problem.schema).config
<1>1. /\ Len(P) \in Nat /\ DOMAIN P = 1..Len(P)
      /\ \A i \in 1..Len(P) : IsPolicy(P[i]) /\ P[i].pointer \in Pointer
  BY ListsAreNumbered DEF WellPosed, IsPolicy, Pointer
<1>2. /\ IsValue(new)
      /\ new # Absent =>
           /\ Holds(P[n], new) \/ MinimumAlone(P[n])
           /\ P[n].action \in {"forced", "clamped"} \/ new = v
           /\ \A t \in Pointer : ~Overlapping(P[n].pointer, t) => At(new, t) = At(v, t)
           /\ v = Absent => P[n].pointer = <<>>
  <2>1. IsPolicy(P[n])
    BY <1>1
  <2>2. P[n].action \in {"forced", "clamped"} \/ new = v
    BY <2>1, PolicyLeaves
  <2>3. /\ IsValue(new)
        /\ new # Absent =>
             /\ Holds(P[n], new) \/ MinimumAlone(P[n])
             /\ \A t \in Pointer : ~Overlapping(P[n].pointer, t) => At(new, t) = At(v, t)
             /\ v = Absent => P[n].pointer = <<>>
    BY <2>1, PolicyApplied
  <2> QED  BY <2>2, <2>3
<1> HIDE DEF P, new
<1>3. ASSUME new # Absent, NEW i \in 1..n
      PROVE  Holds(P[i], new) \/ MinimumAlone(P[i]) \/ \E j \in (i + 1)..n : Overrides(P[j], P[i])
  <2>1. CASE i = n
    BY <1>2, <1>3, <2>1
  <2>2. CASE i # n /\ Overrides(P[n], P[i])
    <3>1. n \in (i + 1)..n
      BY <1>1, <2>2
    <3> QED  BY <2>2, <3>1
  <2>3. CASE i # n /\ ~Overrides(P[n], P[i])
    <3>1. i \in 1..(n - 1) /\ i \in 1..Len(P) /\ P[i].pointer \in Pointer
      BY <1>1, <2>3 DEF P
    <3>2. new = v \/ ~Overlapping(P[n].pointer, P[i].pointer)
      BY <1>2, <1>3, <2>3 DEF Overrides, Overlapping
    <3>3. v # Absent /\ At(new, P[i].pointer) = At(v, P[i].pointer)
      <4>1. CASE new = v
        BY <1>3, <4>1
      <4>2. CASE ~Overlapping(P[n].pointer, P[i].pointer)
        <5>1. Overlapping(<<>>, P[i].pointer)
          BY <3>1, EmptyPointer DEF Overlapping
        <5> QED  BY <1>2, <1>3, <3>1, <4>2, <5>1
      <4> QED  BY <3>2, <4>1, <4>2
    <3>4. \/ Holds(P[i], v)
          \/ MinimumAlone(P[i])
          \/ \E j \in (i + 1)..(n - 1) : Overrides(P[j], P[i])
      BY <3>1, <3>3 DEF Kept, P
    <3>5. Holds(P[i], v) => Holds(P[i], new)
      BY <3>3 DEF Holds
    <3>6. \A j \in (i + 1)..(n - 1) : j \in (i + 1)..n
      BY <1>1
    <3> QED  BY <3>4, <3>5, <3>6
  <2> QED  BY <2>1, <2>2, <2>3
<1>4. new # Absent => Kept(new, n)
  BY <1>3 DEF Kept, P
<1> QED  BY <1>2, <1>4 DEF new, P

LEMMA StepIsSound == IInv /\ [Next]_vars => IInv'
<1> SUFFICES ASSUME IInv, [Next]_vars
             PROVE  IInv'
  OBVIOUS
<1>1. /\ Len(problem.policies) \in Nat /\ Len(problem.requirements) \in Nat
      /\ DOMAIN problem.policies = 1..Len(problem.policies)
  BY ListsAreNumbered DEF IInv, WellPosed
<1>2. next \in Nat \ {0} /\ IsValue(config)
  BY DEF IInv, TypeOK
<1>3. ASSUME UNCHANGED vars
      PROVE  IInv'
  BY <1>3 DEF vars, IInv, WellPosed, TypeOK, PoliciesAreKept, Kept, TraceIsMade, Resolved,
              EvidenceIsHeard, ResolvedSoFar, Blocking
<1>4. ASSUME problem' = problem
      PROVE  WellPosed'
  BY <1>4 DEF IInv, WellPosed
<1>5. ASSUME pc # "answered", Refuse
      PROVE  IInv'
  <2> USE <1>5 DEF Refuse, Goto
  <2>1. TypeOK'
    BY DEF IInv, TypeOK
  <2>2. PoliciesAreKept'
    BY DEF IInv, PoliciesAreKept, Kept, Resolved
  <2>3. TraceIsMade'
    BY DEF IInv, TraceIsMade, Resolved
  <2>4. EvidenceIsHeard'
    BY DEF IInv, EvidenceIsHeard
  <2> QED  BY <1>4, <2>1, <2>2, <2>3, <2>4 DEF IInv
<1>6. ASSUME Read
      PROVE  IInv'
  <2> USE <1>6 DEF Read, Goto
  <2>1. TypeOK'
    BY DEF IInv, TypeOK
  <2>2. PoliciesAreKept' /\ TraceIsMade'
    BY DEF IInv, PoliciesAreKept, TraceIsMade, Resolved
  <2>3. EvidenceIsHeard'
    BY DEF IInv, EvidenceIsHeard
  <2> QED  BY <1>4, <2>1, <2>2, <2>3 DEF IInv
<1>7. ASSUME ValidateLayer
      PROVE  IInv'
  <2>1. CASE Refuse
    BY <1>5, <1>7, <2>1 DEF ValidateLayer
  <2>2. CASE next' = next + 1 /\ UNCHANGED <<problem, pc, config, merged, trace, resolutions, ready>>
    <3> USE <2>2
    <3>1. pc = "layers"
      BY <1>7 DEF ValidateLayer
    <3>2. TypeOK'
      BY <3>1, <1>2 DEF IInv, TypeOK
    <3>3. PoliciesAreKept' /\ TraceIsMade'
      BY <3>1 DEF IInv, PoliciesAreKept, TraceIsMade, Resolved
    <3>4. EvidenceIsHeard'
      BY <3>1 DEF IInv, EvidenceIsHeard
    <3> QED  BY <1>4, <3>2, <3>3, <3>4 DEF IInv
  <2> QED  BY <1>7, <2>1, <2>2 DEF ValidateLayer
<1>8. ASSUME MergeLayers
      PROVE  IInv'
  <2> USE <1>8 DEF MergeLayers, Goto
  <2>1. IsValue(config')
    BY MergeIsValue DEF IInv, WellPosed
  <2>2. TypeOK'
    BY <1>1, <2>1 DEF TypeOK
  <2>3. PoliciesAreKept'
    <3>1. ~Resolved /\ trace' = trace
      BY DEF IInv, TraceIsMade
    <3>2. 1..(next' - 1) = {}
      OBVIOUS
    <3>3. (Kept(config, next - 1))'
      BY <3>2 DEF Kept
    <3> QED  BY <3>1, <3>3 DEF PoliciesAreKept, Resolved
  <2>4. TraceIsMade'
    BY DEF IInv, TraceIsMade, Resolved
  <2>5. EvidenceIsHeard'
    BY DEF IInv, EvidenceIsHeard
  <2> QED  BY <1>4, <2>2, <2>3, <2>4, <2>5 DEF IInv
<1>9. ASSUME PolicyStep
      PROVE  IInv'
  <2> DEFINE result == ApplyPolicy(config, problem.policies[next], problem.schema)
  <2>1. pc = "policies" /\ next <= Len(problem.policies)
    BY <1>9 DEF PolicyStep
  <2>2. CASE Refuse
    BY <1>5, <2>1, <2>2
  <2>3. CASE /\ result.ok /\ config' = result.config /\ next' = next + 1
             /\ UNCHANGED <<problem, pc, merged, trace, resolutions, ready>>
    <3>1. ~Resolved
      BY <2>1 DEF IInv, TraceIsMade
    <3>2. IsValue(config') /\ (config' # Absent => Kept(config', next))
      <4>1. next \in 1..Len(problem.policies)
        BY <1>1, <1>2, <2>1
      <4>2. config # Absent => Kept(config, next - 1)
        BY <2>1 DEF IInv, PoliciesAreKept
      <4>3. WellPosed
        BY DEF IInv
      <4> HIDE DEF result
      <4>4. config' = result.config /\ result.ok
        BY <2>3
      <4>5. IsValue(result.config) /\ (result.config # Absent => Kept(result.config, next))
        BY <1>2, <4>1, <4>2, <4>3, <4>4, OneMorePolicy DEF result
      <4> QED  BY <4>4, <4>5
    <3> HIDE DEF result
    <3>3. next' - 1 = next
      BY <1>2, <2>3
    <3>4. PoliciesAreKept'
      <4>1. ~Resolved'
        BY <2>3, <3>1 DEF Resolved
      <4>2. config' # Absent => (Kept(config, next - 1))'
        BY <2>3, <3>2, <3>3 DEF Kept
      <4> QED  BY <4>1, <4>2 DEF PoliciesAreKept
    <3>5. TypeOK'
      BY <1>1, <1>2, <2>1, <2>3, <3>2 DEF TypeOK
    <3>6. TraceIsMade'
      BY <2>1, <2>3, <3>1 DEF IInv, TraceIsMade, Resolved
    <3>7. EvidenceIsHeard'
      BY <2>1, <2>3 DEF IInv, EvidenceIsHeard
    <3> QED  BY <1>4, <2>3, <3>4, <3>5, <3>6, <3>7 DEF IInv
  <2> QED  BY <1>9, <2>2, <2>3 DEF PolicyStep
<1>10. ASSUME Resolve
       PROVE  IInv'
  <2>1. pc = "policies" /\ next > Len(problem.policies)
    BY <1>10 DEF Resolve
  <2>2. CASE Refuse
    BY <1>5, <2>1, <2>2
  <2>3. CASE /\ ValidConfig(problem.schema, config)
             /\ trace' = MakeTrace(problem.schema, problem.layers)
             /\ Goto("convert")
             /\ UNCHANGED <<problem, config, merged, resolutions, ready>>
    <3>1. next - 1 = Len(problem.policies)
      BY <1>1, <1>2, <2>1 DEF IInv, TypeOK
    <3>2. TypeOK'
      BY <1>2, <2>3 DEF Goto, TypeOK
    <3>3. PoliciesAreKept'
      <4>1. config # Absent => Kept(config, Len(problem.policies))
        BY <2>1, <3>1 DEF IInv, PoliciesAreKept
      <4>2. config' # Absent => (Kept(config, Len(problem.policies)))'
        BY <2>3, <4>1 DEF Kept
      <4>3. ValidConfig(problem.schema, config)' /\ pc' = "convert"
        BY <2>3 DEF Goto
      <4> QED  BY <4>2, <4>3 DEF PoliciesAreKept
    <3>4. TraceIsMade'
      BY <2>1, <2>3 DEF IInv, TraceIsMade, Goto
    <3>5. EvidenceIsHeard'
      BY <2>1, <2>3 DEF IInv, EvidenceIsHeard, Goto
    <3> QED  BY <1>4, <2>3, <3>2, <3>3, <3>4, <3>5 DEF IInv
  <2> QED  BY <1>10, <2>2, <2>3 DEF Resolve
<1>11. ASSUME Convert
       PROVE  IInv'
  <2>1. pc = "convert"
    BY <1>11 DEF Convert
  <2>2. CASE Refuse
    BY <1>5, <2>1, <2>2
  <2>3. CASE Goto("evaluate") /\ UNCHANGED <<problem, config, merged, trace, resolutions, ready>>
    <3> USE <2>3 DEF Goto
    <3>1. TypeOK'
      BY <1>1, <1>2 DEF TypeOK
    <3>2. PoliciesAreKept'
      BY <2>1 DEF IInv, PoliciesAreKept, Kept, Resolved
    <3>3. TraceIsMade'
      BY <2>1 DEF IInv, TraceIsMade, Resolved
    <3>4. EvidenceIsHeard'
      <4>1. resolutions = <<>> /\ ~ready
        BY <2>1 DEF IInv, EvidenceIsHeard
      <4>2. resolutions' \in Seq(ToSet(resolutions'))
        BY <4>1
      <4>3. Len(resolutions') = 0 /\ DOMAIN resolutions' = 1..0 /\ next' - 1 = 0
        BY <4>1
      <4>4. ResolvedSoFar(next - 1)'
        BY <4>3 DEF ResolvedSoFar
      <4> QED  BY <4>1, <4>2, <4>4 DEF EvidenceIsHeard
    <3> QED  BY <1>4, <3>1, <3>2, <3>3, <3>4 DEF IInv
  <2> QED  BY <1>11, <2>2, <2>3 DEF Convert
<1>12. ASSUME Evaluate
       PROVE  IInv'
  <2> USE <1>12 DEF Evaluate
  <2>1. TypeOK'
    BY <1>1, <1>2 DEF TypeOK
  <2>2. PoliciesAreKept'
    BY DEF IInv, PoliciesAreKept, Kept, Resolved
  <2>3. TraceIsMade'
    BY DEF IInv, TraceIsMade, Resolved
  <2>4. EvidenceIsHeard'
    <3> DEFINE answer(i) == ResolveOne(problem.requirements[i], problem.evidence)
    <3>1. /\ resolutions \in Seq(ToSet(resolutions)) /\ ~ready
          /\ Len(resolutions) = next - 1
          /\ \A i \in 1..(next - 1) : resolutions[i] = answer(i)
      BY DEF IInv, EvidenceIsHeard, ResolvedSoFar
    <3>2. resolutions' = Append(resolutions, answer(next))
      OBVIOUS
    <3> HIDE DEF answer
    <3>3. /\ resolutions' \in Seq(ToSet(resolutions'))
          /\ Len(resolutions') = next /\ DOMAIN resolutions' = 1..next
          /\ \A i \in 1..(next - 1) : resolutions'[i] = resolutions[i]
          /\ resolutions'[next] = answer(next)
      <4>1. Len(resolutions) + 1 = next
        BY <1>2, <3>1
      <4> QED  BY <3>1, <3>2, <4>1, AppendedList
    <3>4. \A i \in 1..next : resolutions'[i] = answer(i)
      <4> TAKE i \in 1..next
      <4>1. i = next \/ i \in 1..(next - 1)
        BY <1>2
      <4> QED  BY <3>1, <3>3, <4>1
    <3>5. next' - 1 = next
      BY <1>2
    <3>6. ResolvedSoFar(next - 1)'
      BY <3>3, <3>4, <3>5 DEF ResolvedSoFar, answer
    <3> QED  BY <3>1, <3>3, <3>6 DEF EvidenceIsHeard
  <2> QED  BY <1>4, <2>1, <2>2, <2>3, <2>4 DEF IInv
<1>13. ASSUME Doctor
       PROVE  IInv'
  <2> USE <1>13 DEF Doctor, Goto
  <2>1. TypeOK'
    BY <1>2 DEF TypeOK
  <2>2. PoliciesAreKept'
    BY DEF IInv, PoliciesAreKept, Kept, Resolved
  <2>3. TraceIsMade'
    BY DEF IInv, TraceIsMade, Resolved
  <2>4. EvidenceIsHeard'
    <3>1. next - 1 = Len(problem.requirements)
      BY <1>1, <1>2 DEF IInv, TypeOK
    <3>2. ResolvedSoFar(Len(problem.requirements))
      BY <3>1 DEF IInv, EvidenceIsHeard
    <3>3. ready' => \A i \in DOMAIN resolutions : ~Blocking(resolutions[i])
      OBVIOUS
    <3> QED  BY <3>2, <3>3 DEF EvidenceIsHeard, ResolvedSoFar, Blocking
  <2> QED  BY <1>4, <2>1, <2>2, <2>3, <2>4 DEF IInv
<1>14. ASSUME Unreadable
       PROVE  IInv'
  BY <1>5, <1>14 DEF Unreadable
<1> QED  BY <1>3, <1>6, <1>7, <1>8, <1>9, <1>10, <1>11, <1>12, <1>13, <1>14 DEF Next

LEMMA SpecIsSound == Spec => []IInv
<1>1. Init => IInv
  BY InitIsSound
<1>2. IInv /\ [Next]_vars => IInv'
  BY StepIsSound
<1> QED  BY <1>1, <1>2, PTL DEF Spec

-----------------------------------------------------------------------------
(* The theorems                                                             *)

(* Whatever is merged and whatever policies do to it, a configuration is a  *)
(* value: its pointers lead through objects, its lists are lists (merge,    *)
(* setAt).                                                                 *)
THEOREM ConfigurationIsValue == Spec => []TypeOK
<1>1. IInv => TypeOK
  BY DEF IInv
<1> QED  BY <1>1, SpecIsSound, PTL

(* Whatever the schema and however many the layers: at every pointer is     *)
(* what the source that is traced of its decider has there, with what the   *)
(* defaults around it say (merge, traceCandidates, trace).                  *)
THEOREM SourcesAreTrue == Spec => []TraceIsTrue
<1>1. IInv => TraceIsTrue
  <2> SUFFICES ASSUME IInv, Resolved, NEW p \in DOMAIN trace
               PROVE  SourceIsTrue(p)
    BY DEF TraceIsTrue
  <2>1. /\ IsSchema(problem.schema) /\ LayersOf(problem.layers)
        /\ merged = Merge(problem.schema, problem.layers)
        /\ trace = MakeTrace(problem.schema, problem.layers)
    BY DEF IInv, WellPosed, TraceIsMade
  <2> QED  BY <2>1, SourceOfSetting
<1> QED  BY <1>1, SpecIsSound, PTL

(* A policy that was applied holds of the configuration that is returned,   *)
(* or a later one forces or clamps the same setting or part of it, unless   *)
(* it clamps with a minimum alone or forcing left no configuration at all   *)
(* (applyPolicies, forcePolicy, clampPolicy, setAt).                        *)
KeptOrExcepted ==
  Resolved =>
    \A i \in DOMAIN problem.policies :
      \/ Holds(problem.policies[i], config)
      \/ \E j \in (i + 1)..Len(problem.policies) : Overrides(problem.policies[j], problem.policies[i])
      \/ MinimumAlone(problem.policies[i])
      \/ config = Absent
THEOREM PoliciesAreApplied == Spec => []KeptOrExcepted
<1>1. IInv => KeptOrExcepted
  <2> SUFFICES ASSUME IInv, Resolved, NEW i \in DOMAIN problem.policies, config # Absent
               PROVE  \/ Holds(problem.policies[i], config)
                      \/ MinimumAlone(problem.policies[i])
                      \/ \E j \in (i + 1)..Len(problem.policies) :
                           Overrides(problem.policies[j], problem.policies[i])
    BY DEF KeptOrExcepted
  <2>1. i \in 1..Len(problem.policies)
    BY ListsAreNumbered DEF IInv, WellPosed
  <2>2. Kept(config, Len(problem.policies))
    BY DEF IInv, PoliciesAreKept
  <2> QED  BY <2>1, <2>2 DEF Kept
<1> QED  BY <1>1, SpecIsSound, PTL

(* No default of the whole configuration that would take the place of one   *)
(* that setting lost, and no clamp with a minimum alone.                    *)
Enforceable ==
  /\ Node(problem.schema).default = Absent
  /\ \A i \in DOMAIN problem.policies : ~MinimumAlone(problem.policies[i])

(* With neither of the two defects in play every policy holds, but for what *)
(* a later one forces or clamps.                                           *)
THEOREM PoliciesAreEnforced == Spec => [](Enforceable => PoliciesHold)
<1>1. IInv /\ KeptOrExcepted => (Enforceable => PoliciesHold)
  <2> SUFFICES ASSUME IInv, KeptOrExcepted, Enforceable, Resolved
               PROVE  PoliciesHold
    BY DEF PoliciesHold
  <2>1. config # Absent
    <3>1. ValidConfig(problem.schema, config)
      BY DEF IInv, PoliciesAreKept
    <3> QED  BY <3>1 DEF ValidConfig, Valid, Enforceable
  <2> QED  BY <2>1 DEF KeptOrExcepted, Enforceable, PoliciesHold
<1> QED  BY <1>1, PoliciesAreApplied, SpecIsSound, PTL

(* doctor says ready only when for every required capability there is       *)
(* support that no claim as strong or stronger contradicts (matching,       *)
(* resolveOne, decide, blocking).                                          *)
THEOREM ReadinessIsProven == Spec => []ReadyIsProven
<1>1. IInv => ReadyIsProven
  <2> SUFFICES ASSUME IInv, ready, NEW i \in DOMAIN problem.requirements,
                      problem.requirements[i].kind = "required"
               PROVE  Proven(problem.requirements[i])
    BY DEF ReadyIsProven
  <2> DEFINE requirement == problem.requirements[i]
             answer == ResolveOne(requirement, problem.evidence)
  <2>1. i \in 1..Len(problem.requirements)
    BY ListsAreNumbered DEF IInv, WellPosed
  <2>2. resolutions[i] = answer /\ i \in DOMAIN resolutions /\ ~Blocking(resolutions[i])
    BY <2>1 DEF IInv, EvidenceIsHeard, ResolvedSoFar
  <2>3. answer.outcome = "satisfied"
    <3>1. answer.requirement = requirement
      BY DEF ResolveOne
    <3> HIDE DEF answer
    <3> QED  BY <2>2, <3>1 DEF Blocking
  <2>4. Decide(requirement, Claims(requirement, problem.evidence)) = "satisfied"
    BY <2>3 DEF ResolveOne
  <2>5. /\ IsList(problem.evidence)
        /\ \A k \in DOMAIN problem.evidence : problem.evidence[k].strength \in Strengths
    BY DEF IInv, WellPosed
  <2> HIDE DEF requirement
  <2>6. Proven(requirement)
    BY <2>4, <2>5, SatisfiedIsSupported
  <2> QED  BY <2>6 DEF requirement
<1> QED  BY <1>1, SpecIsSound, PTL

=============================================================================
