------------------------- MODULE RuntimeSessionProofs -------------------------
(***************************************************************************)
(* What a runtime answers, for any frames a host writes, any command the    *)
(* CLI is run for, and however the stream is cut.                          *)
(***************************************************************************)
EXTENDS RuntimeSession, SequenceTheorems, FiniteSetTheorems, WellFoundedInduction, TLAPS

-----------------------------------------------------------------------------
(* The inductive invariant                                                  *)

Kinds == ToSet(Events) \cup {"result", "invalid params", "not initialized", "method not found"}

Typed ==
  /\ frames \in Seq(Requests \cup Others)
  /\ received \in 0..2 * Len(frames)
  /\ decoded \in 0..Len(frames) /\ 2 * decoded <= received
  /\ taken \in [1..decoded -> Nat]
  /\ queue \in Seq(1..decoded)
  /\ initialized \in BOOLEAN /\ rejected \in BOOLEAN /\ alive \in BOOLEAN
  /\ exitCode \in {0, 1} /\ (rejected => exitCode = 1)
  /\ stream \in Seq([to : 1..decoded, kind : Kinds])
  /\ peer \in {"host", "calling", "waiting", "leaving", "left"}
  /\ calls \in Seq(Requests)
  /\ read \in 0..Len(stream)

(* The decoder stops in front of a header that is none.                     *)
Decoded == \A k \in 1..decoded : frames[k].kind # "bad header"

(* The chain holds, in order, requests behind all that were handled, and    *)
(* while it runs none is missing but those lost with their own chunk.       *)
Queued ==
  /\ \A i \in 1..Len(queue) :
       /\ IsRequest(queue[i])
       /\ \A j \in 1..i - 1 : queue[j] < queue[i]
       /\ \A m \in 1..Len(stream) : stream[m].to < queue[i]
  /\ alive /\ ~rejected => \A k \in 1..decoded :
       IsRequest(k) /\ ~Lost(k) => Answered(k) \/ \E i \in 1..Len(queue) : queue[i] = k
  /\ ~alive => queue = <<>>

(* What each message says of those in front of it, and of nothing behind    *)
(* it, so that it stays true of a stream that is cut.                       *)
Ordered(i) ==
  \A j \in 1..i - 1 : \/ stream[j].to < stream[i].to
                      \/ stream[j].to = stream[i].to /\ IsEvent(stream[j])
Told(i) ==
  stream[i].kind = "result" /\ frames[stream[i].to].method = "run/start" =>
    \A e \in ToSet(Events) : \E j \in 1..i - 1 :
      stream[j].to = stream[i].to /\ stream[j].kind = e
AnsweredBefore(k, i) == \E j \in 1..i - 1 : stream[j].to = k /\ ~IsEvent(stream[j])
Admitted(i) == Gated(i) => (stream[i].kind = "not initialized" <=> ~InitializedAt(i))
SkipsNone(i) ==
  \A k \in 1..stream[i].to - 1 : IsRequest(k) /\ ~Lost(k) => AnsweredBefore(k, i)
Entry(i) ==
  IsRequest(stream[i].to) /\ Ordered(i) /\ Admitted(i) /\ Told(i) /\ SkipsNone(i)
Written == \A i \in 1..Len(stream) : Entry(i)

(* #initialized stands for a good initialize answered.                      *)
Gate == alive /\ ~rejected => (initialized <=> InitializedAt(Len(stream) + 1))

(* Something was wrong when the exit code says so.                          *)
Blamed ==
  exitCode = 1 => \E k \in 1..Len(frames) : Broken(k) \/ (IsRequest(k) /\ frames[k].size = "long")

(* The CLI has read a result to every call but the last, and all it has not *)
(* read is about that one.                                                 *)
Succeeded(k, n) == \E i \in 1..n : stream[i].to = k /\ stream[i].kind = "result"
Calling ==
  /\ peer \in {"host", "calling", "waiting"} => outcome = "none"
  /\ peer \in {"calling", "waiting"} => Len(frames) + Len(calls) = 3
  /\ peer = "calling" =>
       calls # <<>> /\ read = Len(stream) /\ \A k \in 1..Len(frames) : Succeeded(k, read)
  /\ peer = "waiting" =>
       /\ Len(frames) # 0 /\ \A k \in 1..Len(frames) - 1 : Succeeded(k, read)
       /\ \A i \in read + 1 .. Len(stream) : stream[i].to = Len(frames)
  /\ outcome # "unexpected id"
  /\ outcome = "ok" => \A k \in 1..3 : Succeeded(k, Len(stream))

IInv == Typed /\ Decoded /\ Queued /\ Written /\ Gate /\ Blamed /\ Calling

-----------------------------------------------------------------------------
(* Sets of numbers in order                                                 *)

(* Sets of numbers that hold 0 and with a number the next one.              *)
LEMMA Counting ==
  ASSUME NEW N \in Nat, NEW S, 0 \in S, \A n \in 1..N : n - 1 \in S => n \in S
  PROVE  N \in S
<1> DEFINE R == OpToRel(<, Nat)
           T == {n \in 0..N : n \notin S}
<1>1. IsWellFoundedOn(R, Nat)
  BY NatLessThanWellFounded, Zenon
<1>2. \A i, j \in Nat : i < j => <<i, j>> \in R
  BY DEF OpToRel
<1> HIDE DEF R
<1> SUFFICES ASSUME T # {}
             PROVE  FALSE
  OBVIOUS
<1>3. PICK n \in T : \A m \in T : ~(<<m, n>> \in R)
  <2>1. T \in SUBSET Nat
    OBVIOUS
  <2> HIDE DEF T
  <2> QED  BY <1>1, <2>1, WFMin
<1>4. n \in 1..N /\ n - 1 \in 0..N /\ n - 1 < n /\ n \in Nat /\ n - 1 \in Nat
  <2>1. n \in 0..N /\ n # 0
    BY <1>3
  <2> QED  BY <2>1
<1>5. n - 1 \in S
  BY <1>2, <1>3, <1>4
<1> QED  BY <1>3, <1>4, <1>5

LEMMA LeastIn ==
  ASSUME NEW S \in SUBSET Nat, S # {}
  PROVE  Min(S) \in S /\ \A m \in S : Min(S) <= m
<1> DEFINE R == OpToRel(<, Nat)
<1>1. IsWellFoundedOn(R, Nat)
  BY NatLessThanWellFounded, Zenon
<1>2. \A i, j \in Nat : i < j => <<i, j>> \in R
  BY DEF OpToRel
<1> HIDE DEF R
<1>3. PICK n \in S : \A m \in S : ~(<<m, n>> \in R)
  BY <1>1, WFMin
<1>4. ASSUME NEW m \in S
      PROVE  n <= m
  <2>1. ~(m < n)
    BY <1>2, <1>3
  <2> QED  BY <2>1
<1> QED  BY <1>4 DEF Min

Enumeration(R) == [1..Cardinality(R) -> R]
Ascends(q) == \A i, j \in DOMAIN q : i < j => q[i] < q[j]

LEMMA InOrder ==
  ASSUME NEW N \in Nat, NEW R \in SUBSET (1..N)
  PROVE  \E q \in Enumeration(R) : Ascends(q)
<1> DEFINE S == {n \in Nat : \A Q \in SUBSET (1..n) : \E q \in Enumeration(Q) : Ascends(q)}
<1>1. 0 \in S
  <2> SUFFICES ASSUME NEW Q \in SUBSET (1..0)
               PROVE  \E q \in Enumeration(Q) : Ascends(q)
    OBVIOUS
  <2>1. Q = {} /\ 1..0 = {}
    OBVIOUS
  <2>2. Cardinality(Q) = 0
    BY <2>1, FS_EmptySet
  <2> DEFINE q == [i \in {} |-> 0]
  <2>3. q \in [{} -> Q] /\ DOMAIN q = {}
    OBVIOUS
  <2> HIDE DEF q
  <2> QED  BY <2>1, <2>2, <2>3 DEF Enumeration, Ascends
<1>2. ASSUME NEW n \in 1..N, n - 1 \in S
      PROVE  n \in S
  <2> SUFFICES ASSUME NEW Q \in SUBSET (1..n)
               PROVE  \E q \in Enumeration(Q) : Ascends(q)
    OBVIOUS
  <2> DEFINE P == Q \ {n}
  <2>1. P \in SUBSET (1..n - 1)
    OBVIOUS
  <2>2. IsFiniteSet(Q)
    <3>1. n \in Int /\ 1 \in Int
      OBVIOUS
    <3>2. IsFiniteSet(1..n)
      BY <3>1, FS_Interval
    <3> QED  BY <3>2, FS_Subset
  <2>3. Cardinality(P) = IF n \in Q THEN Cardinality(Q) - 1 ELSE Cardinality(Q)
    BY <2>2, FS_RemoveElement
  <2>4. Cardinality(Q) \in Nat /\ Cardinality(P) \in Nat
    BY <2>2, FS_RemoveElement, FS_CardinalityType
  <2>5. PICK p \in Enumeration(P) : Ascends(p)
    BY <1>2, <2>1
  <2> HIDE DEF P
  <2>6. CASE n \notin Q
    <3>1. P = Q
      BY <2>6 DEF P
    <3> QED  BY <2>5, <3>1
  <2>7. CASE n \in Q
    <3> DEFINE m == Cardinality(Q)
               q == [i \in 1..m |-> IF i = m THEN n ELSE p[i]]
    <3>1. Cardinality(P) = m - 1 /\ m \in Nat
      BY <2>3, <2>4, <2>7
    <3>2. \A i \in 1..m - 1 : p[i] \in P
      BY <2>5, <3>1 DEF Enumeration
    <3>3. P \subseteq Q /\ \A x \in P : x < n /\ x \in Nat
      BY <2>1 DEF P
    <3> HIDE DEF m
    <3>4. \A i \in 1..m : i = m \/ i \in 1..m - 1
      BY <3>1
    <3>5. q \in [1..m -> Q]
      BY <2>7, <3>2, <3>3, <3>4
    <3>6. ASSUME NEW i \in 1..m, NEW j \in 1..m, i < j
          PROVE  q[i] < q[j]
      <4>1. i \in 1..m - 1
        BY <3>1, <3>6
      <4>2. CASE j = m
        <5>1. i # m
          BY <3>1, <4>1
        <5>2. p[i] \in P
          BY <3>2, <4>1
        <5>3. p[i] < n
          BY <3>3, <5>2
        <5> QED  BY <4>2, <5>1, <5>3
      <4>3. CASE j # m
        <5>1. j \in 1..m - 1 /\ DOMAIN p = 1..m - 1
          BY <2>5, <3>1, <4>3 DEF Enumeration
        <5>2. p[i] < p[j]
          BY <2>5, <3>6, <4>1, <5>1 DEF Ascends
        <5> QED  BY <3>1, <4>1, <4>3, <5>2
      <4> QED  BY <4>2, <4>3
    <3>7. DOMAIN q = 1..m
      OBVIOUS
    <3> HIDE DEF q
    <3>8. Ascends(q)
      BY <3>6, <3>7 DEF Ascends
    <3> QED  BY <3>5, <3>8 DEF Enumeration, m
  <2> QED  BY <2>6, <2>7
<1> HIDE DEF S
<1>3. N \in S
  BY <1>1, <1>2, Counting
<1> QED  BY <1>3 DEF S

LEMMA EnumeratesAll ==
  ASSUME NEW R, IsFiniteSet(R), R \in SUBSET Nat,
         NEW q \in Enumeration(R), Ascends(q)
  PROVE  \A k \in R : \E i \in 1..Cardinality(R) : q[i] = k
<1> DEFINE m == Cardinality(R)
<1>1. m \in Nat
  BY FS_CardinalityType
<1>2. IsFiniteSet(1..m) /\ Cardinality(1..m) = m
  BY <1>1, FS_Interval
<1>3. q \in [1..m -> R] /\ \A i, j \in 1..m : i < j => q[i] < q[j]
  BY DEF Enumeration, Ascends
<1>4. \A i \in 1..m : q[i] \in Nat
  BY <1>3
<1> HIDE DEF m
<1>5. \A i, j \in 1..m : q[i] = q[j] => i = j
  BY <1>1, <1>3, <1>4
<1>6. q \in Injection(1..m, R)
  BY <1>3, <1>5 DEF Injection, IsInjective
<1>7. q \in Surjection(1..m, R)
  BY <1>2, <1>6, FS_Injection DEF m
<1> QED  BY <1>7 DEF Surjection, m

-----------------------------------------------------------------------------
(* What the decoder takes                                                   *)

LEMMA DispatchedIs ==
  ASSUME Typed, NEW ks \in SUBSET (1..Len(frames))
  PROVE  LET d == Dispatched(ks)
         IN /\ d \in Seq(ks)
            /\ \A i \in 1..Len(d) : IsRequest(d[i]) /\ \A j \in 1..i - 1 : d[j] < d[i]
            /\ \A k \in Valued(ks) : IsRequest(k) => \E i \in 1..Len(d) : d[i] = k
<1> DEFINE R == {k \in Valued(ks) : frames[k].kind = "request"}
           m == Cardinality(R)
           d == Dispatched(ks)
<1>1. Valued(ks) \subseteq ks
  BY DEF Valued
<1>2. R \in SUBSET ks /\ \A k \in R : IsRequest(k)
  BY <1>1 DEF IsRequest
<1>3. \A k \in Valued(ks) : IsRequest(k) => k \in R
  BY DEF IsRequest
<1>4. Len(frames) \in Nat
  BY DEF Typed
<1>5. d = CHOOSE q \in Enumeration(R) : Ascends(q)
  BY DEF Dispatched, Enumeration, Ascends
<1> HIDE DEF R, d
<1>6. IsFiniteSet(R) /\ m \in Nat
  <2>1. IsFiniteSet(1..Len(frames))
    BY <1>4, FS_Interval, 1 \in Int
  <2> QED  BY <1>2, <2>1, FS_Subset, FS_CardinalityType
<1>7. R \in SUBSET (1..Len(frames)) /\ R \in SUBSET Nat
  BY <1>2, <1>4
<1>8. d \in Enumeration(R) /\ Ascends(d)
  BY <1>4, <1>5, <1>7, InOrder
<1>9. \A k \in R : \E i \in 1..m : d[i] = k
  BY <1>6, <1>7, <1>8, EnumeratesAll
<1>10. d \in [1..m -> R] /\ \A i, j \in 1..m : i < j => d[i] < d[j]
  BY <1>8 DEF Enumeration, Ascends
<1> HIDE DEF m
<1>11. d \in Seq(R) /\ Len(d) = m
  BY <1>6, <1>10
<1>12. d \in Seq(ks)
  <2>1. d \in [1..m -> ks]
    BY <1>2, <1>10
  <2> QED  BY <1>6, <2>1
<1>13. ASSUME NEW i \in 1..Len(d)
       PROVE  IsRequest(d[i]) /\ \A j \in 1..i - 1 : d[j] < d[i]
  <2>1. d[i] \in R
    BY <1>10, <1>11
  <2>2. \A j \in 1..i - 1 : j \in 1..m /\ j < i
    BY <1>6, <1>11
  <2> QED  BY <1>2, <1>10, <1>11, <2>1, <2>2
<1>14. \A k \in Valued(ks) : IsRequest(k) => \E i \in 1..Len(d) : d[i] = k
  BY <1>3, <1>9, <1>11
<1> QED  BY <1>12, <1>13, <1>14 DEF d

(* One push, whatever it completes.                                         *)
Chains(d) ==
  /\ queue' = queue \o d
  /\ d \in Seq(decoded + 1 .. decoded')
  /\ \A i \in 1..Len(d) : IsRequest(d[i]) /\ \A j \in 1..i - 1 : d[j] < d[i]
  /\ \A k \in decoded + 1 .. decoded' :
       IsRequest(k) => Lost(k)' \/ \E i \in 1..Len(d) : d[i] = k
Decoding(to) ==
  /\ received' = to /\ decoded' \in decoded..Len(frames) /\ 2 * decoded' <= to
  /\ \A k \in decoded + 1 .. decoded' : frames[k].kind # "bad header"
  /\ exitCode' \in {0, 1}
  /\ exitCode = 1 => exitCode' = 1
  /\ exitCode' = 1 => exitCode = 1 \/ \E k \in 1..Len(frames) : Broken(k)

LEMMA NewlyTaken ==
  ASSUME Typed, NEW to, Push(to), decoded' \in Nat
  PROVE  /\ \A k \in decoded + 1 .. decoded' : taken'[k] = to
         /\ \A k \in 1..decoded : k <= decoded' => taken'[k] = taken[k]
         /\ to \in Nat => taken' \in [1..decoded' -> Nat]
<1>1. decoded \in Nat /\ DOMAIN taken = 1..decoded /\ \A k \in 1..decoded : taken[k] \in Nat
  BY DEF Typed
<1>2. taken' = [k \in 1..decoded' |-> IF k \in DOMAIN taken THEN taken[k] ELSE to]
  BY DEF Push
<1>3. \A k \in decoded + 1 .. decoded' : k \in 1..decoded' /\ k \notin 1..decoded
  BY <1>1
<1>4. \A k \in 1..decoded : k <= decoded' => k \in 1..decoded'
  BY <1>1
<1> QED  BY <1>1, <1>2, <1>3, <1>4

LEMMA PushWhole ==
  ASSUME Typed, NEW to \in 1..2 * Len(frames), Push(to), Breaking(to) = {}
  PROVE  Decoding(to) /\ \E d : Chains(d)
<1>1. /\ Len(frames) \in Nat /\ decoded \in 0..Len(frames) /\ 2 * decoded <= received
      /\ received \in Nat /\ received < to /\ to \in Nat /\ exitCode \in {0, 1}
  BY DEF Typed, Push
<1>2. PICK m \in Nat : to = 2 * m \/ to = 2 * m + 1
  <2>1. to \div 2 \in Nat /\ (to = 2 * (to \div 2) \/ to = 2 * (to \div 2) + 1)
    BY <1>1
  <2> QED  BY <2>1
<1>3. m \in decoded..Len(frames) /\ 2 * m <= to
  BY <1>1, <1>2
<1> DEFINE ks == Decodable(to)
<1>4. ks = decoded + 1 .. m
  BY <1>1, <1>2, <1>3 DEF Decodable, Complete
<1>5. Cardinality(ks) = m - decoded
  <2>1. decoded + 1 \in Int /\ m \in Int
    BY <1>1
  <2>2. Cardinality(decoded + 1 .. m) = IF decoded + 1 > m THEN 0 ELSE m - (decoded + 1) + 1
    BY <2>1, FS_Interval
  <2> QED  BY <1>1, <1>3, <1>4, <2>2
<1>6. /\ received' = to /\ decoded' = decoded + Cardinality(ks)
      /\ queue' = queue \o Dispatched(ks)
      /\ exitCode' = IF Valued(ks) = ks THEN exitCode ELSE 1
  BY DEF Push
<1>7. decoded' = m
  BY <1>1, <1>3, <1>5, <1>6
<1>8. \A k \in ks : k \in 1..Len(frames) /\ HeaderOf(k) <= to
  BY <1>1, <1>3, <1>4 DEF HeaderOf
<1>9. \A k \in ks : frames[k].kind # "bad header"
  <2>1. \A k \in ks : k \in decoded + 1 .. Len(frames)
    BY <1>1, <1>3, <1>4
  <2> QED  BY <1>8, <2>1 DEF Breaking, BreaksAt
<1>10. Valued(ks) # ks => \E k \in 1..Len(frames) : Broken(k)
  BY <1>8 DEF Valued, Broken
<1> HIDE DEF ks
<1>11. Decoding(to)
  BY <1>1, <1>3, <1>4, <1>6, <1>7, <1>9, <1>10 DEF Decoding
<1>12. ks \in SUBSET (1..Len(frames))
  BY <1>8
<1> DEFINE d == Dispatched(ks)
<1>13. /\ d \in Seq(ks)
       /\ \A i \in 1..Len(d) : IsRequest(d[i]) /\ \A j \in 1..i - 1 : d[j] < d[i]
       /\ \A k \in Valued(ks) : IsRequest(k) => \E i \in 1..Len(d) : d[i] = k
  BY <1>12, DispatchedIs
<1>14. ASSUME NEW k \in ks, IsRequest(k), k \notin Valued(ks)
       PROVE  Lost(k)'
  <2>1. PICK b \in ks : frames[b].kind = "bare value" /\ ~(k < b)
    BY <1>14 DEF Valued
  <2>2. b # k
    BY <1>14, <2>1 DEF IsRequest
  <2>3. b \in decoded + 1 .. decoded' /\ k \in decoded + 1 .. decoded' /\ decoded' \in Nat
    BY <1>2, <1>4, <1>7, <2>1
  <2>3a. b < k /\ b \in 1..decoded'
    <3>1. b \in Int /\ k \in Int /\ decoded \in Nat
      BY <1>1, <2>3
    <3>2. b < k \/ k < b
      BY <2>2, <3>1
    <3>3. b < k
      BY <2>1, <3>2, Zenon
    <3>4. b \in 1..decoded'
      BY <2>3, <3>1
    <3> QED  BY <3>3, <3>4
  <2>4. taken'[b] = to /\ taken'[k] = to
    BY <2>3, NewlyTaken
  <2>5. frames' = frames
    BY DEF Push
  <2> QED  BY <2>1, <2>3a, <2>4, <2>5 DEF Lost
<1>15. Chains(d)
  BY <1>4, <1>6, <1>7, <1>13, <1>14 DEF Chains
<1> QED  BY <1>11, <1>15

LEMMA PushBroken ==
  ASSUME Typed, NEW to \in 1..2 * Len(frames), Push(to), Breaking(to) # {}
  PROVE  Decoding(to) /\ \E d : Chains(d)
<1> DEFINE b == Min(Breaking(to))
<1>1. /\ Len(frames) \in Nat /\ decoded \in 0..Len(frames) /\ 2 * decoded <= received
      /\ received \in Nat /\ received < to /\ to \in Nat /\ exitCode \in {0, 1}
      /\ queue \in Seq(1..decoded)
  BY DEF Typed, Push
<1>2. Breaking(to) \in SUBSET Nat
  BY <1>1 DEF Breaking
<1>3. b \in Breaking(to) /\ \A k \in Breaking(to) : b <= k
  BY <1>2, LeastIn
<1> HIDE DEF b
<1>4. b \in decoded + 1 .. Len(frames) /\ BreaksAt(b, to)
  BY <1>3 DEF Breaking
<1>4a. b \in Nat /\ decoded + 1 <= b /\ b <= Len(frames)
  BY <1>1, <1>4
<1>5. 2 * b <= to + 1 /\ Broken(b)
  <2>1. 2 * b - 1 <= to \/ 2 * b <= to
    BY <1>4 DEF BreaksAt, HeaderOf, Complete
  <2>2. 2 * b <= to + 1
    <3>1. 2 * b \in Nat /\ to \in Nat
      BY <1>1, <1>4a
    <3> HIDE <1>1
    <3> QED  BY <2>1, <3>1
  <2>3. Broken(b)
    BY <1>4 DEF BreaksAt, Broken
  <2> QED  BY <2>2, <2>3
<1>6. /\ received' = to /\ decoded' = AfterBreak(b) /\ exitCode' = 1 /\ queue' = queue
  BY DEF Push, b
<1>7. /\ frames[b].kind = "bad header" => decoded' = b - 1
      /\ frames[b].kind # "bad header" => decoded' = b /\ 2 * b <= to
  BY <1>4, <1>6 DEF AfterBreak, BreaksAt, Complete
<1>8. ASSUME NEW k \in decoded + 1 .. b - 1
      PROVE  frames[k].kind # "bad header"
  <2>1. k \in decoded + 1 .. Len(frames) /\ k < b /\ HeaderOf(k) <= to
    BY <1>1, <1>4, <1>5 DEF HeaderOf
  <2>2. k \notin Breaking(to)
    BY <1>1, <1>3, <1>4, <2>1
  <2> QED  BY <2>1, <2>2 DEF Breaking, BreaksAt
<1>9. decoded' \in decoded..Len(frames) /\ 2 * decoded' <= to
  <2>1. CASE frames[b].kind = "bad header"
    <3>1. decoded' = b - 1
      BY <1>7, <2>1
    <3> QED  BY <1>4a, <1>1, <1>5, <3>1
  <2>2. CASE frames[b].kind # "bad header"
    <3>1. decoded' = b /\ 2 * b <= to
      BY <1>7, <2>2
    <3> QED  BY <1>4a, <1>1, <3>1
  <2> QED  BY <2>1, <2>2
<1>10. \A k \in decoded + 1 .. decoded' : frames[k].kind # "bad header"
  <2>1. ASSUME NEW k \in decoded + 1 .. decoded'
        PROVE  k \in decoded + 1 .. b - 1 \/ (k = b /\ frames[b].kind # "bad header")
    <3>1. CASE frames[b].kind = "bad header"
      <4>1. decoded' = b - 1
        BY <1>7, <3>1
      <4> QED  BY <1>4a, <1>1, <4>1
    <3>2. CASE frames[b].kind # "bad header"
      <4>1. decoded' = b
        BY <1>7, <3>2
      <4>2. k \in decoded + 1 .. b - 1 \/ k = b
        BY <1>4a, <1>1, <4>1
      <4> QED  BY <3>2, <4>2
    <3> QED  BY <3>1, <3>2
  <2> QED  BY <1>8, <2>1
<1>11. Decoding(to)
  <2>1. b \in 1..Len(frames)
    BY <1>1, <1>4
  <2> QED  BY <1>5, <1>6, <1>9, <1>10, <2>1 DEF Decoding
<1>12. ASSUME NEW k \in decoded + 1 .. decoded'
       PROVE  Lost(k)'
  <2>1. k \in 1..decoded' /\ decoded' \in Nat
    BY <1>1, <1>9
  <2>2. taken'[k] = to /\ frames' = frames
    BY <2>1, NewlyTaken DEF Push
  <2>3. CASE frames[b].kind = "bad header"
    <3>1. HeaderOf(b) <= to
      BY <1>4, <2>3 DEF BreaksAt
    <3>2. b \in DOMAIN frames
      <4>1. DOMAIN frames = 1..Len(frames)
        BY DEF Typed
      <4> QED  BY <1>1, <1>4a, <4>1
    <3> QED  BY <2>2, <2>3, <3>1, <3>2 DEF Lost, HeaderOf
  <2>4. CASE frames[b].kind # "bad header"
    <3>1. decoded' = b /\ frames[b].kind = "bad body"
      BY <1>4, <1>7, <2>4 DEF BreaksAt
    <3>2. b \in 1..decoded' /\ b \in decoded + 1 .. decoded'
      <4>1. decoded \in Nat
        BY <1>1
      <4>2. b \in 1..b /\ b \in decoded + 1 .. b
        BY <1>4a, <4>1
      <4>3. decoded' = b
        BY <3>1, Zenon
      <4> QED  BY <4>2, <4>3, Zenon
    <3>3. taken'[b] = to
      BY <2>1, <3>2, NewlyTaken
    <3> QED  BY <2>2, <3>1, <3>2, <3>3 DEF Lost
  <2> QED  BY <2>3, <2>4
<1>13. Chains(<<>>)
  BY <1>1, <1>6, <1>12 DEF Chains
<1> QED  BY <1>11, <1>13

LEMMA PushTakes ==
  ASSUME Typed, NEW to \in 1..2 * Len(frames), Push(to)
  PROVE  Decoding(to) /\ \E d : Chains(d)
BY PushWhole, PushBroken

-----------------------------------------------------------------------------
(* What is written stays                                                    *)

LEMMA EventKinds ==
  /\ ToSet(Events) = {"phase.started", "phase.completed", "run.completed"}
  /\ Len(Events) = 3
  /\ \A m : IsEvent(m) <=> m.kind \in ToSet(Events)
<1>1. Len(Events) = 3 /\ DOMAIN Events = 1..3
  BY DEF Events
<1>2. Events[1] = "phase.started" /\ Events[2] = "phase.completed" /\ Events[3] = "run.completed"
  BY DEF Events
<1>3. 1..3 = {1, 2, 3}
  OBVIOUS
<1>4. ToSet(Events) = {"phase.started", "phase.completed", "run.completed"}
  BY <1>1, <1>2, <1>3 DEF ToSet
<1>5. ASSUME NEW m
      PROVE  IsEvent(m) <=> m.kind \in ToSet(Events)
  <2>1. IsEvent(m) <=> \E i \in 1..3 : Events[i] = m.kind
    BY <1>1 DEF IsEvent, Contains
  <2> QED  BY <1>2, <1>3, <1>4, <2>1
<1> QED  BY <1>1, <1>4, <1>5

LEMMA Messaged ==
  ASSUME Typed
  PROVE  /\ Len(stream) \in Nat /\ Len(frames) \in Nat /\ Len(queue) \in Nat
         /\ decoded \in Nat /\ decoded <= Len(frames)
         /\ \A i \in 1..Len(stream) : stream[i].to \in 1..decoded /\ stream[i].kind \in Kinds
         /\ \A i \in 1..Len(queue) : queue[i] \in 1..decoded
<1>1. /\ stream \in Seq([to : 1..decoded, kind : Kinds]) /\ frames \in Seq(Requests \cup Others)
      /\ queue \in Seq(1..decoded) /\ decoded \in 0..Len(frames)
  BY DEF Typed
<1>2. Len(stream) \in Nat /\ Len(frames) \in Nat /\ Len(queue) \in Nat
  BY <1>1
<1>3. decoded \in Nat /\ decoded <= Len(frames)
  BY <1>1, <1>2
<1>4. ASSUME NEW i \in 1..Len(stream)
      PROVE  stream[i].to \in 1..decoded /\ stream[i].kind \in Kinds
  <2>1. stream[i] \in [to : 1..decoded, kind : Kinds]
    BY <1>1, ElementOfSeq, Zenon
  <2> QED  BY <2>1
<1>5. \A i \in 1..Len(queue) : queue[i] \in 1..decoded
  BY <1>1
<1> QED  BY <1>2, <1>3, <1>4, <1>5

(* The stream goes on, or is cut, behind n.                                 *)
SameUpTo(n) ==
  /\ \A j \in 1..n : stream'[j] = stream[j]
  /\ \A k \in 1..decoded : frames'[k] = frames[k]
  /\ \A k \in 1..decoded : Lost(k) => Lost(k)'

(* What is lost stays so, whatever is taken or written later.               *)
LEMMA LostStays ==
  ASSUME Typed, frames' \in Seq(Requests \cup Others), decoded' \in Nat, decoded <= decoded',
         \A k \in 1..decoded : taken'[k] = taken[k],
         Len(frames) <= Len(frames'), \A k \in 1..Len(frames) : frames'[k] = frames[k],
         NEW k \in 1..decoded, Lost(k)
  PROVE  Lost(k)'
<1>1. /\ decoded \in Nat /\ Len(frames) \in Nat /\ Len(frames') \in Nat /\ decoded <= Len(frames)
      /\ DOMAIN frames = 1..Len(frames) /\ DOMAIN frames' = 1..Len(frames')
  BY DEF Typed
<1>2. \A j \in 1..decoded : j \in 1..decoded' /\ frames'[j] = frames[j]
  BY <1>1
<1>3. \A j \in DOMAIN frames : j \in DOMAIN frames' /\ frames'[j] = frames[j]
  BY <1>1
<1>4. CASE \E j \in 1..decoded : /\ taken[j] = taken[k]
                               /\ \/ frames[j].kind = "bad body"
                                  \/ frames[j].kind = "bare value" /\ j < k
  BY <1>2, <1>4 DEF Lost
<1>5. CASE \E j \in DOMAIN frames : frames[j].kind = "bad header" /\ HeaderOf(j) <= taken[k]
  BY <1>3, <1>5 DEF Lost, HeaderOf
<1> QED  BY <1>4, <1>5 DEF Lost

LEMMA EntryKept ==
  ASSUME Typed, NEW n \in 0..Len(stream), SameUpTo(n), NEW i \in 1..n, Entry(i)
  PROVE  Entry(i)'
<1>1. Len(stream) \in Nat /\ \A j \in 1..Len(stream) : stream[j].to \in 1..decoded
  BY Messaged
<1>2. \A j \in 1..i : j \in 1..Len(stream) /\ stream'[j] = stream[j] /\ j \in 1..n
  BY <1>1 DEF SameUpTo
<1>3. \A j \in 1..i : frames'[stream[j].to] = frames[stream[j].to]
  BY <1>1, <1>2 DEF SameUpTo
<1>4. i \in 1..i /\ \A j \in 1..i - 1 : j \in 1..i
  BY <1>1
<1>5. IsRequest(stream[i].to)' /\ Ordered(i)'
  BY <1>2, <1>3, <1>4 DEF Entry, Ordered, IsRequest, IsEvent
<1>6. Gated(i)' <=> Gated(i)
  BY <1>2, <1>3, <1>4 DEF Gated
<1>7. InitializedAt(i)' <=> InitializedAt(i)
  BY <1>2, <1>3, <1>4 DEF InitializedAt
<1>8. Admitted(i)'
  BY <1>2, <1>4, <1>6, <1>7 DEF Entry, Admitted
<1>9. Told(i)'
  <2>1. Told(i)
    BY DEF Entry
  <2> QED  BY <1>2, <1>3, <1>4, <2>1 DEF Told
<1>10. SkipsNone(i)'
  <2>1. SkipsNone(i)
    BY DEF Entry
  <2>2. ASSUME NEW k \in 1..stream[i].to - 1, IsRequest(k)', ~Lost(k)'
        PROVE  AnsweredBefore(k, i)'
    <3>1. k \in 1..decoded
      <4>1. stream[i].to \in 1..decoded /\ decoded \in Nat
        BY <1>2, <1>4, Messaged
      <4> QED  BY <2>2, <4>1
    <3>2. IsRequest(k) /\ ~Lost(k)
      BY <2>2, <3>1 DEF SameUpTo, IsRequest
    <3>3. AnsweredBefore(k, i)
      BY <2>1, <3>2 DEF SkipsNone
    <3> QED  BY <1>2, <1>4, <3>3 DEF AnsweredBefore, IsEvent
  <2> QED  BY <1>2, <1>4, <2>2 DEF SkipsNone
<1> QED  BY <1>5, <1>8, <1>9, <1>10 DEF Entry

LEMMA AllKept ==
  ASSUME Typed, Written, SameUpTo(Len(stream)), Len(stream') = Len(stream)
  PROVE  Written'
<1>1. Len(stream) \in 0..Len(stream)
  BY Messaged
<1>2. \A i \in 1..Len(stream) : Entry(i)'
  BY <1>1, EntryKept DEF Written
<1> QED  BY <1>2 DEF Written

LEMMA InitIInv == Init => IInv
<1> SUFFICES ASSUME Init
             PROVE  IInv
  OBVIOUS
<1>1. frames \in Seq(Requests \cup Others) /\ calls \in Seq(Requests)
  <2>1. CASE frames \in Scripts /\ calls = <<>>
    BY <2>1, SessionAssumption
  <2>2. CASE frames = <<>> /\ \E command \in Commands : calls = <<Handshake, command, Goodbye>>
    <3>1. Handshake \in Requests /\ Goodbye \in Requests
      BY DEF Handshake, Goodbye, Request, Requests, Methods
    <3>2. PICK command \in Commands : calls = <<Handshake, command, Goodbye>>
      BY <2>2
    <3>3. command \in Requests
      BY SessionAssumption
    <3> QED  BY <2>2, <3>1, <3>2, <3>3
  <2> QED  BY <2>1, <2>2 DEF Init
<1>2. Len(frames) \in Nat
  BY <1>1
<1>3. Typed
  <2>1. queue \in Seq(1..decoded) /\ stream \in Seq([to : 1..decoded, kind : Kinds])
    BY DEF Init
  <2>2. Len(stream) = 0
    BY EmptySeq DEF Init
  <2>3. received = 0 /\ decoded = 0 /\ read = 0
    BY DEF Init
  <2>4. /\ received \in 0..2 * Len(frames) /\ decoded \in 0..Len(frames)
        /\ 2 * decoded <= received /\ read \in 0..Len(stream)
    BY <1>2, <2>2, <2>3
  <2>5. /\ initialized \in BOOLEAN /\ rejected \in BOOLEAN /\ alive \in BOOLEAN
        /\ exitCode \in {0, 1} /\ ~rejected
        /\ peer \in {"host", "calling", "waiting", "leaving", "left"}
    BY DEF Init
  <2>6. taken \in [1..decoded -> Nat]
    <3>1. taken = <<>> /\ 1..decoded = {}
      BY DEF Init
    <3> QED  BY <3>1
  <2> QED  BY <1>1, <2>1, <2>4, <2>5, <2>6 DEF Typed
<1>4. Decoded /\ Queued /\ Written /\ Gate /\ Blamed
  <2>1. 1..0 = {} /\ Len(stream) = 0 /\ Len(queue) = 0 /\ decoded = 0 /\ ~initialized /\ exitCode = 0
    BY DEF Init
  <2>2. (Len(stream) + 1) - 1 = 0
    BY <2>1
  <2>3. Gate
    BY <2>1, <2>2 DEF Gate, InitializedAt
  <2> QED  BY <2>1, <2>3 DEF Init, Decoded, Queued, Written, Blamed
<1>5. Calling
  <2>1. CASE peer = "host"
    BY <2>1 DEF Init, Calling
  <2>2. CASE peer # "host"
    <3>1. peer = "calling" /\ frames = <<>> /\ Len(calls) = 3 /\ calls # <<>>
      BY <2>2 DEF Init
    <3> QED  BY <3>1 DEF Init, Calling
  <2> QED  BY <2>1, <2>2
<1> QED  BY <1>3, <1>4, <1>5 DEF IInv

-----------------------------------------------------------------------------
(* The steps                                                                *)

LEMMA PushStep ==
  ASSUME IInv, NEW to \in 1..2 * Len(frames), Push(to)
  PROVE  IInv'
<1> USE DEF IInv
<1>1. /\ UNCHANGED <<frames, initialized, rejected, stream, alive, peer, calls, read, outcome>>
      /\ alive
  BY DEF Push
<1>2. PICK d : Chains(d)
  BY PushTakes
<1>3. Decoding(to)
  BY PushTakes
<1>4. /\ Len(stream) \in Nat /\ Len(frames) \in Nat /\ Len(queue) \in Nat
      /\ decoded \in Nat /\ decoded <= Len(frames)
  BY Messaged
<1>4a. /\ \A i \in 1..Len(stream) : stream[i].to \in 1..decoded /\ stream[i].kind \in Kinds
      /\ \A i \in 1..Len(queue) : queue[i] \in 1..decoded
  BY Messaged
<1>5. /\ decoded' \in Nat /\ decoded <= decoded' /\ decoded' <= Len(frames)
      /\ 2 * decoded' <= to /\ received' = to
  <2>1. decoded' \in decoded..Len(frames)
    BY <1>3 DEF Decoding
  <2>2. 2 * decoded' <= to /\ received' = to
    BY <1>3 DEF Decoding
  <2>3. decoded' \in Nat /\ decoded <= decoded' /\ decoded' <= Len(frames)
    BY <1>4, <2>1
  <2> QED  BY <2>2, <2>3
<1>5a. /\ \A k \in decoded + 1 .. decoded' : frames[k].kind # "bad header"
      /\ exitCode' \in {0, 1} /\ (exitCode' = 0 => exitCode = 0)
  BY <1>3 DEF Decoding, Typed
<1>6. 1..decoded \subseteq 1..decoded' /\ decoded + 1 .. decoded' \subseteq 1..decoded'
  BY <1>4, <1>5
<1>7. /\ queue \in Seq(1..decoded') /\ d \in Seq(1..decoded')
      /\ queue' = queue \o d
  <2>1. queue \in Seq(1..decoded) /\ d \in Seq(decoded + 1 .. decoded')
    BY <1>2 DEF Chains, Typed
  <2> QED  BY <1>2, <1>6, <2>1, SeqMonotonic DEF Chains
<1> DEFINE n == Len(queue)
<1>8. /\ queue' \in Seq(1..decoded') /\ Len(d) \in Nat
      /\ Len(queue') = n + Len(d)
      /\ \A i \in 1..n : queue'[i] = queue[i]
      /\ \A i \in 1..Len(d) : queue'[n + i] = d[i]
  <2>1. /\ queue' \in Seq(1..decoded') /\ Len(queue') = n + Len(d)
        /\ \A i \in 1 .. n + Len(d) : queue'[i] = IF i <= n THEN queue[i] ELSE d[i - n]
    BY <1>7, ConcatProperties
  <2>2. Len(d) \in Nat
    BY <1>7
  <2>3. \A i \in 1..n : i \in 1 .. n + Len(d) /\ i <= n
    BY <1>4, <2>2
  <2>4. ASSUME NEW i \in 1..Len(d)
        PROVE  n + i \in 1 .. n + Len(d) /\ ~(n + i <= n) /\ (n + i) - n = i
    BY <1>4, <2>2
  <2> QED  BY <2>1, <2>2, <2>3, <2>4
<1>9. /\ \A i \in 1..Len(d) : /\ IsRequest(d[i]) /\ d[i] \in decoded + 1 .. decoded'
                              /\ \A j \in 1..i - 1 : d[j] < d[i]
      /\ \A k \in decoded + 1 .. decoded' :
           IsRequest(k) => Lost(k)' \/ \E i \in 1..Len(d) : d[i] = k
  <2>1. d \in Seq(decoded + 1 .. decoded')
    BY <1>2 DEF Chains
  <2> QED  BY <1>2, <2>1, ElementOfSeq DEF Chains
<1>9a. /\ taken' \in [1..decoded' -> Nat]
       /\ \A k \in 1..decoded : Lost(k) => Lost(k)'
  <2>1. to \in Nat
    BY <1>4
  <2>2. \A k \in 1..decoded : k <= decoded'
    BY <1>4, <1>5
  <2>3. taken' \in [1..decoded' -> Nat] /\ \A k \in 1..decoded : taken'[k] = taken[k]
    BY <1>5, <2>1, <2>2, NewlyTaken
  <2>4. /\ frames' \in Seq(Requests \cup Others) /\ Len(frames) <= Len(frames')
        /\ \A k \in 1..Len(frames) : frames'[k] = frames[k]
    BY <1>1, <1>4 DEF Typed
  <2> QED  BY <1>5, <2>3, <2>4, LostStays
<1>10. Typed'
  <2>1. stream \in Seq([to : 1..decoded', kind : Kinds])
    <3>1. [to : 1..decoded, kind : Kinds] \subseteq [to : 1..decoded', kind : Kinds]
      BY <1>6
    <3>2. stream \in Seq([to : 1..decoded, kind : Kinds])
      BY DEF Typed
    <3> QED  BY <3>1, <3>2, SeqMonotonic
  <2>2. received' \in 0..2 * Len(frames) /\ decoded' \in 0..Len(frames)
    BY <1>4, <1>5
  <2>3. rejected => exitCode' = 1
    BY <1>5a DEF Typed
  <2> QED  BY <1>1, <1>5, <1>5a, <1>8, <1>9a, <2>1, <2>2, <2>3 DEF Typed
<1>11. Decoded'
  <2>1. \A k \in 1..decoded' : k \in 1..decoded \/ k \in decoded + 1 .. decoded'
    BY <1>4, <1>5
  <2> QED  BY <1>1, <1>5a, <2>1 DEF Decoded
<1>12. Queued'
  <2>1. ASSUME NEW i \in 1..Len(queue')
        PROVE  /\ IsRequest(queue[i])'
               /\ \A j \in 1..i - 1 : queue'[j] < queue'[i]
               /\ \A m \in 1..Len(stream') : stream'[m].to < queue'[i]
    <3>1. CASE i \in 1..n
      <4>1. /\ IsRequest(queue[i])
            /\ \A j \in 1..i - 1 : queue[j] < queue[i]
            /\ \A m \in 1..Len(stream) : stream[m].to < queue[i]
        BY <3>1 DEF Queued
      <4>2. queue'[i] = queue[i] /\ \A j \in 1..i - 1 : queue'[j] = queue[j]
        <5>1. \A j \in 1..i - 1 : j \in 1..n
          BY <1>4, <3>1
        <5> QED  BY <1>8, <3>1, <5>1
      <4> QED  BY <1>1, <4>1, <4>2 DEF IsRequest
    <3>2. CASE i \notin 1..n
      <4>1. PICK h \in 1..Len(d) : i = n + h
        <5>1. i - n \in 1..Len(d) /\ i = n + (i - n)
          BY <1>4, <1>8, <3>2
        <5> QED  BY <5>1
      <4>2. /\ queue'[i] = d[h] /\ IsRequest(d[h]) /\ d[h] \in decoded + 1 .. decoded'
            /\ \A j \in 1..h - 1 : d[j] < d[h]
        BY <1>8, <1>9, <4>1
      <4>3. queue'[i] \in Nat /\ decoded < queue'[i]
        <5>1. queue'[i] \in decoded + 1 .. decoded'
          BY <4>2
        <5> QED  BY <1>4, <1>5, <5>1
      <4>4. ASSUME NEW j \in 1..i - 1
            PROVE  queue'[j] < queue'[i]
        <5>1. CASE j \in 1..n
          <6>1. queue'[j] = queue[j] /\ queue[j] \in 1..decoded
            BY <1>4a, <1>8, <5>1
          <6>2. queue'[j] \in Nat /\ queue'[j] <= decoded
            BY <1>4, <6>1
          <6> QED  BY <1>4, <4>3, <6>2
        <5>2. CASE j \notin 1..n
          <6> HIDE DEF n
          <6>1. n \in Nat /\ h \in Nat /\ h <= Len(d) /\ Len(d) \in Nat /\ i = n + h
            BY <1>4, <1>8, <4>1 DEF n
          <6>2. PICK g \in Nat : g # 0 /\ j = n + g
            <7>1. j \in Nat /\ n < j
              BY <5>2, <6>1
            <7> QED  BY <6>1, <7>1
          <6>3. g \in 1..h - 1 /\ g \in 1..Len(d)
            BY <6>1, <6>2
          <6>4. queue'[j] = d[g]
            BY <1>8, <6>2, <6>3
          <6>5. d[g] < d[h]
            BY <4>2, <6>3
          <6> QED  BY <4>2, <6>4, <6>5
        <5> QED  BY <5>1, <5>2
      <4>5. ASSUME NEW m \in 1..Len(stream')
            PROVE  stream'[m].to < queue'[i]
        <5>1. stream'[m].to \in 1..decoded
          BY <1>1, <1>4a
        <5>2. stream'[m].to \in Nat /\ stream'[m].to <= decoded
          BY <1>4, <5>1
        <5> QED  BY <1>4, <4>3, <5>2, SMTT(30)
      <4>6. IsRequest(queue[i])'
        BY <1>1, <4>2 DEF IsRequest
      <4> QED  BY <4>4, <4>5, <4>6
    <3> QED  BY <3>1, <3>2
  <2>2. ASSUME ~rejected', NEW k \in 1..decoded', IsRequest(k)', ~Lost(k)'
        PROVE  Answered(k)' \/ \E i \in 1..Len(queue') : queue'[i] = k
    <3>1. IsRequest(k)
      BY <1>1, <2>2 DEF IsRequest
    <3>2. CASE k \in 1..decoded
      <4>1. Answered(k) \/ \E i \in 1..n : queue[i] = k
        BY <1>1, <1>9a, <2>2, <3>1, <3>2 DEF Queued
      <4>2. Answered(k) => Answered(k)'
        BY <1>1 DEF Answered, AnswersTo, IsEvent
      <4>3. \A i \in 1..n : i \in 1..Len(queue')
        BY <1>4, <1>8
      <4> QED  BY <1>8, <4>1, <4>2, <4>3
    <3>3. CASE k \notin 1..decoded
      <4>1. k \in decoded + 1 .. decoded'
        BY <1>4, <1>5, <3>3
      <4>2. PICK h \in 1..Len(d) : d[h] = k
        BY <1>9, <2>2, <3>1, <4>1
      <4>3. n + h \in 1..Len(queue') /\ queue'[n + h] = k
        BY <1>4, <1>8, <4>2
      <4> QED  BY <4>3
    <3> QED  BY <3>2, <3>3
  <2> QED  BY <1>1, <2>1, <2>2 DEF Queued
<1>13. Written'
  BY <1>1, <1>9a, AllKept DEF SameUpTo
<1>14. Gate'
  <2>1. InitializedAt(Len(stream) + 1)' <=> InitializedAt(Len(stream) + 1)
    BY <1>1 DEF InitializedAt
  <2> QED  BY <1>1, <2>1 DEF Gate
<1>15. Blamed'
  BY <1>1, <1>3 DEF Blamed, Decoding, Broken, IsRequest
<1>16. Calling'
  BY <1>1 DEF Calling, Succeeded
<1> QED  BY <1>10, <1>11, <1>12, <1>13, <1>14, <1>15, <1>16

(* Whatever leaves the stream and the frames alone.                         *)
LEMMA ServerKept ==
  ASSUME IInv,
         UNCHANGED <<frames, received, decoded, taken, initialized, rejected, exitCode, stream>>,
         alive' \in BOOLEAN, alive' => alive,
         \/ queue' = queue /\ alive' = alive
         \/ queue # <<>> /\ queue' = Tail(queue) /\ rejected /\ alive'
         \/ queue' = <<>> /\ ~alive'
  PROVE  Decoded' /\ Queued' /\ Written' /\ Gate' /\ Blamed' /\ queue' \in Seq(1..decoded)
<1> USE DEF IInv
<1>1. queue \in Seq(1..decoded) /\ Len(stream) \in Nat /\ Len(queue) \in Nat
  BY Messaged DEF Typed
<1>2. Decoded' /\ Blamed'
  BY DEF Decoded, Blamed, Broken, IsRequest
<1>3. Gate'
  <2>1. InitializedAt(Len(stream) + 1)' <=> InitializedAt(Len(stream) + 1)
    BY DEF InitializedAt
  <2> QED  BY <2>1 DEF Gate
<1>4. (\A k : Lost(k)' <=> Lost(k)) /\ Written'
  <2>1. \A k : Lost(k)' <=> Lost(k)
    BY DEF Lost, HeaderOf
  <2> QED  BY <2>1, AllKept DEF SameUpTo
<1>5. CASE queue' = queue /\ alive' = alive
  <2>1. \A k \in 1..decoded : Answered(k)' <=> Answered(k)
    BY DEF Answered, AnswersTo, IsEvent
  <2>2. Queued'
    BY <1>4, <1>5, <2>1 DEF Queued, IsRequest
  <2> QED  BY <1>1, <1>2, <1>3, <1>4, <1>5, <2>2
<1>6. CASE queue # <<>> /\ queue' = Tail(queue) /\ rejected /\ alive'
  <2>1. /\ queue' \in Seq(1..decoded) /\ Len(queue') = Len(queue) - 1
        /\ \A i \in 1..Len(queue') : queue'[i] = queue[i + 1]
    BY <1>1, <1>6, HeadTailProperties
  <2>2. ASSUME NEW i \in 1..Len(queue')
        PROVE  /\ IsRequest(queue[i])'
               /\ \A j \in 1..i - 1 : queue'[j] < queue'[i]
               /\ \A m \in 1..Len(stream') : stream'[m].to < queue'[i]
    <3>1. i + 1 \in 1..Len(queue) /\ \A j \in 1..i - 1 : j + 1 \in 1..(i + 1) - 1 /\ j \in 1..Len(queue')
      BY <1>1, <2>1
    <3>2. /\ IsRequest(queue[i + 1])
          /\ \A j \in 1..(i + 1) - 1 : queue[j] < queue[i + 1]
          /\ \A m \in 1..Len(stream) : stream[m].to < queue[i + 1]
      BY <3>1 DEF Queued
    <3>3. queue'[i] = queue[i + 1] /\ \A j \in 1..i - 1 : queue'[j] = queue[j + 1]
      BY <2>1, <3>1
    <3> QED  BY <3>1, <3>2, <3>3 DEF IsRequest
  <2>3. Queued'
    BY <1>6, <2>2 DEF Queued
  <2> QED  BY <1>2, <1>3, <1>4, <2>1, <2>3
<1>7. CASE queue' = <<>> /\ ~alive'
  <2>1. Len(queue') = 0 /\ queue' \in Seq(1..decoded)
    BY <1>7, EmptySeq
  <2>2. Queued'
    BY <1>7, <2>1 DEF Queued
  <2> QED  BY <1>2, <1>3, <1>4, <2>1, <2>2
<1> QED  BY <1>5, <1>6, <1>7

LEMMA SkipStep ==
  ASSUME IInv, Skip
  PROVE  IInv'
<1> USE DEF IInv
<1>1. /\ UNCHANGED <<frames, received, decoded, taken, initialized, rejected, exitCode, stream, alive,
                     peer, calls, read, outcome>>
      /\ alive /\ rejected /\ queue # <<>> /\ queue' = Tail(queue)
  BY DEF Skip, input
<1>2. alive' \in BOOLEAN
  BY <1>1 DEF Typed
<1>3. Decoded' /\ Queued' /\ Written' /\ Gate' /\ Blamed' /\ queue' \in Seq(1..decoded)
  BY <1>1, <1>2, ServerKept
<1>4. Typed'
  BY <1>1, <1>3 DEF Typed
<1>5. Calling'
  BY <1>1 DEF Calling, Succeeded
<1> QED  BY <1>3, <1>4, <1>5

LEMMA LoseStep ==
  ASSUME IInv, Lose
  PROVE  IInv'
<1> USE DEF IInv
<1>1. /\ UNCHANGED <<frames, received, decoded, taken, queue, initialized, rejected, exitCode, stream,
                     alive, calls, read>>
      /\ peer' = "leaving" /\ outcome' = "lost"
  BY DEF Lose, End, input, server
<1>2. alive' \in BOOLEAN
  BY <1>1 DEF Typed
<1>3. Decoded' /\ Queued' /\ Written' /\ Gate' /\ Blamed' /\ queue' \in Seq(1..decoded)
  BY <1>1, <1>2, ServerKept
<1>4. Typed'
  BY <1>1, <1>3 DEF Typed
<1>5. Calling'
  BY <1>1 DEF Calling
<1> QED  BY <1>3, <1>4, <1>5

LEMMA LeaveStep ==
  ASSUME IInv, Leave
  PROVE  IInv'
<1> USE DEF IInv
<1>1. /\ UNCHANGED <<frames, received, decoded, taken, initialized, rejected, exitCode, stream,
                     calls, read, outcome>>
      /\ peer = "leaving" /\ peer' = "left" /\ alive' = FALSE /\ queue' = <<>>
  BY DEF Leave, input
<1>2. Decoded' /\ Queued' /\ Written' /\ Gate' /\ Blamed' /\ queue' \in Seq(1..decoded)
  BY <1>1, ServerKept
<1>3. Typed'
  BY <1>1, <1>2 DEF Typed
<1>4. Calling'
  BY <1>1 DEF Calling, Succeeded
<1> QED  BY <1>2, <1>3, <1>4

LEMMA ReadStep ==
  ASSUME IInv, Read
  PROVE  IInv'
<1> USE DEF IInv
<1>1. /\ UNCHANGED <<frames, received, decoded, taken, queue, initialized, rejected, exitCode, stream,
                     alive, calls>>
      /\ peer = "waiting" /\ read < Len(stream) /\ read' = read + 1
  BY DEF Read, input, server
<1>2. alive' \in BOOLEAN
  BY <1>1 DEF Typed
<1>3. Decoded' /\ Queued' /\ Written' /\ Gate' /\ Blamed' /\ queue' \in Seq(1..decoded)
  BY <1>1, <1>2, ServerKept
<1>4. /\ Len(stream) \in Nat /\ read \in Nat /\ Len(frames) \in Nat /\ Len(calls) \in Nat
  BY Messaged DEF Typed
<1>5. /\ read + 1 \in 1..Len(stream) /\ read + 1 \in read + 1 .. Len(stream)
      /\ read' \in 0..Len(stream)
  BY <1>1, <1>4
<1> DEFINE message == stream[read + 1]
<1>6. /\ message.to = Len(frames) /\ Len(frames) # 0
      /\ \A k \in 1..Len(frames) - 1 : Succeeded(k, read)
      /\ \A i \in read + 1 .. Len(stream) : stream[i].to = Len(frames)
      /\ outcome = "none" /\ Len(frames) + Len(calls) = 3
  BY <1>1, <1>5 DEF Calling
<1>7. \/ IsEvent(message) /\ UNCHANGED <<peer, outcome>>
      \/ ~IsEvent(message) /\ message.kind # "result" /\ End("refused")
      \/ /\ ~IsEvent(message) /\ message.kind = "result"
         /\ IF calls = <<>> THEN End("ok") ELSE peer' = "calling" /\ UNCHANGED outcome
  BY <1>6 DEF Read, Answers
<1>8. \A k : Succeeded(k, read) => Succeeded(k, read + 1) /\ Succeeded(k, Len(stream))
  <2>1. \A i \in 1..read : i \in 1..read + 1 /\ i \in 1..Len(stream)
    BY <1>1, <1>4
  <2> QED  BY <2>1 DEF Succeeded
<1>9. \A k, n : Succeeded(k, n)' <=> Succeeded(k, n)
  BY <1>1 DEF Succeeded
<1>10. CASE IsEvent(message) /\ UNCHANGED <<peer, outcome>>
  <2>1. \A i \in read' + 1 .. Len(stream) : i \in read + 1 .. Len(stream)
    BY <1>1, <1>4
  <2>2. Calling'
    BY <1>1, <1>6, <1>8, <1>9, <1>10, <2>1 DEF Calling
  <2>3. Typed'
    BY <1>1, <1>3, <1>5, <1>10 DEF Typed
  <2> QED  BY <1>3, <2>2, <2>3
<1>11. CASE End("refused")
  <2>1. peer' = "leaving" /\ outcome' = "refused"
    BY <1>11 DEF End
  <2>2. Calling'
    BY <2>1 DEF Calling
  <2>3. Typed'
    BY <1>1, <1>3, <1>5, <2>1 DEF Typed
  <2> QED  BY <1>3, <2>2, <2>3
<1>12. CASE /\ message.kind = "result" /\ ~IsEvent(message)
            /\ IF calls = <<>> THEN End("ok") ELSE peer' = "calling" /\ UNCHANGED outcome
  <2>1. Succeeded(Len(frames), read + 1) /\ Succeeded(Len(frames), Len(stream))
    <3>1. read + 1 \in 1..read + 1
      BY <1>4
    <3> QED  BY <1>5, <1>6, <1>12, <3>1 DEF Succeeded
  <2>2. \A k \in 1..Len(frames) : k \in 1..Len(frames) - 1 \/ k = Len(frames)
    BY <1>4
  <2>3. \A k \in 1..Len(frames) : Succeeded(k, read + 1) /\ Succeeded(k, Len(stream))
    BY <1>6, <1>8, <2>1, <2>2
  <2>4. CASE calls = <<>>
    <3>1. peer' = "leaving" /\ outcome' = "ok"
      BY <1>12, <2>4 DEF End
    <3>2. Len(frames) = 3
      <4>1. Len(calls) = 0
        BY <2>4
      <4> QED  BY <1>4, <1>6, <4>1
    <3>3. Calling'
      BY <1>1, <1>9, <2>3, <3>1, <3>2 DEF Calling
    <3>4. Typed'
      BY <1>1, <1>3, <1>5, <3>1 DEF Typed
    <3> QED  BY <1>3, <3>3, <3>4
  <2>5. CASE calls # <<>>
    <3>1. peer' = "calling" /\ outcome' = outcome
      BY <1>12, <2>5
    <3>2. read + 1 = Len(stream)
      <4> SUFFICES ASSUME read + 1 # Len(stream)
                   PROVE  FALSE
        OBVIOUS
      <4>1. /\ read + 2 \in 1..Len(stream) /\ read + 2 \in read + 1 .. Len(stream)
            /\ read + 1 \in 1..(read + 2) - 1
        BY <1>1, <1>4
      <4>2. Ordered(read + 2)
        BY <4>1 DEF Written, Entry
      <4>3. stream[read + 1].to < stream[read + 2].to \/ IsEvent(stream[read + 1])
        BY <4>1, <4>2 DEF Ordered
      <4>4. stream[read + 2].to = Len(frames)
        BY <1>6, <4>1
      <4> QED  BY <1>4, <1>6, <1>12, <4>3, <4>4
    <3>3. Calling'
      BY <1>1, <1>6, <1>9, <2>3, <2>5, <3>1, <3>2 DEF Calling
    <3>4. Typed'
      BY <1>1, <1>3, <1>5, <3>1 DEF Typed
    <3> QED  BY <1>3, <3>3, <3>4
  <2> QED  BY <2>4, <2>5
<1> QED  BY <1>7, <1>10, <1>11, <1>12

LEMMA CallStep ==
  ASSUME IInv, Call
  PROVE  IInv'
<1> USE DEF IInv
<1>1. /\ UNCHANGED <<received, decoded, taken, queue, initialized, rejected, exitCode, stream, alive, read>>
      /\ peer = "calling" /\ calls' = Tail(calls)
  BY DEF Call, server
<1>2. alive' \in BOOLEAN
  BY <1>1 DEF Typed
<1>3. /\ calls # <<>> /\ read = Len(stream) /\ Len(frames) + Len(calls) = 3 /\ outcome = "none"
      /\ \A k \in 1..Len(frames) : Succeeded(k, read)
  BY <1>1 DEF Calling
<1>4. /\ Head(calls) \in Requests /\ calls' \in Seq(Requests) /\ Len(calls') = Len(calls) - 1
      /\ Len(calls) \in Nat
  <2>1. calls \in Seq(Requests)
    BY DEF Typed
  <2> QED  BY <1>1, <1>3, <2>1, HeadTailProperties
<1>5. CASE UNCHANGED frames /\ End("not written")
  <2>1. peer' = "leaving" /\ outcome' = "not written" /\ frames' = frames
    BY <1>5 DEF End
  <2>2. Decoded' /\ Queued' /\ Written' /\ Gate' /\ Blamed' /\ queue' \in Seq(1..decoded)
    BY <1>1, <1>2, <2>1, ServerKept
  <2>3. Typed'
    BY <1>1, <1>4, <2>1, <2>2 DEF Typed
  <2>4. Calling'
    BY <2>1 DEF Calling
  <2> QED  BY <2>2, <2>3, <2>4
<1>6. CASE /\ frames' = Append(frames, Head(calls))
           /\ peer' = "waiting" /\ UNCHANGED outcome
  <2>1. /\ Len(stream) \in Nat /\ Len(frames) \in Nat /\ Len(queue) \in Nat
        /\ decoded \in Nat /\ decoded <= Len(frames)
    BY Messaged
  <2>2. /\ \A i \in 1..Len(stream) : stream[i].to \in 1..decoded
        /\ \A i \in 1..Len(queue) : queue[i] \in 1..decoded
    BY Messaged
  <2>3. /\ frames' \in Seq(Requests \cup Others) /\ Len(frames') = Len(frames) + 1
        /\ \A k \in 1..Len(frames) : frames'[k] = frames[k]
    <3>1. frames \in Seq(Requests \cup Others) /\ Head(calls) \in Requests \cup Others
      BY <1>4 DEF Typed
    <3> QED  BY <1>6, <3>1, AppendProperties
  <2>4. \A k \in 1..decoded : frames'[k] = frames[k] /\ k \in 1..Len(frames)
    BY <2>1, <2>3
  <2>4a. \A k \in 1..decoded : Lost(k) => Lost(k)'
    <3>1. Len(frames) <= Len(frames')
      BY <2>1, <2>3
    <3>2. decoded' \in Nat /\ decoded <= decoded' /\ \A k \in 1..decoded : taken'[k] = taken[k]
      BY <1>1, <2>1
    <3> QED  BY <2>3, <3>1, <3>2, LostStays
  <2>5. Typed'
    <3>1. received' \in 0..2 * Len(frames') /\ decoded' \in 0..Len(frames')
      <4>1. received \in 0..2 * Len(frames) /\ decoded \in 0..Len(frames)
        BY DEF Typed
      <4> QED  BY <1>1, <2>1, <2>3, <4>1
    <3> QED  BY <1>1, <1>4, <1>6, <2>3, <3>1 DEF Typed
  <2>6. Decoded'
    BY <1>1, <2>4 DEF Decoded
  <2>7. Queued'
    <3>1. \A k \in 1..decoded : IsRequest(k)' <=> IsRequest(k)
      BY <2>4 DEF IsRequest
    <3>2. \A k \in 1..decoded : Answered(k)' <=> Answered(k)
      BY <1>1 DEF Answered, AnswersTo, IsEvent
    <3>3. \A i \in 1..Len(queue) : IsRequest(queue[i])'
      BY <1>1, <2>2, <2>4 DEF Queued, IsRequest
    <3> QED  BY <1>1, <2>4a, <3>1, <3>2, <3>3 DEF Queued
  <2>8. Written'
    BY <1>1, <2>4, <2>4a, AllKept DEF SameUpTo
  <2>9. Gate'
    <3>1. \A i \in 1..Len(stream) + 1 - 1 : frames'[stream[i].to] = frames[stream[i].to]
      BY <2>1, <2>2, <2>4
    <3>2. InitializedAt(Len(stream) + 1)' <=> InitializedAt(Len(stream) + 1)
      BY <1>1, <3>1 DEF InitializedAt
    <3> QED  BY <1>1, <3>2 DEF Gate
  <2>10. Blamed'
    <3>1. \A k \in 1..Len(frames) : k \in 1..Len(frames')
      BY <2>1, <2>3
    <3> QED  BY <1>1, <2>3, <3>1 DEF Blamed, Broken, IsRequest
  <2>11. Calling'
    <3>1. /\ Len(frames') + Len(calls') = 3 /\ Len(frames') # 0
          /\ Len(frames') - 1 = Len(frames)
      BY <1>3, <1>4, <2>1, <2>3
    <3>2. read' = Len(stream') /\ read' + 1 .. Len(stream') = {}
      BY <1>1, <1>3, <2>1
    <3>3. \A k : Succeeded(k, read)' <=> Succeeded(k, read)
      BY <1>1 DEF Succeeded
    <3> QED  BY <1>1, <1>3, <1>6, <3>1, <3>2, <3>3 DEF Calling
  <2> QED  BY <2>5, <2>6, <2>7, <2>8, <2>9, <2>10, <2>11
<1> QED  BY <1>5, <1>6 DEF Call

LEMMA DieStep ==
  ASSUME IInv, Die
  PROVE  IInv'
<1> USE DEF IInv
<1>1. /\ UNCHANGED <<frames, received, decoded, taken, initialized, rejected, exitCode, peer, calls,
                     read, outcome>>
      /\ alive' = FALSE /\ queue' = <<>> /\ peer \in {"calling", "waiting"}
  BY DEF Die, input
<1>2. PICK n \in read..Len(stream) : stream' = SubSeq(stream, 1, n)
  BY DEF Die
<1>3. Len(stream) \in Nat /\ read \in Nat
  BY Messaged DEF Typed
<1>4. n \in 0..Len(stream) /\ read <= n /\ n \in Int /\ 1 \in Int
  BY <1>3
<1>5. /\ stream' \in Seq([to : 1..decoded, kind : Kinds]) /\ Len(stream') = n
      /\ \A i \in 1..n : stream'[i] = stream[i]
  <2> DEFINE M == [to : 1..decoded, kind : Kinds]
  <2>1. stream \in Seq(M)
    BY DEF Typed
  <2> HIDE DEF M
  <2>2. \A i \in 1..n : i \in 1..Len(stream)
    BY <1>3, <1>4
  <2>3. \A i \in 1..n : stream[i] \in M
    BY <2>1, <2>2, ElementOfSeq
  <2>4. /\ stream' \in Seq(M) /\ Len(stream') = IF 1 <= n THEN n - 1 + 1 ELSE 0
        /\ \A i \in 1 .. n - 1 + 1 : stream'[i] = stream[1 + i - 1]
    BY <1>2, <1>4, <2>3, SubSeqProperties
  <2>5. Len(stream') = n
    BY <1>4, <2>4
  <2>6. \A i \in 1..n : i \in 1 .. n - 1 + 1 /\ 1 + i - 1 = i
    BY <1>4
  <2> QED  BY <2>4, <2>5, <2>6 DEF M
<1>6. Typed'
  <2>1. read' \in 0..Len(stream')
    BY <1>1, <1>3, <1>4, <1>5
  <2>2. queue' \in Seq(1..decoded)
    BY <1>1, EmptySeq
  <2> QED  BY <1>1, <1>5, <2>1, <2>2 DEF Typed
<1>7. Decoded' /\ Blamed' /\ Gate'
  BY <1>1 DEF Decoded, Blamed, Broken, IsRequest, Gate
<1>8. Queued'
  <2>1. Len(queue') = 0
    BY <1>1
  <2> QED  BY <1>1, <2>1 DEF Queued
<1>9. Written'
  <2>1. SameUpTo(n)
    BY <1>1, <1>5 DEF SameUpTo, Lost, HeaderOf
  <2>2. \A i \in 1..n : i \in 1..Len(stream)
    BY <1>3, <1>4
  <2>3. \A i \in 1..n : Entry(i)'
    BY <1>4, <2>1, <2>2, EntryKept DEF Written
  <2> QED  BY <1>5, <2>3 DEF Written
<1>10. Calling'
  <2>1. \A k : Succeeded(k, read) => Succeeded(k, read)'
    <3>1. \A i \in 1..read : i \in 1..n
      BY <1>3, <1>4
    <3> QED  BY <1>1, <1>5, <3>1 DEF Succeeded
  <2>2. outcome = "none"
    BY <1>1 DEF Calling
  <2>3. CASE peer = "calling"
    <3>1. n = read
      BY <1>3, <1>4, <2>3 DEF Calling
    <3> QED  BY <1>1, <1>5, <2>1, <2>2, <2>3, <3>1 DEF Calling
  <2>4. CASE peer = "waiting"
    <3>1. \A i \in read + 1 .. n : i \in 1..n /\ i \in read + 1 .. Len(stream)
      BY <1>3, <1>4
    <3> QED  BY <1>1, <1>5, <2>1, <2>2, <2>4, <3>1 DEF Calling
  <2> QED  BY <1>1, <2>3, <2>4
<1> QED  BY <1>6, <1>7, <1>8, <1>9, <1>10

-----------------------------------------------------------------------------
(* The turn of a request                                                    *)

Running(k) == frames[k].method = "run/start" /\ Verdict(frames[k]) = "result"
Ahead(k) == IF Running(k) THEN 3 ELSE 0

LEMMA VerdictIs ==
  ASSUME Typed, NEW request
  PROVE  LET v == Verdict(request)
         IN /\ v \in Kinds /\ v \notin ToSet(Events)
            /\ request.method \in {"run/start", "inspect", "doctor"} =>
                 (v = "not initialized" <=> ~initialized)
            /\ request.method = "run/start" /\ v = "result" => initialized
<1>1. ToSet(Events) = {"phase.started", "phase.completed", "run.completed"}
  BY EventKinds
<1>2. CASE request.method = "initialize"
  BY <1>1, <1>2 DEF Verdict, Kinds
<1>3. CASE request.method = "shutdown"
  BY <1>1, <1>3 DEF Verdict, Kinds
<1>4. CASE request.method \in {"run/start", "inspect", "doctor"}
  <2>1. Verdict(request) = IF ~initialized THEN "not initialized"
                           ELSE IF request.good THEN "result" ELSE "invalid params"
    BY <1>4 DEF Verdict
  <2> QED  BY <1>1, <2>1 DEF Kinds
<1>5. CASE request.method \notin {"initialize", "shutdown", "run/start", "inspect", "doctor"}
  BY <1>1, <1>5 DEF Verdict, Kinds
<1> QED  BY <1>2, <1>3, <1>4, <1>5

LEMMA MessageIs == \A k, kind : Message(k, kind).to = k /\ Message(k, kind).kind = kind
BY DEF Message

LEMMA MessagesAre ==
  ASSUME Typed, NEW k \in 1..decoded
  PROVE  LET w == Messages(k)
         IN /\ w \in Seq([to : 1..decoded, kind : Kinds]) /\ Len(w) = Ahead(k) + 1
            /\ \A j \in 1..Ahead(k) : w[j] = Message(k, Events[j])
            /\ w[Ahead(k) + 1] = Message(k, Verdict(frames[k]))
<1> DEFINE M == [to : 1..decoded, kind : Kinds]
           v == Verdict(frames[k])
           events == IF Running(k) THEN Events ELSE <<>>
           told == [i \in DOMAIN events |-> Message(k, events[i])]
<1>1. Messages(k) = told \o <<Message(k, v)>>
  BY DEF Messages, Running
<1>2. v \in Kinds
  BY VerdictIs
<1>3. Message(k, v) \in M
  BY <1>2 DEF Message
<1>4. DOMAIN events = 1..Ahead(k) /\ Ahead(k) \in Nat /\ (Running(k) => events = Events)
  <2>1. DOMAIN Events = 1..3
    BY DEF Events
  <2>2. DOMAIN <<>> = 1..0
    OBVIOUS
  <2>3. CASE Running(k)
    BY <2>1, <2>3 DEF Ahead
  <2>4. CASE ~Running(k)
    BY <2>2, <2>4 DEF Ahead
  <2> QED  BY <2>3, <2>4
<1>5. ASSUME NEW i \in 1..Ahead(k)
      PROVE  events[i] = Events[i] /\ Events[i] \in Kinds
  <2>1. Running(k) /\ i \in 1..3
    BY <1>5 DEF Ahead
  <2>2. Events[i] \in ToSet(Events)
    <3>1. DOMAIN Events = 1..3
      BY DEF Events
    <3> QED  BY <2>1, <3>1 DEF ToSet
  <2> QED  BY <1>4, <2>1, <2>2 DEF Kinds
<1> HIDE DEF v, events
<1>6. \A i \in 1..Ahead(k) : told[i] = Message(k, Events[i]) /\ told[i] \in M
  BY <1>4, <1>5 DEF Message
<1>7. told \in [1..Ahead(k) -> M]
  BY <1>4, <1>6
<1> HIDE DEF M, told
<1>8. told \in Seq(M) /\ Len(told) = Ahead(k)
  BY <1>4, <1>7
<1>9. <<Message(k, v)>> \in Seq(M) /\ Len(<<Message(k, v)>>) = 1 /\ <<Message(k, v)>>[1] = Message(k, v)
  BY <1>3
<1>10. /\ Messages(k) \in Seq(M) /\ Len(Messages(k)) = Ahead(k) + 1
       /\ \A i \in 1 .. Ahead(k) + 1 : Messages(k)[i] =
            IF i <= Ahead(k) THEN told[i] ELSE <<Message(k, v)>>[i - Ahead(k)]
  BY <1>1, <1>8, <1>9, ConcatProperties
<1>11. \A j \in 1..Ahead(k) : j \in 1 .. Ahead(k) + 1 /\ j <= Ahead(k)
  BY <1>4
<1>12. Ahead(k) + 1 \in 1 .. Ahead(k) + 1 /\ ~(Ahead(k) + 1 <= Ahead(k)) /\ (Ahead(k) + 1) - Ahead(k) = 1
  BY <1>4
<1> QED  BY <1>6, <1>9, <1>10, <1>11, <1>12 DEF M, v

(* What a turn adds to the stream: all it has to say, or all but an answer  *)
(* that is too long.                                                       *)
Turn(k) ==
  LET top == Len(stream) + Ahead(k)
  IN /\ stream' \in Seq([to : 1..decoded, kind : Kinds])
     /\ Len(stream') \in {top, top + 1}
     /\ \A i \in 1..Len(stream) : stream'[i] = stream[i]
     /\ \A i \in Len(stream) + 1 .. top : stream'[i] = Message(k, Events[i - Len(stream)])
     /\ Len(stream') = top => rejected' /\ exitCode' = 1 /\ frames[k].size = "long"
     /\ Len(stream') = top + 1 =>
          /\ rejected' = rejected /\ exitCode' = exitCode
          /\ stream'[top + 1] = Message(k, Verdict(frames[k]))

LEMMA HandleTurns ==
  ASSUME IInv, Handle
  PROVE  queue # <<>> /\ queue[1] \in 1..decoded /\ Turn(queue[1])
<1> USE DEF IInv
<1>1. queue # <<>> /\ Head(queue) = queue[1] /\ queue[1] \in 1..decoded
  <2>1. queue \in Seq(1..decoded) /\ queue # <<>>
    BY DEF Handle, Typed
  <2>2. 1 \in 1..Len(queue)
    BY <2>1, EmptySeq
  <2>3. queue[1] \in 1..decoded
    BY <2>1, <2>2, ElementOfSeq
  <2>4. Head(queue) = queue[1]
    BY <2>1, <2>2
  <2> QED  BY <2>1, <2>3, <2>4
<1> DEFINE k == queue[1]
           e == Ahead(k)
           L == Len(stream)
           M == [to : 1..decoded, kind : Kinds]
           w == IF Overlong(k) THEN Front(Messages(k)) ELSE Messages(k)
<1>2. /\ stream' = stream \o w
      /\ Overlong(k) => rejected' /\ exitCode' = 1
      /\ ~Overlong(k) => rejected' = rejected /\ exitCode' = exitCode
  BY <1>1 DEF Handle
<1>3. /\ Messages(k) \in Seq(M) /\ Len(Messages(k)) = e + 1
      /\ \A j \in 1..e : Messages(k)[j] = Message(k, Events[j])
      /\ Messages(k)[e + 1] = Message(k, Verdict(frames[k]))
  BY <1>1, MessagesAre
<1>4. e \in Nat /\ L \in Nat /\ stream \in Seq(M)
  BY Messaged DEF Ahead, Typed
<1> HIDE DEF k, e, L, M
<1>5. /\ w \in Seq(M) /\ Len(w) = IF Overlong(k) THEN e ELSE e + 1
      /\ \A j \in 1..e : w[j] = Message(k, Events[j])
      /\ ~Overlong(k) => w[e + 1] = Message(k, Verdict(frames[k]))
  <2>1. CASE ~Overlong(k)
    BY <1>3, <2>1
  <2>2. CASE Overlong(k)
    <3>1. w = SubSeq(Messages(k), 1, e)
      <4>1. Len(Messages(k)) - 1 = e
        BY <1>3, <1>4
      <4> QED  BY <2>2, <4>1 DEF Front
    <3>2. \A i \in 1..e : i \in 1..Len(Messages(k))
      BY <1>3, <1>4
    <3>3. \A i \in 1..e : Messages(k)[i] \in M
      BY <1>3, <3>2, ElementOfSeq
    <3>4. e \in Int /\ 1 \in Int
      BY <1>4
    <3>5. /\ w \in Seq(M) /\ Len(w) = IF 1 <= e THEN e - 1 + 1 ELSE 0
          /\ \A i \in 1 .. e - 1 + 1 : w[i] = Messages(k)[1 + i - 1]
      BY <3>1, <3>3, <3>4, SubSeqProperties
    <3>6. Len(w) = e
      BY <1>4, <3>5
    <3>7. \A i \in 1..e : i \in 1 .. e - 1 + 1 /\ 1 + i - 1 = i
      BY <1>4
    <3> QED  BY <1>3, <2>2, <3>5, <3>6, <3>7
  <2> QED  BY <2>1, <2>2
<1> HIDE DEF w
<1>6. /\ stream' \in Seq(M) /\ Len(stream') = L + Len(w)
      /\ \A i \in 1 .. L + Len(w) : stream'[i] = IF i <= L THEN stream[i] ELSE w[i - L]
  BY <1>2, <1>4, <1>5, ConcatProperties DEF L
<1>7. Len(w) \in {e, e + 1} /\ (Len(w) = e <=> Overlong(k)) /\ Len(w) \in Nat
  BY <1>4, <1>5
<1>8. /\ \A i \in 1..L : i \in 1 .. L + Len(w) /\ i <= L
      /\ \A i \in L + 1 .. L + e : i \in 1 .. L + Len(w) /\ ~(i <= L) /\ i - L \in 1..e
      /\ Len(w) = e + 1 => /\ L + e + 1 \in 1 .. L + Len(w) /\ ~(L + e + 1 <= L)
                           /\ (L + e + 1) - L = e + 1
  BY <1>4, <1>7
<1>9. L + Len(w) \in {L + e, L + e + 1} /\ (L + Len(w) = L + e => Len(w) = e)
      /\ (L + Len(w) = L + e + 1 => Len(w) = e + 1)
  BY <1>4, <1>7
<1>10. Overlong(k) => frames[k].size = "long"
  BY DEF Overlong
<1>11. /\ \A i \in 1..L : stream'[i] = stream[i]
       /\ \A i \in L + 1 .. L + e : stream'[i] = Message(k, Events[i - L])
       /\ Len(w) = e + 1 => stream'[L + e + 1] = Message(k, Verdict(frames[k]))
  <2>1. \A i \in 1..L : stream'[i] = stream[i]
    BY <1>6, <1>8
  <2>2. \A i \in L + 1 .. L + e : stream'[i] = w[i - L]
    BY <1>6, <1>8
  <2>3. Len(w) = e + 1 => stream'[L + e + 1] = w[e + 1] /\ ~Overlong(k)
    <3> SUFFICES ASSUME Len(w) = e + 1
                 PROVE  stream'[L + e + 1] = w[e + 1] /\ ~Overlong(k)
      OBVIOUS
    <3>1. ~Overlong(k)
      BY <1>4, <1>7
    <3> QED  BY <1>6, <1>8, <3>1
  <2> QED  BY <1>5, <1>8, <2>1, <2>2, <2>3
<1>12. /\ Len(w) = e => rejected' /\ exitCode' = 1 /\ frames[k].size = "long"
       /\ Len(w) = e + 1 => rejected' = rejected /\ exitCode' = exitCode
  <2>1. Len(w) = e + 1 => ~Overlong(k)
    BY <1>4, <1>7
  <2> QED  BY <1>2, <1>7, <1>10, <2>1
<1>13. Turn(k)
  BY <1>6, <1>9, <1>11, <1>12 DEF Turn, e, L, M
<1> QED  BY <1>1, <1>13 DEF k

LEMMA HandleStep ==
  ASSUME IInv, Handle
  PROVE  IInv'
<1> USE DEF IInv
<1> DEFINE k == queue[1]
           v == Verdict(frames[k])
           L == Len(stream)
           top == L + Ahead(k)
<1>1. /\ UNCHANGED <<frames, received, decoded, taken, alive, peer, calls, read, outcome>>
      /\ alive /\ ~rejected /\ queue' = Tail(queue)
  BY DEF Handle, Chained, input
<1>2. queue # <<>> /\ k \in 1..decoded /\ Turn(k)
  BY HandleTurns
<1>3. initialized' = (initialized \/ (frames[k].method = "initialize" /\ v = "result"))
  <2>1. Head(queue) = k
    BY <1>2 DEF Typed
  <2> QED  BY <2>1 DEF Handle
<1>4. /\ L \in Nat /\ Len(frames) \in Nat /\ Len(queue) \in Nat /\ decoded \in Nat
      /\ decoded <= Len(frames) /\ Ahead(k) \in {0, 3}
  BY Messaged DEF Ahead
<1>5. \A i \in 1..L : stream[i].to \in 1..decoded
  BY Messaged
<1>6. /\ queue' \in Seq(1..decoded) /\ Len(queue') = Len(queue) - 1
      /\ \A i \in 1..Len(queue') : queue'[i] = queue[i + 1]
  <2>1. queue \in Seq(1..decoded)
    BY DEF Typed
  <2> QED  BY <1>1, <1>2, <2>1, HeadTailProperties
<1>7. IsRequest(k) /\ \A m \in 1..L : stream[m].to < k
  <2>1. 1 \in 1..Len(queue)
    <3>1. queue \in Seq(1..decoded)
      BY DEF Typed
    <3> QED  BY <1>2, <3>1, EmptySeq
  <2> QED  BY <2>1 DEF Queued
<1>8. \A i \in 2..Len(queue) : k < queue[i]
  <2>1. \A i \in 2..Len(queue) : i \in 1..Len(queue) /\ 1 \in 1..i - 1
    BY <1>4
  <2> QED  BY <2>1 DEF Queued
<1>9. /\ v \in Kinds /\ v \notin ToSet(Events)
      /\ frames[k].method \in {"run/start", "inspect", "doctor"} => (v = "not initialized" <=> ~initialized)
      /\ frames[k].method = "run/start" /\ v = "result" => initialized
  BY VerdictIs
<1>10. /\ ToSet(Events) = {"phase.started", "phase.completed", "run.completed"}
       /\ \A m : IsEvent(m) <=> m.kind \in ToSet(Events)
       /\ Events[1] = "phase.started" /\ Events[2] = "phase.completed" /\ Events[3] = "run.completed"
  BY EventKinds DEF Events
<1>11. /\ stream' \in Seq([to : 1..decoded, kind : Kinds])
       /\ Len(stream') \in {top, top + 1}
       /\ \A i \in 1..L : stream'[i] = stream[i]
       /\ \A i \in L + 1 .. top : stream'[i] = Message(k, Events[i - L])
  BY <1>2 DEF Turn
<1>12. /\ Len(stream') = top => rejected' /\ exitCode' = 1 /\ frames[k].size = "long"
       /\ Len(stream') = top + 1 => /\ rejected' = rejected /\ exitCode' = exitCode
                                    /\ stream'[top + 1] = Message(k, v)
  BY <1>2 DEF Turn
<1>13. top \in Nat /\ L <= top
  BY <1>4
<1> HIDE DEF k, v, L, top
<1>14. \A h : Lost(h)' <=> Lost(h)
  BY <1>1 DEF Lost, HeaderOf
<1>15. \A i \in 1..Len(stream') : i \in 1..L \/ i \in L + 1 .. top \/ (i = top + 1 /\ Len(stream') = top + 1)
  BY <1>4, <1>11, <1>13
<1>16. ASSUME NEW i \in L + 1 .. top
       PROVE  /\ stream'[i].to = k /\ IsEvent(stream'[i])
              /\ stream'[i].kind \in ToSet(Events)
              /\ frames[k].method = "run/start" /\ v = "result"
  <2>a. stream'[i] = Message(k, Events[i - L])
    BY <1>11
  <2>1. stream'[i].to = k /\ stream'[i].kind = Events[i - L]
    BY <2>a, MessageIs
  <2>2. Ahead(k) = 3 /\ Running(k)
    <3>1. Ahead(k) # 0
      BY <1>4 DEF top
    <3> QED  BY <1>4, <3>1 DEF Ahead
  <2>3. i - L \in {1, 2, 3}
    BY <1>4, <2>2 DEF top
  <2>4. stream'[i].kind \in ToSet(Events)
    BY <1>10, <2>1, <2>3
  <2> QED  BY <1>10, <2>1, <2>2, <2>4 DEF Running, v
<1>17. Len(stream') = top + 1 =>
         /\ stream'[top + 1].to = k /\ stream'[top + 1].kind = v /\ ~IsEvent(stream'[top + 1])
  <2> SUFFICES ASSUME Len(stream') = top + 1
               PROVE  /\ stream'[top + 1].to = k /\ stream'[top + 1].kind = v
                      /\ ~IsEvent(stream'[top + 1])
    OBVIOUS
  <2>1. stream'[top + 1] = Message(k, v)
    BY <1>12
  <2>2. stream'[top + 1].to = k /\ stream'[top + 1].kind = v
    BY <2>1, MessageIs
  <2>3. ~IsEvent(stream'[top + 1])
    <3>1. stream'[top + 1].kind \notin ToSet(Events)
      BY <1>9, <2>2
    <3> QED  BY <1>10, <3>1
  <2> QED  BY <2>2, <2>3
<1>18. \A j \in 1..Len(stream') : stream'[j].to = k <=> j \notin 1..L
  <2>1. \A j \in 1..L : stream'[j].to # k
    <3>1. k \in Nat /\ \A j \in 1..L : stream[j].to \in Nat
      BY <1>2, <1>4, <1>5
    <3> QED  BY <1>7, <1>11, <3>1
  <2>2. \A i \in L + 1 .. top : i \notin 1..L
    BY <1>4
  <2>3. top + 1 \notin 1..L
    BY <1>4, <1>13
  <2> QED  BY <1>15, <1>16, <1>17, <2>1, <2>2, <2>3
<1>19. Typed'
  <2>1. read' \in 0..Len(stream')
    <3>1. read \in 0..L
      BY DEF Typed, L
    <3> QED  BY <1>1, <1>4, <1>11, <1>13, <3>1
  <2>2. /\ rejected' \in BOOLEAN /\ initialized' \in BOOLEAN
        /\ exitCode' \in {0, 1} /\ (rejected' => exitCode' = 1)
    <3>1. CASE Len(stream') = top
      BY <1>3, <1>12, <3>1 DEF Typed
    <3>2. CASE Len(stream') = top + 1
      BY <1>1, <1>3, <1>12, <3>2 DEF Typed
    <3> QED  BY <1>11, <3>1, <3>2
  <2>3. rejected' = TRUE \/ rejected' = FALSE
    BY <1>1, <1>11, <1>12, <2>2
  <2> QED  BY <1>1, <1>6, <1>11, <2>1, <2>2 DEF Typed
<1>20. Decoded' /\ (IsRequest(k) <=> frames'[k].kind = "request")
  BY <1>1 DEF Decoded, IsRequest
<1>21. Queued'
  <2>1. ASSUME NEW i \in 1..Len(queue')
        PROVE  /\ IsRequest(queue[i])'
               /\ \A j \in 1..i - 1 : queue'[j] < queue'[i]
               /\ \A m \in 1..Len(stream') : stream'[m].to < queue'[i]
    <3>1. /\ i + 1 \in 2..Len(queue) /\ i + 1 \in 1..Len(queue)
          /\ \A j \in 1..i - 1 : j + 1 \in 1..(i + 1) - 1 /\ j \in 1..Len(queue')
      BY <1>4, <1>6
    <3>2. /\ IsRequest(queue[i + 1])
          /\ \A j \in 1..(i + 1) - 1 : queue[j] < queue[i + 1]
          /\ \A m \in 1..L : stream[m].to < queue[i + 1]
      BY <3>1 DEF Queued, L
    <3>3. queue'[i] = queue[i + 1] /\ \A j \in 1..i - 1 : queue'[j] = queue[j + 1]
      BY <1>6, <3>1
    <3>4. k < queue'[i]
      BY <1>8, <3>1, <3>3
    <3>5. IsRequest(queue[i])'
      BY <1>1, <3>2, <3>3 DEF IsRequest
    <3>6. \A j \in 1..i - 1 : queue'[j] < queue'[i]
      BY <3>1, <3>2, <3>3
    <3>7. \A m \in 1..Len(stream') : stream'[m].to < queue'[i]
      BY <1>11, <1>18, <3>2, <3>3, <3>4
    <3> QED  BY <3>5, <3>6, <3>7
  <2>2. ASSUME ~rejected', NEW h \in 1..decoded, IsRequest(h), ~Lost(h)
        PROVE  Answered(h)' \/ \E i \in 1..Len(queue') : queue'[i] = h
    <3>1. Len(stream') = top + 1
      BY <1>11, <1>12, <2>2
    <3>2. Answered(h) \/ \E i \in 1..Len(queue) : queue[i] = h
      BY <1>1, <2>2, <3>1 DEF Queued
    <3>3. CASE Answered(h)
      <4>1. PICK i \in 1..L : stream[i].to = h /\ ~IsEvent(stream[i])
        <5>1. DOMAIN stream = 1..L
          BY <1>4 DEF Typed, L
        <5> QED  BY <3>3, <5>1 DEF Answered, AnswersTo
      <4>2. i \in 1..Len(stream') /\ stream'[i] = stream[i]
        BY <1>4, <1>11, <1>13
      <4>3. DOMAIN stream' = 1..Len(stream')
        BY <1>11
      <4> QED  BY <4>1, <4>2, <4>3 DEF Answered, AnswersTo, IsEvent
    <3>4. CASE h = k
      <4>1. top + 1 \in DOMAIN stream'
        BY <1>11, <1>13, <3>1
      <4> QED  BY <1>17, <3>1, <3>4, <4>1 DEF Answered, AnswersTo, IsEvent
    <3>5. ASSUME NEW i \in 1..Len(queue), queue[i] = h, h # k
          PROVE  \E g \in 1..Len(queue') : queue'[g] = h
      <4>1. i # 1
        BY <3>5 DEF k
      <4>2. i - 1 \in 1..Len(queue') /\ (i - 1) + 1 = i
        BY <1>4, <1>6, <4>1
      <4>3. queue'[i - 1] = h
        BY <1>6, <3>5, <4>2
      <4> QED  BY <4>2, <4>3
    <3> QED  BY <3>2, <3>3, <3>4, <3>5
  <2>3. \A h \in 1..decoded : IsRequest(h)' <=> IsRequest(h)
    BY <1>1 DEF IsRequest
  <2> QED  BY <1>1, <1>14, <2>1, <2>2, <2>3 DEF Queued
<1>22. InitializedAt(L + 1) <=> initialized
  BY <1>1 DEF Gate, L
<1>23. ASSUME NEW i \in L + 1 .. top + 1
       PROVE  InitializedAt(i)' <=> initialized
  <2>1. \A j \in 1..i - 1 : j \in 1..L \/ j \in L + 1 .. top
    BY <1>4, <1>13
  <2>2. \A j \in L + 1 .. top : stream'[j].kind # "result"
    BY <1>10, <1>16
  <2>3. \A j \in 1..L : j \in 1..i - 1 /\ j \in 1 .. (L + 1) - 1
    BY <1>4, <1>13
  <2>4. \A j \in 1..(L + 1) - 1 : j \in 1..L
    BY <1>4
  <2>5. InitializedAt(i)' <=> \E j \in 1..L : /\ frames[stream[j].to].method = "initialize"
                                              /\ stream[j].kind = "result"
    BY <1>1, <1>11, <2>1, <2>2, <2>3 DEF InitializedAt
  <2>6. InitializedAt(L + 1) <=> \E j \in 1..L : /\ frames[stream[j].to].method = "initialize"
                                                 /\ stream[j].kind = "result"
    BY <2>3, <2>4 DEF InitializedAt
  <2> QED  BY <1>22, <2>5, <2>6
<1>24. ASSUME NEW i \in 1..Len(stream')
       PROVE  Entry(i)'
  <2>1. CASE i \in 1..L
    <3>1. SameUpTo(L) /\ L \in 0..Len(stream)
      BY <1>1, <1>4, <1>11, <1>14 DEF SameUpTo, L
    <3>2. Entry(i)
      BY <2>1 DEF Written, L
    <3> QED  BY <2>1, <3>1, <3>2, EntryKept
  <2>2. CASE i \notin 1..L
    <3>1. i \in L + 1 .. top + 1 /\ (i \in L + 1 .. top \/ (i = top + 1 /\ Len(stream') = top + 1))
      BY <1>4, <1>13, <1>15, <2>2
    <3>2. stream'[i].to = k /\ (i \in L + 1 .. top \/ stream'[i].kind = v)
      BY <1>17, <1>18, <2>2, <3>1
    <3>3. IsRequest(stream[i].to)'
      BY <1>1, <1>7, <3>2 DEF IsRequest
    <3>4. \A j \in 1..i - 1 : j \in 1..L \/ j \in L + 1 .. top
      BY <1>4, <1>13, <3>1
    <3>5. Ordered(i)'
      <4>1. ASSUME NEW j \in 1..i - 1
            PROVE  \/ stream'[j].to < stream'[i].to
                   \/ stream'[j].to = stream'[i].to /\ IsEvent(stream'[j])
        <5>1. CASE j \in 1..L
          BY <1>7, <1>11, <3>2, <5>1
        <5>2. CASE j \in L + 1 .. top
          BY <1>16, <3>2, <5>2
        <5> QED  BY <3>4, <5>1, <5>2
      <4> QED  BY <4>1 DEF Ordered, IsEvent
    <3>6. Admitted(i)'
      <4>1. Gated(i)' => frames[k].method \in {"run/start", "inspect", "doctor"}
        BY <1>1, <3>2 DEF Gated
      <4>2. InitializedAt(i)' <=> initialized
        BY <1>23, <3>1
      <4>3. CASE i \in L + 1 .. top
        <5>1. stream'[i].kind # "not initialized" /\ initialized
          BY <1>9, <1>10, <1>16, <4>3
        <5> QED  BY <4>2, <5>1 DEF Admitted
      <4>4. CASE stream'[i].kind = v
        BY <1>9, <4>1, <4>2, <4>4 DEF Admitted
      <4> QED  BY <3>2, <4>3, <4>4
    <3>7. Told(i)'
      <4> SUFFICES ASSUME stream'[i].kind = "result", frames'[stream'[i].to].method = "run/start",
                          NEW n \in ToSet(Events)
                   PROVE  \E j \in 1..i - 1 : stream'[j].to = stream'[i].to /\ stream'[j].kind = n
        BY DEF Told
      <4>1. i = top + 1 /\ v = "result" /\ frames[k].method = "run/start"
        BY <1>1, <1>10, <1>16, <1>17, <3>1, <3>2
      <4>2. Ahead(k) = 3
        BY <4>1 DEF Ahead, Running, v
      <4>3. PICK h \in {1, 2, 3} : Events[h] = n
        BY <1>10
      <4>4. L + h \in L + 1 .. top /\ L + h \in 1..i - 1 /\ (L + h) - L = h
        BY <1>4, <4>1, <4>2 DEF top
      <4>5. stream'[L + h] = Message(k, n)
        BY <1>11, <4>3, <4>4
      <4> QED  BY <3>2, <4>4, <4>5 DEF Message
    <3>8. SkipsNone(i)'
      <4>1. ASSUME NEW h \in 1..k - 1, IsRequest(h), ~Lost(h)
            PROVE  \E j \in 1..i - 1 : stream'[j].to = h /\ ~IsEvent(stream'[j])
        <5>1. h \in 1..decoded /\ h < k /\ h # k
          BY <1>2, <1>4
        <5>2. Answered(h) \/ \E g \in 1..Len(queue) : queue[g] = h
          BY <1>1, <4>1, <5>1 DEF Queued
        <5>3. \A g \in 1..Len(queue) : queue[g] # h
          <6>1. \A g \in 1..Len(queue) : g = 1 \/ g \in 2..Len(queue)
            BY <1>4
          <6>2. queue[1] # h
            BY <5>1 DEF k
          <6>3. k \in Nat /\ h \in Nat /\ ~(k < h)
            BY <1>2, <1>4, <5>1
          <6> QED  BY <1>8, <6>1, <6>2, <6>3
        <5>4. DOMAIN stream = 1..L
          BY <1>4 DEF Typed, L
        <5>5. PICK j \in 1..L : stream[j].to = h /\ ~IsEvent(stream[j])
          BY <5>2, <5>3, <5>4 DEF Answered, AnswersTo
        <5>6. j \in 1..i - 1
          BY <1>4, <1>13, <3>1
        <5> QED  BY <1>11, <5>5, <5>6 DEF IsEvent
      <4>2. \A h : IsRequest(h)' <=> IsRequest(h)
        BY <1>1 DEF IsRequest
      <4> QED  BY <1>14, <3>2, <4>1, <4>2 DEF SkipsNone, AnsweredBefore, IsEvent
    <3> QED  BY <3>3, <3>5, <3>6, <3>7, <3>8 DEF Entry
  <2> QED  BY <2>1, <2>2
<1>25. Written'
  BY <1>24 DEF Written
<1>26. Gate'
  <2> SUFFICES ASSUME ~rejected'
               PROVE  initialized' <=> InitializedAt(Len(stream) + 1)'
    BY DEF Gate
  <2>1. Len(stream') = top + 1
    BY <1>11, <1>12
  <2>2. PICK last : last = top + 1
    OBVIOUS
  <2>3. last \in L + 1 .. top + 1 /\ last \in Nat
    BY <1>4, <1>13, <2>2
  <2>4. InitializedAt(last)' <=> initialized
    BY <1>23, <2>3
  <2>5. \A j \in 1..(last + 1) - 1 : j \in 1..last - 1 \/ j = last
    BY <2>3
  <2>6. last \in 1..(last + 1) - 1 /\ \A j \in 1..last - 1 : j \in 1..(last + 1) - 1
    BY <1>4, <2>3
  <2>7. stream'[last].to = k /\ stream'[last].kind = v
    BY <1>17, <2>1, <2>2
  <2>8. InitializedAt(last + 1)' <=>
          InitializedAt(last)' \/ (frames[k].method = "initialize" /\ v = "result")
    BY <1>1, <2>5, <2>6, <2>7 DEF InitializedAt
  <2>9. Len(stream') + 1 = last + 1
    BY <2>1, <2>2
  <2> QED  BY <1>3, <2>4, <2>8, <2>9 DEF InitializedAt
<1>27. Blamed'
  <2>1. Len(stream') = top => k \in 1..Len(frames) /\ IsRequest(k) /\ frames[k].size = "long"
    BY <1>2, <1>4, <1>7, <1>12
  <2>2. Len(stream') = top + 1 => exitCode' = exitCode
    BY <1>12
  <2> QED  BY <1>1, <1>11, <2>1, <2>2 DEF Blamed, Broken, IsRequest
<1>28. Calling'
  <2>1. \A h, n : n \in 0..L /\ Succeeded(h, n) => Succeeded(h, n)'
    <3>1. \A n \in 0..L : \A i \in 1..n : i \in 1..L
      BY <1>4
    <3> QED  BY <1>11, <3>1 DEF Succeeded
  <2>2. read \in 0..L /\ L \in 0..L
    BY <1>4 DEF Typed, L
  <2>3. \A h : Succeeded(h, L) => Succeeded(h, Len(stream))'
    <3>1. \A i \in 1..L : i \in 1..Len(stream')
      BY <1>4, <1>11, <1>13
    <3> QED  BY <1>11, <3>1 DEF Succeeded
  <2>4. ASSUME NEW h \in 1..decoded, Succeeded(h, read)
        PROVE  h < k
    <3>1. \A i \in 1..read : i \in 1..L
      BY <1>4, <2>2
    <3> QED  BY <1>7, <2>4, <3>1 DEF Succeeded
  <2>5. peer # "calling"
    <3> SUFFICES ASSUME peer = "calling"
                 PROVE  FALSE
      OBVIOUS
    <3>1. k \in 1..Len(frames)
      BY <1>2, <1>4
    <3>2. Succeeded(k, read)
      BY <3>1 DEF Calling
    <3>3. k < k
      BY <1>2, <2>4, <3>2
    <3> QED  BY <1>2, <1>4, <3>3
  <2>6. ASSUME peer = "waiting"
        PROVE  k = Len(frames)
    <3> SUFFICES ASSUME k # Len(frames)
                 PROVE  FALSE
      OBVIOUS
    <3>1. k \in 1..Len(frames) - 1
      BY <1>2, <1>4
    <3>2. Succeeded(k, read)
      BY <2>6, <3>1 DEF Calling
    <3>3. k < k
      BY <1>2, <2>4, <3>2
    <3> QED  BY <1>2, <1>4, <3>3
  <2>7. ASSUME peer = "waiting", NEW i \in read + 1 .. Len(stream')
        PROVE  stream'[i].to = Len(frames)
    <3>1. i \in 1..Len(stream') /\ (i \in 1..L => i \in read + 1 .. L)
      BY <1>4, <1>11, <1>13, <2>2
    <3>2. CASE i \in 1..L
      BY <1>11, <2>7, <3>1, <3>2 DEF Calling, L
    <3>3. CASE i \notin 1..L
      BY <1>18, <2>6, <2>7, <3>1, <3>3
    <3> QED  BY <3>2, <3>3
  <2>8. outcome = "ok" => \A h \in 1..3 : Succeeded(h, L)
    BY DEF Calling, L
  <2> QED  BY <1>1, <2>1, <2>2, <2>3, <2>5, <2>7, <2>8 DEF Calling
<1> QED  BY <1>19, <1>20, <1>21, <1>25, <1>26, <1>27, <1>28

-----------------------------------------------------------------------------
(* The theorem                                                              *)

LEMMA StutterStep ==
  ASSUME IInv, UNCHANGED vars
  PROVE  IInv'
<1> USE DEF IInv
<1>1. /\ UNCHANGED <<frames, received, decoded, taken, queue, initialized, rejected, exitCode, stream,
                     alive, peer, calls, read, outcome>>
  BY DEF vars
<1>2. alive' \in BOOLEAN
  BY <1>1 DEF Typed
<1>3. Decoded' /\ Queued' /\ Written' /\ Gate' /\ Blamed' /\ queue' \in Seq(1..decoded)
  BY <1>1, <1>2, ServerKept
<1>4. Typed'
  BY <1>1 DEF Typed
<1>5. Calling'
  BY <1>1 DEF Calling, Succeeded
<1> QED  BY <1>3, <1>4, <1>5

LEMMA NextKeepsIInv ==
  ASSUME IInv, [Next]_vars
  PROVE  IInv'
<1>1. ASSUME NEW to \in 1..2 * Len(frames), Push(to)
      PROVE  IInv'
  BY <1>1, PushStep
<1>2. CASE Handle
  BY <1>2, HandleStep
<1>3. CASE Skip
  BY <1>3, SkipStep
<1>4. CASE Call
  BY <1>4, CallStep
<1>5. CASE Read
  BY <1>5, ReadStep
<1>6. CASE Lose
  BY <1>6, LoseStep
<1>7. CASE Leave
  BY <1>7, LeaveStep
<1>8. CASE Die
  BY <1>8, DieStep
<1>9. CASE UNCHANGED vars
  BY <1>9, StutterStep
<1> QED  BY <1>1, <1>2, <1>3, <1>4, <1>5, <1>6, <1>7, <1>8, <1>9 DEF Next, Deliver, Client

LEMMA SessionInvariant == Spec => []IInv
<1>1. Init => IInv
  BY InitIInv
<1>2. IInv /\ [Next]_vars => IInv'
  BY NextKeepsIInv
<1> QED  BY <1>1, <1>2, PTL DEF Spec

LEMMA IInvIsEnough ==
  ASSUME IInv
  PROVE  AnswersFollowTheStream
<1> USE DEF IInv
<1>1. /\ Len(stream) \in Nat /\ Len(frames) \in Nat /\ decoded \in Nat /\ decoded <= Len(frames)
      /\ received \in Nat /\ 2 * decoded <= received
      /\ DOMAIN stream = 1..Len(stream) /\ DOMAIN frames = 1..Len(frames)
  <2>1. stream \in Seq([to : 1..decoded, kind : Kinds]) /\ frames \in Seq(Requests \cup Others)
    BY DEF Typed
  <2>2. DOMAIN stream = 1..Len(stream) /\ DOMAIN frames = 1..Len(frames)
    BY <2>1, LenProperties
  <2>3. received \in Nat /\ 2 * decoded <= received
    BY Messaged DEF Typed
  <2> QED  BY <2>2, <2>3, Messaged
<1>2. \A i \in 1..Len(stream) : stream[i].to \in 1..decoded
  BY Messaged
<1>3. ASSUME NEW i \in 1..Len(stream)
      PROVE  /\ IsRequest(stream[i].to) /\ Complete(stream[i].to, received)
             /\ \A j \in 1..(i - 1) : \/ stream[j].to < stream[i].to
                                      \/ stream[j].to = stream[i].to /\ IsEvent(stream[j])
             /\ Gated(i) => (stream[i].kind = "not initialized" <=> ~InitializedAt(i))
             /\ stream[i].kind = "result" /\ frames[stream[i].to].method = "run/start"
                  => {stream[j].kind : j \in {j \in 1..(i - 1) : stream[j].to = stream[i].to}}
                     = ToSet(Events)
             /\ \A k \in 1..(stream[i].to - 1) :
                  /\ frames[k].kind # "bad header"
                  /\ IsRequest(k) /\ ~Lost(k) => Answered(k)
  <2>1. IsRequest(stream[i].to) /\ Ordered(i) /\ Admitted(i) /\ Told(i) /\ SkipsNone(i)
    BY DEF Written, Entry
  <2>2. Complete(stream[i].to, received)
    <3>1. stream[i].to \in Nat /\ stream[i].to <= decoded
      BY <1>1, <1>2
    <3> QED  BY <1>1, <3>1 DEF Complete
  <2>3. ASSUME stream[i].kind = "result", frames[stream[i].to].method = "run/start"
        PROVE  {stream[j].kind : j \in {j \in 1..(i - 1) : stream[j].to = stream[i].to}}
                 = ToSet(Events)
    <3>1. ASSUME NEW j \in 1..i - 1, stream[j].to = stream[i].to
          PROVE  stream[j].kind \in ToSet(Events)
      <4>1. stream[i].to \in Nat
        BY <1>1, <1>2
      <4>2. IsEvent(stream[j])
        BY <2>1, <3>1, <4>1 DEF Ordered
      <4> QED  BY <4>2, EventKinds
    <3>2. \A e \in ToSet(Events) : \E j \in 1..i - 1 :
            stream[j].to = stream[i].to /\ stream[j].kind = e
      BY <2>1, <2>3 DEF Told
    <3> QED  BY <3>1, <3>2
  <2>4. ASSUME NEW k \in 1..(stream[i].to - 1)
        PROVE  /\ frames[k].kind # "bad header"
               /\ IsRequest(k) /\ ~Lost(k) => Answered(k)
    <3>1. k \in 1..decoded
      BY <1>1, <1>2
    <3>2. ASSUME IsRequest(k), ~Lost(k)
          PROVE  Answered(k)
      <4>1. PICK j \in 1..i - 1 : stream[j].to = k /\ ~IsEvent(stream[j])
        BY <2>1, <3>2 DEF SkipsNone, AnsweredBefore
      <4>2. j \in DOMAIN stream
        BY <1>1
      <4> QED  BY <4>1, <4>2 DEF Answered, AnswersTo
    <3> QED  BY <3>1, <3>2 DEF Decoded
  <2>5. /\ \A j \in 1..(i - 1) : \/ stream[j].to < stream[i].to
                                 \/ stream[j].to = stream[i].to /\ IsEvent(stream[j])
        /\ Gated(i) => (stream[i].kind = "not initialized" <=> ~InitializedAt(i))
    BY <2>1 DEF Ordered, Admitted
  <2> QED  BY <2>1, <2>2, <2>3, <2>4, <2>5
<1>4. exitCode = 1 => \E k \in DOMAIN frames : Broken(k) \/ (IsRequest(k) /\ frames[k].size = "long")
  BY <1>1 DEF Blamed
<1>5. outcome # "unexpected id"
  BY DEF Calling
<1>6. outcome = "ok" => \A k \in 1..3 : \E i \in AnswersTo(k) : stream[i].kind = "result"
  <2> SUFFICES ASSUME outcome = "ok", NEW k \in 1..3
               PROVE  \E i \in AnswersTo(k) : stream[i].kind = "result"
    OBVIOUS
  <2>1. PICK i \in 1..Len(stream) : stream[i].to = k /\ stream[i].kind = "result"
    BY DEF Calling, Succeeded
  <2>2. ~IsEvent(stream[i])
    BY <2>1, EventKinds
  <2> QED  BY <1>1, <2>1, <2>2 DEF AnswersTo
<1> QED  BY <1>1, <1>3, <1>4, <1>5, <1>6 DEF AnswersFollowTheStream

(* AnswersFollowTheStream: the runtime answers in the order of the requests, *)
(* one each with the Events of a run in front of its own answer; however    *)
(* the stream is cut and whatever is wrong in it, none is skipped but those *)
(* lost with their own chunk, and the CLI never meets an answer that is not *)
(* its own (push, handle, Call).                                           *)
THEOREM AnswersFollow == Spec => []AnswersFollowTheStream
<1>1. IInv => AnswersFollowTheStream
  BY IInvIsEnough
<1> QED  BY <1>1, SessionInvariant, PTL

=============================================================================
