-------------------------- MODULE PluginGraphProofs --------------------------
(***************************************************************************)
(* Proofs about PluginGraph: what is compiled is a plan of the input, the   *)
(* least one, and compilation fails only when there is none; for every      *)
(* catalog of phases, every set of names and every input.                   *)
(***************************************************************************)
EXTENDS PluginGraph, SequenceTheorems, FiniteSetTheorems, WellFoundedInduction, TLAPS

-----------------------------------------------------------------------------
(* The inductive invariant.                                                 *)

Ordering == pc \in {"order", "done"}

(* Nothing is visited before the edges are there, and there are finitely    *)
(* many contributions.                                                      *)
Staged ==
  /\ ~Ordering => order = <<>>
  /\ pc \in {"select", "collect"} => nodes = <<>>
  /\ IsFiniteSet(DOMAIN nodes)

(* edges: from source to destination of every reference that is kept.       *)
Links == {r \in References : ~Missing(r) /\ ~Reversed(r)}
Linked ==
  Ordering => \A s, id \in DOMAIN nodes :
    id \in edges[s] <=> \E r \in Links : Source(r) = s /\ Destination(r) = id

(* indegree counts the predecessors that have not been visited, and what    *)
(* has been visited has none left.                                          *)
Waiting(id) == {s \in DOMAIN nodes \ Visited : id \in edges[s]}
Counted ==
  pc = "order" =>
    /\ \A id \in DOMAIN nodes : indegree[id] = Cardinality(Waiting(id))
    /\ \A id \in Visited : Waiting(id) = {}

(* Each contribution was visited behind all its predecessors, and before    *)
(* every other one that could have been visited then.                       *)
Before(i) == {order[j] : j \in 1..i - 1}
Free(id, i) == \A s \in DOMAIN nodes : id \in edges[s] => s \in Before(i)
WellChosen(i) ==
  /\ Free(order[i], i)
  /\ \A id \in DOMAIN nodes : (id \notin Before(i) /\ id # order[i] /\ Free(id, i)) =>
       Precedes(order[i], id)
Sorted ==
  /\ \A i \in DOMAIN order : WellChosen(i)
  /\ ok => \A i, j \in DOMAIN order : i < j => nodes[order[i]].phase <= nodes[order[j]].phase
  /\ (pc = "done" /\ ok) => Visited = DOMAIN nodes

(* Without a diagnostic the input is what it should be.                     *)
Respected(id) ==
  /\ The(id).requires \cup The(id).before \cup The(id).after \subseteq Wanted
  /\ The(id).conflicts \cap (Wanted \cup selected) = {}
Complete ==
  /\ pc # "select" => plugins \subseteq Chosen
  /\ (pc # "select" /\ ok) =>
       plugins = Chosen /\ \A id \in selected : Cardinality(Matches(id)) = 1
  /\ (pc \notin {"select", "collect"} /\ ok) =>
       WellFormed /\ DOMAIN nodes = Wanted /\ \A id \in Wanted : nodes[id] = The(id)
  /\ (Ordering /\ ok) =>
       /\ Links = References
       /\ \A id \in Wanted : Respected(id)

(* With one there is no plan.                                               *)
Refuted == ~ok => Plans = {}

(* Where the cycle is.                                                      *)
Stuck == (\E d \in diagnostics : d.code = "cycle") => pc = "done"

IInv ==
  /\ TypeOK /\ Staged /\ Linked /\ Counted
  /\ Sorted /\ Complete /\ Refuted
  /\ Stuck /\ CycleNamesTheStuck
-----------------------------------------------------------------------------
(* Natural numbers                                                          *)

LEMMA LeastNatural ==
  ASSUME NEW S \in SUBSET Nat, S # {}
  PROVE  \E i \in S : \A j \in S : i <= j
<1> DEFINE R == OpToRel(<, Nat)
<1>1. IsWellFoundedOn(R, Nat)
  BY NatLessThanWellFounded, Zenon
<1>2. \A i, j \in Nat : i < j => <<i, j>> \in R
  BY DEF OpToRel
<1> HIDE DEF R
<1> SUFFICES ASSUME NEW i \in S, \A j \in S : ~(<<j, i>> \in R), NEW j \in S
             PROVE  i <= j
  BY <1>1, WFMin
<1>3. ~(j < i)
  BY <1>2
<1> QED  BY <1>3
-----------------------------------------------------------------------------
(* Finite sets and the sequences made of them                               *)

LEMMA ImageIsFinite ==
  ASSUME NEW S, IsFiniteSet(S), NEW f
  PROVE  IsFiniteSet({f[x] : x \in S})
<1> DEFINE T == {f[x] : x \in S}
           g == [x \in S |-> f[x]]
<1>1. g \in Surjection(S, T)
  BY DEF Surjection
<1> HIDE DEF g
<1> QED  BY <1>1, FS_Surjection

LEMMA SeqOfSet ==
  ASSUME NEW S, IsFiniteSet(S)
  PROVE  SetToSeq(S) \in Seq(S) /\ ToSet(SetToSeq(S)) = S
<1> DEFINE N == Cardinality(S)
           f == SetToSeq(S)
<1>1. N \in Nat /\ ExistsBijection(1..N, S)
  BY FS_CardinalityType
<1>2. PICK b : b \in Bijection(1..N, S)
  BY <1>1 DEF ExistsBijection
<1>3. b \in [1..N -> S] /\ IsInjective(b)
  BY <1>2 DEF Bijection, Injection
<1>4. f \in [1..N -> S] /\ IsInjective(f)
  BY <1>3 DEF SetToSeq
<1> HIDE DEF f
<1>5. f \in Injection(1..N, S)
  BY <1>4 DEF Injection
<1>6. f \in Surjection(1..N, S)
  BY <1>1, <1>5, FS_Injection, FS_Interval
<1>7. f \in Seq(S)
  BY <1>1, <1>4, SeqDef
<1>8. ToSet(f) = S
  BY <1>1, <1>4, <1>6 DEF ToSet, Surjection
<1> QED  BY <1>7, <1>8 DEF f

(* Every sequence of a set without repetition reaches all of it.            *)
LEMMA SeqsOfSet ==
  ASSUME NEW S, IsFiniteSet(S), NEW f \in SetToSeqs(S)
  PROVE  /\ f \in Seq(S) /\ Len(f) = Cardinality(S)
         /\ \A i, j \in 1..Len(f) : f[i] = f[j] => i = j
         /\ \A x \in S : \E i \in 1..Len(f) : f[i] = x
<1> DEFINE N == Cardinality(S)
<1>1. N \in Nat
  BY FS_CardinalityType
<1>2. f \in [1..N -> S] /\ \A i, j \in 1..N : i # j => f[i] # f[j]
  BY DEF SetToSeqs
<1>3. f \in Injection(1..N, S)
  BY <1>2 DEF Injection, IsInjective
<1>4. f \in Surjection(1..N, S)
  BY <1>1, <1>3, FS_Injection, FS_Interval
<1>5. f \in Seq(S) /\ Len(f) = N
  BY <1>1, <1>2, SeqDef
<1> QED  BY <1>2, <1>4, <1>5 DEF Surjection

LEMMA SeqsOfSetConverse ==
  ASSUME NEW S, NEW f \in Seq(S), IsInjective(f), ToSet(f) = S
  PROVE  f \in SetToSeqs(S)
<1>1. Len(f) \in Nat /\ f \in [1..Len(f) -> S]
  BY LenProperties
<1>2. f \in Bijection(1..Len(f), S)
  BY <1>1 DEF Bijection, Injection, Surjection, ToSet
<1>3. Cardinality(S) = Len(f)
  BY <1>1, <1>2, FS_CountingElements DEF ExistsBijection
<1> QED  BY <1>1, <1>3 DEF SetToSeqs, IsInjective

-----------------------------------------------------------------------------
(* The contributions of a set of manifests                                  *)

LEMMA Places ==
  ASSUME TypeOK, NEW place \in Declared \cup Offered
  PROVE  At(place) \in Contribution /\ At(place).id \in Names
<1>1. PICK m \in DOMAIN manifests : \E k \in DOMAIN manifests[m].contributions : place = <<m, k>>
  BY DEF Declared, Offered, Chosen, TypeOK
<1>2. PICK k \in DOMAIN manifests[m].contributions : place = <<m, k>>
  BY <1>1
<1>3. manifests[m] \in Manifest
  BY DEF TypeOK
<1>4. manifests[m].contributions \in Seq(Contribution)
  BY <1>3 DEF Manifest
<1>5. At(place) = manifests[m].contributions[k]
  BY <1>2 DEF At
<1>6. At(place) \in Contribution
  BY <1>2, <1>4, <1>5, ElementOfSeq, LenProperties
<1> QED  BY <1>6 DEF Contribution

LEMMA DeclaredIsFinite ==
  ASSUME TypeOK
  PROVE  IsFiniteSet(Declared)
<1> DEFINE ks(m) == {<<m, k>> : k \in DOMAIN manifests[m].contributions}
           f == [m \in plugins |-> ks(m)]
<1>1. \A m \in plugins : IsFiniteSet(ks(m))
  <2> SUFFICES ASSUME NEW m \in plugins
               PROVE  IsFiniteSet(ks(m))
    OBVIOUS
  <2> DEFINE c == manifests[m].contributions
             g == [k \in DOMAIN c |-> <<m, k>>]
  <2>1. m \in DOMAIN manifests /\ manifests[m] \in Manifest
    BY DEF TypeOK
  <2>2. c \in Seq(Contribution)
    BY <2>1 DEF Manifest
  <2>3. IsFiniteSet(DOMAIN c)
    BY <2>2, LenProperties, FS_Interval
  <2>4. IsFiniteSet({g[k] : k \in DOMAIN c})
    BY <2>3, ImageIsFinite
  <2>5. {g[k] : k \in DOMAIN c} = ks(m)
    OBVIOUS
  <2> QED  BY <2>4, <2>5
<1>2. IsFiniteSet(plugins)
  BY FS_Interval, FS_Subset, LenProperties DEF TypeOK
<1>3. IsFiniteSet({f[m] : m \in plugins})
  <2> HIDE DEF f
  <2> QED  BY <1>2, ImageIsFinite
<1>4. {f[m] : m \in plugins} = {ks(m) : m \in plugins}
  OBVIOUS
<1>5. IsFiniteSet(UNION {ks(m) : m \in plugins})
  <2> HIDE DEF ks, f
  <2>1. \A T \in {ks(m) : m \in plugins} : IsFiniteSet(T)
    BY <1>1
  <2> QED  BY <1>3, <1>4, <2>1, FS_UNION
<1> QED  BY <1>5 DEF Declared

LEMMA PeersAreFinite ==
  ASSUME TypeOK, NEW id
  PROVE  IsFiniteSet(Peers(id)) /\ Cardinality(Peers(id)) \in Nat
BY DeclaredIsFinite, FS_Subset, FS_CardinalityType DEF Peers

(* The one place of a contribution whose name is used once.                 *)
LEMMA OnlyPeer ==
  ASSUME TypeOK, NEW id, Cardinality(Peers(id)) = 1
  PROVE  /\ (CHOOSE place \in Peers(id) : TRUE) \in Peers(id)
         /\ \A p, q \in Peers(id) : p = q
BY PeersAreFinite, FS_Singleton

LEMMA MatchesAreFinite ==
  ASSUME TypeOK, NEW id
  PROVE  /\ IsFiniteSet(Matches(id)) /\ Cardinality(Matches(id)) \in Nat
         /\ Cardinality(Matches(id)) = 0 <=> Matches(id) = {}
<1>1. IsFiniteSet(DOMAIN manifests)
  BY LenProperties, FS_Interval DEF TypeOK
<1>2. Matches(id) \subseteq DOMAIN manifests
  BY DEF Matches
<1> QED  BY <1>1, <1>2, FS_Subset, FS_CardinalityType, FS_EmptySet

-----------------------------------------------------------------------------
(* References and the edges they ask for                                    *)

LEMMA Referenced ==
  ASSUME NEW r
  PROVE  r \in References <=>
           \E id \in DOMAIN nodes, kind \in {"requires", "before", "after"} :
             \E to \in Constraint(id, kind) : r = [from |-> id, to |-> to, kind |-> kind]
<1> DEFINE named(id, kind) ==
             {[from |-> id, to |-> to, kind |-> kind] : to \in Constraint(id, kind)}
<1>1. r \in References <=>
        \E id \in DOMAIN nodes, kind \in {"requires", "before", "after"} : r \in named(id, kind)
  <2>1. References = UNION {named(id, kind) : id \in DOMAIN nodes,
                                              kind \in {"requires", "before", "after"}}
    BY DEF References
  <2> HIDE DEF named
  <2> QED  BY <2>1
<1> QED  BY <1>1

LEMMA ReferencesAreTyped ==
  ASSUME TypeOK, NEW r \in References
  PROVE  /\ r.from \in DOMAIN nodes /\ r.from \in Names /\ r.to \in Names
         /\ r.kind \in {"requires", "before", "after"}
         /\ r.to \in Constraint(r.from, r.kind)
         /\ ~Missing(r) => Source(r) \in DOMAIN nodes /\ Destination(r) \in DOMAIN nodes
<1>1. PICK id \in DOMAIN nodes, kind \in {"requires", "before", "after"} :
        \E to \in Constraint(id, kind) : r = [from |-> id, to |-> to, kind |-> kind]
  BY Referenced
<1>2. PICK to \in Constraint(id, kind) : r = [from |-> id, to |-> to, kind |-> kind]
  BY <1>1
<1>3. r.from = id /\ r.to = to /\ r.kind = kind
  BY <1>2
<1>4. nodes[id] \in Contribution /\ id \in Names
  BY DEF TypeOK
<1>5. Constraint(id, kind) \subseteq Names
  BY <1>4 DEF Constraint, Contribution
<1> QED  BY <1>2, <1>3, <1>4, <1>5 DEF Missing, Source, Destination


-----------------------------------------------------------------------------
(* Typing, and the counters                                                 *)

LEMMA NodesAreTyped ==
  ASSUME TypeOK, NEW id \in DOMAIN nodes
  PROVE  id \in Nat /\ nodes[id].phase \in Nat /\ nodes[id] \in Contribution
BY GraphAssumption DEF TypeOK, Contribution

LEMMA WaitingIsFinite ==
  ASSUME Staged, NEW id
  PROVE  /\ IsFiniteSet(Waiting(id)) /\ Cardinality(Waiting(id)) \in Nat
         /\ Cardinality(Waiting(id)) = 0 <=> Waiting(id) = {}
BY FS_Subset, FS_CardinalityType, FS_EmptySet DEF Staged, Waiting

(* The least of the ready contributions exists: localeCompare and the       *)
(* catalog order them all.                                                 *)
LEMMA FirstIsReady ==
  ASSUME TypeOK, Ready # {}
  PROVE  First \in Ready /\ \A other \in Ready \ {First} : Precedes(First, other)
<1> DEFINE P == {nodes[id].phase : id \in Ready}
<1>1. \A id \in Ready : id \in Nat /\ nodes[id].phase \in Nat
  BY NodesAreTyped DEF Ready
<1>2. PICK p \in P : \A q \in P : p <= q
  BY <1>1, LeastNatural
<1> DEFINE S == {id \in Ready : nodes[id].phase = p}
<1>3. PICK a \in S : \A b \in S : a <= b
  BY <1>1, LeastNatural
<1>4. ASSUME NEW other \in Ready \ {a}
      PROVE  Precedes(a, other)
  <2>1. p \in Nat /\ a \in Nat /\ nodes[a].phase = p
    BY <1>1, <1>3
  <2>2. other \in Nat /\ nodes[other].phase \in Nat /\ p <= nodes[other].phase
    BY <1>1, <1>2
  <2>3. nodes[other].phase = p => a <= other
    BY <1>3
  <2> QED  BY <2>1, <2>2, <2>3 DEF Precedes
<1> QED  BY <1>3, <1>4 DEF First

LEMMA VisitedIsKnown ==
  ASSUME TypeOK
  PROVE  Visited \subseteq DOMAIN nodes
BY LenProperties, ElementOfSeq DEF TypeOK, Visited, ToSet

(* What the Visit of First does to the order.                               *)
LEMMA VisitAppends ==
  ASSUME TypeOK, Visit
  PROVE  /\ First \in DOMAIN nodes /\ First \notin Visited /\ indegree[First] = 0
         /\ order' \in Seq(DOMAIN nodes) /\ Len(order') = Len(order) + 1
         /\ DOMAIN order' = 1..Len(order) + 1
         /\ \A i \in 1..Len(order) : order'[i] = order[i]
         /\ order'[Len(order) + 1] = First
         /\ Visited' = Visited \cup {First}
         /\ IsInjective(order')
<1>1. First \in Ready
  BY FirstIsReady DEF Visit
<1>2. First \in DOMAIN nodes /\ First \notin Visited /\ indegree[First] = 0
  BY <1>1 DEF Ready
<1>3. order \in Seq(DOMAIN nodes) /\ IsInjective(order)
  BY DEF TypeOK
<1>4. order' = Append(order, First)
  BY DEF Visit
<1>5. /\ order' \in Seq(DOMAIN nodes) /\ Len(order') = Len(order) + 1
      /\ DOMAIN order' = 1..Len(order) + 1
      /\ \A i \in 1..Len(order) : order'[i] = order[i]
      /\ order'[Len(order) + 1] = First
  BY <1>2, <1>3, <1>4
<1>6. /\ ToSet(order') = ToSet(order) \cup {First}
      /\ IsInjective(order')
  <2> HIDE DEF Visited
  <2> QED  BY <1>2, <1>3, <1>4 DEF ToSet, IsInjective, Visited
<1> QED  BY <1>2, <1>5, <1>6 DEF Visited

LEMMA ReportIsTyped ==
  ASSUME NEW code \in Codes, NEW about \in Seq(Names)
  PROVE  Report(code, about).code \in Codes /\ Report(code, about).about \in Seq(Names)
BY DEF Report

LEMMA StepTyped ==
  ASSUME IInv, [Next]_vars
  PROVE  TypeOK'
<1> USE DEF IInv, arguments
<1>1. CASE SelectPlugins
  <2>1. plugins' \subseteq DOMAIN manifests'
    BY <1>1 DEF SelectPlugins, Matches
  <2>2. \A d \in diagnostics' : d.code \in Codes /\ d.about \in Seq(Names)
    <3>1. selected \subseteq Names
      BY DEF TypeOK
    <3>2. \A id \in Names : <<id>> \in Seq(Names)
      OBVIOUS
    <3> QED  BY <1>1, <3>1, <3>2 DEF SelectPlugins, Report, Codes
  <2>3. order' = order /\ nodes' = nodes /\ pc' = "collect"
    BY <1>1 DEF SelectPlugins
  <2> QED  BY <1>1, <2>1, <2>2, <2>3 DEF SelectPlugins, TypeOK
<1>2. CASE CollectContributions
  <2> DEFINE ids == {At(place).id : place \in Declared}
             unique == {id \in ids : Cardinality(Peers(id)) = 1}
  <2>1. nodes' = [id \in unique |-> At(CHOOSE place \in Peers(id) : TRUE)]
    BY <1>2 DEF CollectContributions
  <2>2. \A place \in Declared : At(place) \in Contribution /\ At(place).id \in Names
    BY Places
  <2>3. DOMAIN nodes' \subseteq Names
    BY <2>1, <2>2
  <2>4. \A id \in DOMAIN nodes' : nodes'[id] \in Contribution /\ nodes'[id].id = id
    <3> SUFFICES ASSUME NEW id \in DOMAIN nodes'
                 PROVE  nodes'[id] \in Contribution /\ nodes'[id].id = id
      OBVIOUS
    <3>1. id \in unique
      BY <2>1
    <3>2. (CHOOSE place \in Peers(id) : TRUE) \in Peers(id)
      BY <3>1, OnlyPeer
    <3> QED  BY <2>1, <2>2, <3>1, <3>2 DEF Peers
  <2>5. \A d \in diagnostics' : d.code \in Codes /\ d.about \in Seq(Names)
    <3>1. \A id \in Names : <<id>> \in Seq(Names)
      OBVIOUS
    <3>2. \A d \in diagnostics : d.code \in Codes /\ d.about \in Seq(Names)
      BY DEF TypeOK
    <3>3. ids \subseteq Names
      BY <2>2
    <3>4. \A d \in diagnostics' : \/ d \in diagnostics
                                  \/ \E id \in ids : d = Report("duplicate-contribution-id", <<id>>)
                                  \/ \E id \in ids : d = Report("unknown-phase", <<id>>)
      BY <1>2 DEF CollectContributions
    <3>5. {"duplicate-contribution-id", "unknown-phase"} \subseteq Codes
      BY DEF Codes
    <3> QED  BY <3>1, <3>2, <3>3, <3>4, <3>5, ReportIsTyped
  <2>6. order' = <<>> /\ pc' = "connect" /\ manifests' = manifests /\ selected' = selected
        /\ plugins' = plugins
    BY <1>2 DEF CollectContributions, Staged, Ordering
  <2>7. order' \in Seq(DOMAIN nodes') /\ IsInjective(order')
    BY <2>6, EmptySeq DEF IsInjective
  <2> QED  BY <2>3, <2>4, <2>5, <2>6, <2>7 DEF TypeOK
<1>3. CASE BuildEdges
  <2> DEFINE resolved == {r \in References : ~Missing(r)}
             links == {r \in resolved : ~Reversed(r)}
  <2>1. /\ edges' = [id \in DOMAIN nodes |-> {Destination(r) : r \in {l \in links : Source(l) = id}}]
        /\ indegree' = [id \in DOMAIN nodes |-> IndegreeOf(id, links)]
        /\ nodes' = nodes /\ order' = order /\ pc' = "order"
        /\ manifests' = manifests /\ selected' = selected /\ plugins' = plugins
    BY <1>3 DEF BuildEdges
  <2>2. \A r \in links : Source(r) \in DOMAIN nodes /\ Destination(r) \in DOMAIN nodes
    BY ReferencesAreTyped
  <2>3. edges' \in [DOMAIN nodes -> SUBSET DOMAIN nodes]
    <3> HIDE DEF links
    <3> QED  BY <2>1, <2>2
  <2>4. indegree' \in [DOMAIN nodes -> Nat]
    <3> SUFFICES ASSUME NEW id \in DOMAIN nodes
                 PROVE  IndegreeOf(id, links) \in Nat
      BY <2>1
    <3> DEFINE T == {Source(r) : r \in {l \in links : Destination(l) = id}}
    <3>1. T \subseteq DOMAIN nodes
      <4> HIDE DEF links
      <4> QED  BY <2>2
    <3>2. Cardinality(T) \in Nat
      BY <3>1, FS_Subset, FS_CardinalityType DEF Staged
    <3> QED  BY <3>2 DEF IndegreeOf
  <2>5. \A d \in diagnostics' : d.code \in Codes /\ d.about \in Seq(Names)
    <3>1. \A a, b \in Names : <<a, b>> \in Seq(Names)
      OBVIOUS
    <3>2. \A d \in diagnostics : d.code \in Codes /\ d.about \in Seq(Names)
      BY DEF TypeOK
    <3>3. \A r \in References : r.from \in Names /\ r.to \in Names
      BY ReferencesAreTyped
    <3>4. \A id \in DOMAIN nodes : id \in Names /\ nodes[id].conflicts \subseteq Names
      BY DEF TypeOK, Contribution
    <3>5. \A d \in diagnostics' :
            \/ d \in diagnostics
            \/ \E r \in References : d = Report("missing-referenced-contribution", <<r.from, r.to>>)
            \/ \E r \in References : d = Report("reversed-cross-phase-edge", <<r.from, r.to>>)
            \/ \E id \in DOMAIN nodes : \E other \in nodes[id].conflicts :
                 d = Report("selected-conflict", <<id, other>>)
      BY <1>3 DEF BuildEdges
    <3>6. {"missing-referenced-contribution", "reversed-cross-phase-edge",
           "selected-conflict"} \subseteq Codes
      BY DEF Codes
    <3> QED  BY <3>1, <3>2, <3>3, <3>4, <3>5, <3>6, ReportIsTyped
  <2> QED  BY <2>1, <2>3, <2>4, <2>5 DEF TypeOK
<1>4. CASE Visit
  <2>1. \A id \in DOMAIN nodes : id \in edges[First] => indegree[id] # 0
    <3> SUFFICES ASSUME NEW id \in DOMAIN nodes, id \in edges[First]
                 PROVE  indegree[id] # 0
      OBVIOUS
    <3>1. First \in Waiting(id)
      BY <1>4, VisitAppends DEF Waiting
    <3> QED  BY <1>4, <3>1, WaitingIsFinite DEF Counted, Visit
  <2>2. indegree' \in [DOMAIN nodes -> Nat]
    BY <1>4, <2>1 DEF Visit, TypeOK
  <2> QED  BY <1>4, <2>2, VisitAppends DEF Visit, TypeOK
<1>5. CASE ReportCycle
  <2>1. IsFiniteSet(Remaining)
    BY FS_Subset DEF Remaining, Staged
  <2>2. SetToSeq(Remaining) \in Seq(Remaining)
    BY <2>1, SeqOfSet
  <2>3. SetToSeq(Remaining) \in Seq(Names)
    BY <2>2, SeqMonotonic DEF Remaining, TypeOK
  <2>4. \A d \in diagnostics' : d.code \in Codes /\ d.about \in Seq(Names)
    BY <1>5, <2>3 DEF ReportCycle, TypeOK, Report, Codes
  <2>5. order' \in Seq(DOMAIN nodes') /\ IsInjective(order')
    BY <1>5, EmptySeq DEF ReportCycle, IsInjective
  <2> QED  BY <1>5, <2>4, <2>5 DEF ReportCycle, TypeOK
<1>6. CASE Finish
  BY <1>6 DEF Finish, TypeOK
<1>7. CASE UNCHANGED vars
  BY <1>7 DEF vars, TypeOK
<1> QED  BY <1>1, <1>2, <1>3, <1>4, <1>5, <1>6, <1>7 DEF Next


LEMMA StepStaged ==
  ASSUME IInv, [Next]_vars
  PROVE  Staged'
<1> USE DEF IInv
<1>1. CASE SelectPlugins
  BY <1>1 DEF SelectPlugins, Staged, Ordering
<1>2. CASE CollectContributions
  <2> DEFINE g == [place \in Declared |-> At(place).id]
             ids == {g[place] : place \in Declared}
  <2>1. IsFiniteSet(ids)
    <3> HIDE DEF g
    <3> QED  BY DeclaredIsFinite, ImageIsFinite
  <2>2. DOMAIN nodes' \subseteq ids
    BY <1>2 DEF CollectContributions
  <2>3. IsFiniteSet(DOMAIN nodes')
    <3> HIDE DEF ids
    <3> QED  BY <2>1, <2>2, FS_Subset
  <2> QED  BY <1>2, <2>3 DEF CollectContributions, Staged, Ordering
<1>3. CASE BuildEdges \/ Visit \/ ReportCycle \/ Finish
  BY <1>3 DEF BuildEdges, Visit, ReportCycle, Finish, Staged, Ordering
<1>4. CASE UNCHANGED vars
  BY <1>4 DEF vars, Staged, Ordering
<1> QED  BY <1>1, <1>2, <1>3, <1>4 DEF Next

(* buildEdges: the edges are those of the references that are kept.         *)
LEMMA EdgesAreLinks ==
  ASSUME IInv, BuildEdges
  PROVE  /\ edges' = [id \in DOMAIN nodes |->
                        {Destination(r) : r \in {l \in Links : Source(l) = id}}]
         /\ indegree' = [id \in DOMAIN nodes |-> IndegreeOf(id, Links)]
         /\ nodes' = nodes /\ order' = order /\ Links' = Links
         /\ \A r \in Links : Source(r) \in DOMAIN nodes /\ Destination(r) \in DOMAIN nodes
<1> DEFINE resolved == {r \in References : ~Missing(r)}
           links == {r \in resolved : ~Reversed(r)}
<1>1. links = Links
  BY DEF Links
<1>2. /\ edges' = [id \in DOMAIN nodes |-> {Destination(r) : r \in {l \in links : Source(l) = id}}]
      /\ indegree' = [id \in DOMAIN nodes |-> IndegreeOf(id, links)]
      /\ nodes' = nodes /\ order' = order
  BY DEF BuildEdges
<1>3. Links' = Links
  BY <1>2 DEF Links, References, Constraint, Missing, Reversed, Source, Destination
<1>4. \A r \in Links : Source(r) \in DOMAIN nodes /\ Destination(r) \in DOMAIN nodes
  BY ReferencesAreTyped DEF Links, IInv
<1> HIDE DEF links
<1> QED  BY <1>1, <1>2, <1>3, <1>4

LEMMA LinksAreKept ==
  ASSUME nodes' = nodes
  PROVE  Links' = Links
BY DEF Links, References, Constraint, Missing, Reversed, Source, Destination

LEMMA StepLinked ==
  ASSUME IInv, [Next]_vars
  PROVE  Linked'
<1> USE DEF IInv
<1>1. CASE SelectPlugins \/ CollectContributions
  BY <1>1 DEF SelectPlugins, CollectContributions, Linked, Ordering
<1>2. CASE BuildEdges
  <2> HIDE DEF IInv
  <2>1. \A s, id \in DOMAIN nodes : id \in edges'[s] <=>
          \E r \in Links : Source(r) = s /\ Destination(r) = id
    BY <1>2, EdgesAreLinks
  <2> QED  BY <1>2, <2>1, EdgesAreLinks DEF Linked, Source, Destination
<1>3. CASE Visit \/ ReportCycle \/ Finish \/ UNCHANGED vars
  <2>1. nodes' = nodes /\ edges' = edges /\ (Ordering' => Ordering)
    BY <1>3 DEF Visit, ReportCycle, Finish, vars, Ordering
  <2> QED  BY <2>1, LinksAreKept DEF Linked, Source, Destination
<1> QED  BY <1>1, <1>2, <1>3 DEF Next

(* Visiting a contribution takes it out of what the others wait for.        *)
LEMMA VisitReleases ==
  ASSUME IInv, Visit, NEW id
  PROVE  Waiting(id)' = Waiting(id) \ {First}
BY VisitAppends DEF IInv, Waiting, Visit

LEMMA StepCounted ==
  ASSUME IInv, [Next]_vars
  PROVE  Counted'
<1> USE DEF IInv
<1>1. CASE SelectPlugins \/ CollectContributions \/ ReportCycle \/ Finish
  BY <1>1 DEF SelectPlugins, CollectContributions, ReportCycle, Finish, Counted
<1>2. CASE BuildEdges
  <2>1. Visited' = {}
    BY <1>2, EdgesAreLinks DEF BuildEdges, Staged, Ordering, Visited, ToSet
  <2>2. ASSUME NEW id \in DOMAIN nodes
        PROVE  Waiting(id)' = {Source(r) : r \in {l \in Links : Destination(l) = id}}
    <3> HIDE DEF IInv
    <3>1. \A s \in DOMAIN nodes : id \in edges'[s] <=>
            \E r \in Links : Source(r) = s /\ Destination(r) = id
      BY <1>2, EdgesAreLinks
    <3>2. Waiting(id)' = {s \in DOMAIN nodes : id \in edges'[s]}
      BY <1>2, <2>1, EdgesAreLinks DEF Waiting
    <3> QED  BY <1>2, <3>1, <3>2, EdgesAreLinks
  <2>3. \A id \in DOMAIN nodes : indegree'[id] = Cardinality(Waiting(id)')
    BY <1>2, <2>2, EdgesAreLinks DEF IndegreeOf
  <2> QED  BY <1>2, <2>1, <2>3, EdgesAreLinks DEF Counted
<1>3. CASE Visit
  <2>1. /\ First \in DOMAIN nodes /\ First \notin Visited /\ indegree[First] = 0
        /\ Visited' = Visited \cup {First}
        /\ nodes' = nodes /\ edges' = edges /\ pc = "order"
        /\ indegree' = [id \in DOMAIN nodes |->
                          IF id \in edges[First] THEN indegree[id] - 1 ELSE indegree[id]]
    BY <1>3, VisitAppends DEF Visit
  <2>2. Waiting(First) = {}
    BY <2>1, WaitingIsFinite DEF Counted
  <2>3. \A id \in Visited' : Waiting(id)' = {}
    BY <1>3, <2>1, <2>2, VisitReleases DEF Counted
  <2>4. ASSUME NEW id \in DOMAIN nodes
        PROVE  indegree'[id] = Cardinality(Waiting(id)')
    <3>1. First \in Waiting(id) <=> id \in edges[First]
      BY <2>1 DEF Waiting
    <3>2. Cardinality(Waiting(id) \ {First}) =
            IF First \in Waiting(id) THEN Cardinality(Waiting(id)) - 1
            ELSE Cardinality(Waiting(id))
      BY WaitingIsFinite, FS_RemoveElement
    <3>3. Waiting(id)' = Waiting(id) \ {First}
      BY <1>3, VisitReleases
    <3> QED  BY <2>1, <3>1, <3>2, <3>3 DEF Counted
  <2> QED  BY <2>1, <2>3, <2>4 DEF Counted
<1>4. CASE UNCHANGED vars
  BY <1>4 DEF vars, Counted, Waiting, Visited
<1> QED  BY <1>1, <1>2, <1>3, <1>4 DEF Next


-----------------------------------------------------------------------------
(* What the input asks for                                                  *)

LEMMA InputIsKept ==
  ASSUME arguments' = arguments
  PROVE  /\ Chosen' = Chosen /\ Offered' = Offered /\ Wanted' = Wanted
         /\ WellFormed' = WellFormed
         /\ \A id : The(id)' = The(id)
         /\ \A id : Matches(id)' = Matches(id)
         /\ \A id : Respected(id)' = Respected(id)
         /\ Plans' = Plans
<1>1. manifests' = manifests /\ selected' = selected
  BY DEF arguments
<1>2. \A id : Matches(id)' = Matches(id)
  BY <1>1 DEF Matches
<1>3. Chosen' = Chosen
  BY <1>1 DEF Chosen
<1>4. Offered' = Offered
  BY <1>1, <1>3 DEF Offered
<1>5. \A p : At(p)' = At(p)
  BY <1>1 DEF At
<1>6. Wanted' = Wanted
  BY <1>4, <1>5 DEF Wanted
<1>7. \A id : The(id)' = The(id)
  BY <1>1, <1>4 DEF The, At
<1>8. WellFormed' = WellFormed
  BY <1>1, <1>2, <1>4, <1>5 DEF WellFormed
<1>9. \A id : Respected(id)' = Respected(id)
  BY <1>1, <1>6, <1>7 DEF Respected
<1>10. \A f : IsPlan(f)' = IsPlan(f)
  BY <1>1, <1>6, <1>7 DEF IsPlan
<1>11. Plans' = Plans
  BY <1>6, <1>8, <1>10 DEF Plans
<1> QED  BY <1>2, <1>3, <1>4, <1>6, <1>7, <1>8, <1>9, <1>11

(* The contribution of a wanted name is the only one that bears it.         *)
LEMMA TheOne ==
  ASSUME TypeOK, WellFormed, NEW id \in Wanted
  PROVE  /\ \A p \in Offered : At(p).id = id => At(p) = The(id)
         /\ The(id) \in Contribution /\ The(id).id = id
         /\ The(id).phase # Unknown
<1>1. PICK p \in Offered : At(p).id = id
  BY DEF Wanted
<1> DEFINE q == CHOOSE q \in Offered : At(q).id = id
<1>2. q \in Offered /\ At(q).id = id
  BY <1>1
<1>3. The(id) = At(q)
  BY DEF The
<1> HIDE DEF q
<1> QED  BY <1>2, <1>3, Places DEF WellFormed

LEMMA EdgesKeepPhases ==
  ASSUME TypeOK, Linked, Complete, Ordering, ok,
         NEW s \in DOMAIN nodes, NEW id \in DOMAIN nodes, id \in edges[s]
  PROVE  nodes[s].phase <= nodes[id].phase
<1>1. PICK r \in Links : Source(r) = s /\ Destination(r) = id
  BY DEF Linked
<1>2. r \in References /\ ~Missing(r) /\ ~Reversed(r)
  BY DEF Links
<1>3. r.from \in DOMAIN nodes /\ r.to \in DOMAIN nodes
  BY <1>2, ReferencesAreTyped DEF Missing
<1>4. WellFormed /\ DOMAIN nodes = Wanted /\ \A x \in Wanted : nodes[x] = The(x)
  BY DEF Complete, Ordering
<1>5. nodes[r.from].phase # Unknown /\ nodes[r.to].phase # Unknown
  BY <1>3, <1>4, TheOne
<1>6. ~(nodes[s].phase > nodes[id].phase)
  BY <1>1, <1>2, <1>5 DEF Reversed
<1> QED  BY <1>6, NodesAreTyped

LEMMA StepSorted ==
  ASSUME IInv, [Next]_vars
  PROVE  Sorted'
<1> USE DEF IInv
<1>1. CASE SelectPlugins \/ CollectContributions
  <2>1. order' = <<>> /\ pc' # "done"
    BY <1>1 DEF SelectPlugins, CollectContributions, Staged, Ordering
  <2> QED  BY <2>1 DEF Sorted
<1>2. CASE BuildEdges
  <2>1. order' = <<>> /\ pc' # "done"
    BY <1>2 DEF BuildEdges, Staged, Ordering
  <2> QED  BY <2>1 DEF Sorted
<1>3. CASE Visit
  <2> DEFINE n == Len(order) + 1
  <2>0. PICK k : k = n
    OBVIOUS
  <2>1. /\ First \in DOMAIN nodes /\ First \notin Visited
        /\ DOMAIN order' = 1..k /\ DOMAIN order = 1..k - 1 /\ k \in Nat \ {0}
        /\ \A i \in 1..k - 1 : order'[i] = order[i] /\ order[i] \in DOMAIN nodes
        /\ order'[k] = First
        /\ Ready # {}
        /\ nodes' = nodes /\ edges' = edges /\ pc = "order" /\ pc' = "order"
        /\ diagnostics' = diagnostics
    BY <1>3, <2>0, VisitAppends, LenProperties, ElementOfSeq DEF Visit, TypeOK
  <2>2. \A i \in 1..k : Before(i)' = Before(i)
    BY <2>1 DEF Before
  <2>3. Before(k) = Visited
    BY <2>1 DEF Before, Visited, ToSet
  <2>4. \A id \in DOMAIN nodes : Free(id, k) <=> Waiting(id) = {}
    BY <2>3 DEF Free, Waiting
  <2>5. \A i \in 1..k, id \in DOMAIN nodes : Free(id, i)' = Free(id, i)
    BY <2>1, <2>2 DEF Free
  <2>6. ASSUME NEW i \in 1..k
        PROVE  WellChosen(i)'
    <3>1. CASE i < k
      <4>1. i \in 1..k - 1
        BY <2>1, <3>1
      <4>2. order'[i] = order[i] /\ order[i] \in DOMAIN nodes /\ WellChosen(i)
        BY <2>1, <4>1 DEF Sorted
      <4> QED  BY <2>1, <2>2, <2>5, <4>2 DEF WellChosen, Precedes
    <3>2. CASE i = k
      <4>1. First \in Ready /\ \A other \in Ready \ {First} : Precedes(First, other)
        BY <2>1, FirstIsReady
      <4>2. indegree[First] = 0
        BY <4>1 DEF Ready
      <4>3. Free(First, k)
        BY <2>1, <2>4, <4>2, WaitingIsFinite DEF Counted
      <4>4. \A id \in DOMAIN nodes : id \notin Visited /\ Free(id, k) => id \in Ready
        BY <2>1, <2>4, WaitingIsFinite DEF Counted, Ready
      <4> QED  BY <2>1, <2>2, <2>3, <2>5, <3>2, <4>1, <4>3, <4>4 DEF WellChosen, Precedes
    <3> QED  BY <2>1, <3>1, <3>2
  <2>7. ASSUME ok, NEW i \in 1..k - 1
        PROVE  nodes[order[i]].phase <= nodes[First].phase
    <3>1. order[i] \in DOMAIN nodes
      BY <2>1
    <3>2. CASE Free(First, i)
      <4>1. First \notin Before(i) /\ First # order[i]
        BY <2>1 DEF Before, Visited, ToSet
      <4>2. Precedes(order[i], First)
        BY <2>1, <3>2, <4>1 DEF Sorted, WellChosen
      <4> QED  BY <2>1, <3>1, <4>2, NodesAreTyped DEF Precedes
    <3>3. CASE ~Free(First, i)
      <4>1. PICK s \in DOMAIN nodes : First \in edges[s] /\ s \notin Before(i)
        BY <3>3 DEF Free
      <4>2. First \in Ready
        BY <2>1, FirstIsReady
      <4>3. Waiting(First) = {}
        BY <2>1, <4>2, WaitingIsFinite DEF Counted, Ready
      <4>4. PICK j \in 1..k - 1 : order[j] = s
        BY <2>1, <4>1, <4>3 DEF Waiting, Visited, ToSet
      <4>5. i <= j
        BY <2>1, <4>1, <4>4 DEF Before
      <4>6. nodes[order[i]].phase <= nodes[s].phase
        <5>1. CASE i = j
          BY <3>1, <4>4, <5>1, NodesAreTyped
        <5>2. CASE i < j
          BY <2>1, <2>7, <4>4, <5>2 DEF Sorted
        <5> QED  BY <2>1, <4>5, <5>1, <5>2
      <4>7. nodes[s].phase <= nodes[First].phase
        BY <2>1, <2>7, <4>1, EdgesKeepPhases DEF Ordering
      <4> QED  BY <2>1, <3>1, <4>6, <4>7, NodesAreTyped
    <3> QED  BY <3>2, <3>3
  <2>8. ASSUME ok', NEW i \in 1..k, NEW j \in 1..k, i < j
        PROVE  nodes'[order'[i]].phase <= nodes'[order'[j]].phase
    <3>1. ok
      BY <2>1, <2>8 DEF ok
    <3>2. i \in 1..k - 1
      BY <2>1, <2>8
    <3>3. CASE j = k
      BY <2>1, <2>7, <3>1, <3>2, <3>3
    <3>4. CASE j # k
      <4>1. j \in 1..k - 1
        BY <2>1, <3>4
      <4> QED  BY <2>1, <2>8, <3>1, <3>2, <4>1 DEF Sorted
    <3> QED  BY <3>3, <3>4
  <2> QED  BY <2>1, <2>6, <2>8 DEF Sorted
<1>4. CASE ReportCycle
  <2>1. order' = <<>> /\ ~ok'
    BY <1>4 DEF ReportCycle, ok
  <2> QED  BY <2>1 DEF Sorted
<1>5. CASE Finish
  BY <1>5 DEF Finish, Sorted, WellChosen, Free, Before, Precedes, Visited, ok
<1>6. CASE UNCHANGED vars
  BY <1>6 DEF vars, Sorted, WellChosen, Free, Before, Precedes, Visited, ok
<1> QED  BY <1>1, <1>2, <1>3, <1>4, <1>5, <1>6 DEF Next


-----------------------------------------------------------------------------
(* Without a diagnostic the graph is the one the input asks for             *)

LEMMA StepComplete ==
  ASSUME IInv, [Next]_vars
  PROVE  Complete'
<1> USE DEF IInv
<1>0. arguments' = arguments
  BY DEF Next, SelectPlugins, CollectContributions, BuildEdges, Visit, ReportCycle, Finish,
         vars
<1>1. CASE SelectPlugins
  <2>1. pc' = "collect"
    BY <1>1 DEF SelectPlugins
  <2>2. plugins' \subseteq Chosen
    BY <1>1 DEF SelectPlugins, Matches, Chosen
  <2>3. ASSUME ok'
        PROVE  plugins' = Chosen /\ \A id \in selected : Cardinality(Matches(id)) = 1
    <3>1. \A id \in selected : Matches(id) # {} /\ ~(Cardinality(Matches(id)) > 1)
      BY <1>1, <2>3 DEF SelectPlugins, ok
    <3>2. \A id \in selected : Cardinality(Matches(id)) = 1
      BY <3>1, MatchesAreFinite
    <3>3. Chosen \subseteq plugins'
      BY <1>1, <3>2 DEF SelectPlugins, Matches, Chosen
    <3> QED  BY <2>2, <3>2, <3>3
  <2>4. selected' = selected
    BY <1>0 DEF arguments
  <2> QED  BY <1>0, <2>1, <2>2, <2>3, <2>4, InputIsKept DEF Complete, Ordering
<1>2. CASE CollectContributions
  <2> DEFINE ids == {At(place).id : place \in Declared}
             unique == {id \in ids : Cardinality(Peers(id)) = 1}
  <2>1. /\ pc = "collect" /\ pc' = "connect" /\ plugins' = plugins
        /\ nodes' = [id \in unique |-> At(CHOOSE place \in Peers(id) : TRUE)]
        /\ selected' = selected
    BY <1>0, <1>2 DEF CollectContributions, arguments
  <2>2. ASSUME ok'
        PROVE  WellFormed /\ DOMAIN nodes' = Wanted /\ \A id \in Wanted : nodes'[id] = The(id)
    <3>1. ok /\ \A id \in ids : id \in unique
      BY <1>2, <2>2 DEF CollectContributions, ok
    <3>2. \A p \in Declared : At(p).phase # Unknown
      BY <1>2, <2>2 DEF CollectContributions, ok
    <3>3. plugins = Chosen /\ \A id \in selected : Cardinality(Matches(id)) = 1
      BY <2>1, <3>1 DEF Complete
    <3>4. Declared = Offered
      BY <3>3 DEF Declared, Offered
    <3>5. ASSUME NEW p \in Offered, NEW q \in Offered, At(p).id = At(q).id
          PROVE  p = q
      <4>1. p \in Peers(At(p).id) /\ q \in Peers(At(p).id)
        BY <3>4, <3>5 DEF Peers
      <4>2. Cardinality(Peers(At(p).id)) = 1
        BY <3>1, <3>4
      <4> QED  BY <4>1, <4>2, OnlyPeer
    <3>6. WellFormed
      BY <3>2, <3>3, <3>4, <3>5 DEF WellFormed
    <3>7. ids = Wanted /\ DOMAIN nodes' = Wanted
      BY <2>1, <3>1, <3>4 DEF Wanted
    <3>8. ASSUME NEW id \in Wanted
          PROVE  nodes'[id] = The(id)
      <4>1. id \in unique
        BY <3>1, <3>7
      <4>2. (CHOOSE place \in Peers(id) : TRUE) \in Peers(id)
        BY <4>1, OnlyPeer
      <4>3. nodes'[id] = At(CHOOSE place \in Peers(id) : TRUE)
        BY <2>1, <4>1
      <4> QED  BY <3>4, <3>6, <4>2, <4>3, TheOne DEF Peers
    <3> QED  BY <3>6, <3>7, <3>8
  <2>3. plugins \subseteq Chosen
    BY <2>1 DEF Complete
  <2>4. ok' => plugins = Chosen /\ \A id \in selected : Cardinality(Matches(id)) = 1
    BY <1>2, <2>1 DEF CollectContributions, ok, Complete
  <2> QED  BY <1>0, <2>1, <2>2, <2>3, <2>4, InputIsKept DEF Complete, Ordering
<1>3. CASE BuildEdges
  <2>1. /\ pc = "connect" /\ pc' = "order" /\ plugins' = plugins /\ nodes' = nodes
        /\ selected' = selected
    BY <1>0, <1>3 DEF BuildEdges, arguments
  <2>2. ok' => ok
    BY <1>3 DEF BuildEdges, ok
  <2>3. ASSUME ok'
        PROVE  Links = References /\ \A id \in Wanted : Respected(id)
    <3>0. diagnostics' = {}
      BY <2>3 DEF ok
    <3>1. \A r \in References : ~Missing(r)
      <4> SUFFICES ASSUME NEW r \in References, Missing(r)
                   PROVE  FALSE
        OBVIOUS
      <4>1. Report("missing-referenced-contribution", <<r.from, r.to>>) \in diagnostics'
        BY <1>3 DEF BuildEdges
      <4> QED  BY <3>0, <4>1
    <3>2. \A r \in References : ~Reversed(r)
      <4> SUFFICES ASSUME NEW r \in References, Reversed(r)
                   PROVE  FALSE
        OBVIOUS
      <4>1. Report("reversed-cross-phase-edge", <<r.from, r.to>>) \in diagnostics'
        BY <1>3, <3>1 DEF BuildEdges
      <4> QED  BY <3>0, <4>1
    <3>3. \A id \in DOMAIN nodes : nodes[id].conflicts \cap (DOMAIN nodes \cup selected) = {}
      <4> DEFINE told(id) == {Report("selected-conflict", <<id, other>>) :
                                other \in nodes[id].conflicts \cap (DOMAIN nodes \cup selected)}
      <4>1. UNION {told(id) : id \in DOMAIN nodes} \subseteq diagnostics'
        BY <1>3 DEF BuildEdges
      <4>2. \A id \in DOMAIN nodes : told(id) = {}
        <5> HIDE DEF told
        <5> QED  BY <2>3, <4>1 DEF ok
      <4> QED  BY <4>2
    <3>4. DOMAIN nodes = Wanted /\ \A id \in Wanted : nodes[id] = The(id)
      BY <2>1, <2>2, <2>3 DEF Complete
    <3>5. ASSUME NEW id \in Wanted,
                 NEW to \in The(id).requires \cup The(id).before \cup The(id).after
          PROVE  to \in Wanted
      <4>1. PICK kind \in {"requires", "before", "after"} : to \in Constraint(id, kind)
        BY <3>4, <3>5 DEF Constraint
      <4> DEFINE r == [from |-> id, to |-> to, kind |-> kind]
      <4>2. r \in References
        BY <3>4, <4>1, Referenced
      <4> QED  BY <3>1, <3>4, <4>2 DEF Missing
    <3> QED  BY <3>1, <3>2, <3>3, <3>4, <3>5 DEF Links, Respected
  <2>4. Links' = Links /\ References' = References
    BY <2>1, LinksAreKept DEF References, Constraint
  <2> QED  BY <1>0, <2>1, <2>2, <2>3, <2>4, InputIsKept DEF Complete, Ordering
<1>4. CASE Visit \/ ReportCycle \/ Finish \/ UNCHANGED vars
  <2>1. /\ plugins' = plugins /\ nodes' = nodes
        /\ (ok' => ok) /\ (Ordering' => Ordering)
        /\ pc' # "select" => pc # "select"
        /\ pc' \notin {"select", "collect"} => pc \notin {"select", "collect"}
    BY <1>4 DEF Visit, ReportCycle, Finish, vars, ok, Ordering
  <2>2. Links' = Links /\ References' = References
    BY <2>1, LinksAreKept DEF References, Constraint
  <2>3. selected' = selected
    BY <1>0 DEF arguments
  <2> QED  BY <1>0, <2>1, <2>2, <2>3, InputIsKept DEF Complete
<1> QED  BY <1>1, <1>2, <1>3, <1>4 DEF Next


-----------------------------------------------------------------------------
(* With a diagnostic there is no plan                                       *)

Place(f, id) == CHOOSE i \in DOMAIN f : f[i] = id

LEMMA WantedIsFinite ==
  ASSUME TypeOK, Staged, Complete, pc \notin {"select", "collect"}, ok
  PROVE  IsFiniteSet(Wanted)
BY DEF Complete, Staged

(* What is known of every plan.                                             *)
LEMMA PlanProperties ==
  ASSUME TypeOK, IsFiniteSet(Wanted), NEW f \in Plans
  PROVE  /\ WellFormed
         /\ f \in Seq(Wanted) /\ Len(f) = Cardinality(Wanted)
         /\ \A i, j \in 1..Len(f) : f[i] = f[j] => i = j
         /\ \A i \in 1..Len(f) : Place(f, f[i]) = i
         /\ \A id \in Wanted : Place(f, id) \in 1..Len(f) /\ f[Place(f, id)] = id
         /\ \A i, j \in 1..Len(f) : i < j => The(f[i]).phase <= The(f[j]).phase
         /\ \A id \in Wanted :
              /\ Respected(id)
              /\ \A other \in The(id).requires \cup The(id).after : Place(f, other) < Place(f, id)
              /\ \A other \in The(id).before : Place(f, id) < Place(f, other)
<1>1. WellFormed /\ f \in SetToSeqs(Wanted) /\ IsPlan(f)
  BY DEF Plans
<1>2. /\ f \in Seq(Wanted) /\ Len(f) = Cardinality(Wanted)
      /\ \A i, j \in 1..Len(f) : f[i] = f[j] => i = j
      /\ \A x \in Wanted : \E i \in 1..Len(f) : f[i] = x
  BY <1>1, SeqsOfSet
<1>3. DOMAIN f = 1..Len(f)
  BY <1>2, LenProperties
<1>4. \A id \in Wanted : Place(f, id) \in 1..Len(f) /\ f[Place(f, id)] = id
  BY <1>2, <1>3 DEF Place
<1>5. \A i \in 1..Len(f) : Place(f, f[i]) = i
  BY <1>2, <1>3 DEF Place
<1>6. /\ \A i, j \in 1..Len(f) : i < j => The(f[i]).phase <= The(f[j]).phase
      /\ \A id \in Wanted :
           /\ Respected(id)
           /\ \A other \in The(id).requires \cup The(id).after : Place(f, other) < Place(f, id)
           /\ \A other \in The(id).before : Place(f, id) < Place(f, other)
  BY <1>1, <1>3 DEF IsPlan, Place, Respected
<1> QED  BY <1>1, <1>2, <1>4, <1>5, <1>6

(* In a plan the source of a reference is ahead of its destination.         *)
LEMMA PlanFollowsReferences ==
  ASSUME TypeOK, WellFormed, IsFiniteSet(Wanted), DOMAIN nodes = Wanted,
         \A id \in Wanted : nodes[id] = The(id),
         NEW f \in Plans, NEW r \in References
  PROVE  /\ ~Missing(r)
         /\ Source(r) \in Wanted /\ Destination(r) \in Wanted
         /\ Place(f, Source(r)) < Place(f, Destination(r))
<1>1. r.from \in Wanted /\ r.kind \in {"requires", "before", "after"}
      /\ r.to \in Constraint(r.from, r.kind)
  BY ReferencesAreTyped
<1>2. nodes[r.from] = The(r.from)
  BY <1>1
<1>3. Respected(r.from)
      /\ (\A other \in The(r.from).requires \cup The(r.from).after :
            Place(f, other) < Place(f, r.from))
      /\ (\A other \in The(r.from).before : Place(f, r.from) < Place(f, other))
  BY <1>1, PlanProperties
<1>4. r.to \in Wanted
  BY <1>1, <1>2, <1>3 DEF Respected, Constraint
<1>5. Place(f, Source(r)) < Place(f, Destination(r))
  BY <1>1, <1>2, <1>3 DEF Constraint, Source, Destination
<1> QED  BY <1>1, <1>4, <1>5 DEF Missing, Source, Destination

LEMMA StepRefuted ==
  ASSUME IInv, [Next]_vars
  PROVE  Refuted'
<1> USE DEF IInv
<1>0. Plans' = Plans
  BY InputIsKept DEF Next, SelectPlugins, CollectContributions, BuildEdges, Visit, ReportCycle,
         Finish, vars
<1> SUFFICES ASSUME ok, ~ok', NEW f \in Plans
             PROVE  FALSE
  BY <1>0 DEF Refuted
<1>1. WellFormed
  BY DEF Plans
<1>2. CASE SelectPlugins
  <2>1. PICK id \in selected : Matches(id) = {} \/ Cardinality(Matches(id)) > 1
    BY <1>2 DEF SelectPlugins, ok
  <2>2. Cardinality(Matches(id)) = 1
    BY <1>1 DEF WellFormed
  <2> QED  BY <2>1, <2>2, MatchesAreFinite
<1>3. CASE CollectContributions
  <2> DEFINE ids == {At(place).id : place \in Declared}
             unique == {id \in ids : Cardinality(Peers(id)) = 1}
  <2>1. Declared \subseteq Offered
    BY <1>3 DEF CollectContributions, Complete, Declared, Offered
  <2>2. \A p \in Declared : At(p).phase # Unknown
    BY <1>1, <2>1 DEF WellFormed
  <2>3. PICK id \in ids : Cardinality(Peers(id)) # 1
    BY <1>3, <2>2 DEF CollectContributions, ok
  <2>4. PICK p \in Declared : At(p).id = id
    OBVIOUS
  <2>5. Peers(id) = {p}
    BY <1>1, <2>1, <2>4 DEF Peers, WellFormed
  <2> QED  BY <2>3, <2>5, FS_Singleton
<1>4. CASE BuildEdges
  <2>1. /\ pc = "connect" /\ DOMAIN nodes = Wanted /\ \A id \in Wanted : nodes[id] = The(id)
    BY <1>4 DEF BuildEdges, Complete
  <2>2. IsFiniteSet(Wanted)
    BY <2>1 DEF Staged
  <2>3. \A r \in References : ~Missing(r)
    BY <1>1, <2>1, <2>2, PlanFollowsReferences
  <2>4. ASSUME NEW r \in References
        PROVE  ~Reversed(r)
    <3>1. /\ Source(r) \in Wanted /\ Destination(r) \in Wanted
          /\ Place(f, Source(r)) < Place(f, Destination(r))
      BY <1>1, <2>1, <2>2, PlanFollowsReferences
    <3>2. The(Source(r)).phase <= The(Destination(r)).phase
      BY <2>2, <3>1, PlanProperties, SMTT(30)
    <3>3. nodes[Source(r)].phase <= nodes[Destination(r)].phase
      BY <2>1, <3>1, <3>2
    <3>4. nodes[Source(r)].phase \in Nat /\ nodes[Destination(r)].phase \in Nat
      BY <2>1, <3>1, NodesAreTyped
    <3> QED  BY <3>3, <3>4 DEF Reversed
  <2>5. \A id \in DOMAIN nodes : nodes[id].conflicts \cap (DOMAIN nodes \cup selected) = {}
    BY <2>1, <2>2, PlanProperties DEF Respected
  <2>6. diagnostics' = {}
    BY <1>4, <2>3, <2>4, <2>5, ZenonT(30) DEF BuildEdges, ok
  <2> QED  BY <2>6 DEF ok
<1>5. CASE ReportCycle
  <2>1. /\ pc = "order" /\ DOMAIN nodes = Wanted /\ Links = References
        /\ \A id \in Wanted : nodes[id] = The(id)
    BY <1>5 DEF ReportCycle, Complete, Ordering
  <2>2. IsFiniteSet(Wanted)
    BY <2>1 DEF Staged
  <2>3. \A id \in Remaining : \E s \in Remaining : id \in edges[s]
    <3> SUFFICES ASSUME NEW id \in Remaining
                 PROVE  \E s \in Remaining : id \in edges[s]
      OBVIOUS
    <3>1. id \in DOMAIN nodes /\ indegree[id] # 0
      BY <1>5 DEF ReportCycle, Ready, Remaining
    <3>2. Waiting(id) # {}
      BY <2>1, <3>1, WaitingIsFinite DEF Counted
    <3> QED  BY <3>2 DEF Waiting, Remaining
  <2> DEFINE S == {Place(f, id) : id \in Remaining}
  <2>4. S \subseteq Nat /\ S # {}
    <3>1. Remaining \subseteq Wanted /\ Remaining # {}
      BY <1>5, <2>1, VisitedIsKnown DEF ReportCycle, Remaining
    <3> QED  BY <2>2, <3>1, PlanProperties
  <2>5. PICK i \in S : \A j \in S : i <= j
    <3> HIDE DEF S
    <3> QED  BY <2>4, LeastNatural
  <2>6. PICK id \in Remaining : i = Place(f, id)
    OBVIOUS
  <2>7. PICK s \in Remaining : id \in edges[s]
    BY <2>3
  <2>8. PICK r \in Links : Source(r) = s /\ Destination(r) = id
    BY <2>1, <2>7 DEF Linked, Ordering, Remaining
  <2>9. Place(f, s) < Place(f, id)
    BY <1>1, <2>1, <2>2, <2>8, PlanFollowsReferences
  <2>10. Place(f, s) \in S
    OBVIOUS
  <2> QED  BY <2>4, <2>5, <2>6, <2>9, <2>10
<1>6. CASE Visit \/ Finish \/ UNCHANGED vars
  BY <1>6 DEF Visit, Finish, vars, ok
<1> QED  BY <1>2, <1>3, <1>4, <1>5, <1>6 DEF Next


-----------------------------------------------------------------------------
(* What a cycle names                                                       *)

LEMMA StepCycle ==
  ASSUME IInv, [Next]_vars
  PROVE  Stuck' /\ CycleNamesTheStuck'
<1> USE DEF IInv
<1>1. ASSUME UNCHANGED <<edges, nodes, diagnostics>>, pc = "done" => pc' = "done"
      PROVE  Stuck' /\ CycleNamesTheStuck'
  BY <1>1 DEF Stuck, CycleNamesTheStuck, Deadlocked
<1>2. ASSUME pc # "done",
             \A d \in diagnostics' : d \in diagnostics \/ d.code # "cycle"
      PROVE  Stuck' /\ CycleNamesTheStuck'
  BY <1>2 DEF Stuck, CycleNamesTheStuck
<1>3. CASE SelectPlugins
  BY <1>2, <1>3 DEF SelectPlugins, Report
<1>4. CASE CollectContributions
  BY <1>2, <1>4 DEF CollectContributions, Report
<1>5. CASE BuildEdges
  <2>1. \A d \in diagnostics' :
          \/ d \in diagnostics
          \/ \E r \in References : d = Report("missing-referenced-contribution", <<r.from, r.to>>)
          \/ \E r \in References : d = Report("reversed-cross-phase-edge", <<r.from, r.to>>)
          \/ \E id \in DOMAIN nodes : \E other \in nodes[id].conflicts :
               d = Report("selected-conflict", <<id, other>>)
    BY <1>5 DEF BuildEdges
  <2> QED  BY <1>2, <1>5, <2>1 DEF BuildEdges, Report
<1>6. CASE Visit \/ Finish \/ UNCHANGED vars
  BY <1>1, <1>6 DEF Visit, Finish, vars
<1>7. CASE ReportCycle
  <2> DEFINE about == SetToSeq(Remaining)
  <2>1. /\ diagnostics' = diagnostics \cup {Report("cycle", about)} /\ pc = "order" /\ pc' = "done"
        /\ edges' = edges /\ nodes' = nodes /\ Ready = {}
    BY <1>7 DEF ReportCycle
  <2>2. ToSet(about) = Remaining
    <3>1. IsFiniteSet(Remaining)
      BY FS_Subset DEF Remaining, Staged
    <3> QED  BY <3>1, SeqOfSet
  <2>3. Remaining # {}
    BY <1>7, VisitedIsKnown DEF ReportCycle, Remaining
  <2>4. ASSUME NEW id \in Remaining
        PROVE  \E s \in Remaining : id \in edges[s]
    <3>1. id \in DOMAIN nodes /\ indegree[id] # 0
      BY <2>1 DEF Ready, Remaining
    <3>2. Waiting(id) # {}
      BY <2>1, <3>1, WaitingIsFinite DEF Counted
    <3> QED  BY <3>2 DEF Waiting, Remaining
  <2>5. ASSUME NEW S \in SUBSET DOMAIN nodes, Deadlocked(S)
        PROVE  S \subseteq Remaining
    <3> SUFFICES ASSUME S \cap Visited # {}
                 PROVE  FALSE
      BY DEF Remaining
    <3> DEFINE T == {i \in DOMAIN order : order[i] \in S}
    <3>1. order \in Seq(DOMAIN nodes) /\ DOMAIN order \subseteq Nat
      BY LenProperties DEF TypeOK
    <3>2. T \in SUBSET Nat /\ T # {}
      BY <3>1 DEF Visited, ToSet
    <3>3. PICK i \in T : \A j \in T : i <= j
      <4> HIDE DEF T
      <4> QED  BY <3>2, LeastNatural
    <3>4. PICK s \in S : order[i] \in edges[s]
      BY <2>5 DEF Deadlocked
    <3>5. s \in Before(i)
      BY <3>4 DEF Sorted, WellChosen, Free
    <3>6. PICK j \in 1..i - 1 : order[j] = s
      BY <3>5 DEF Before
    <3>7. j \in T
      BY <3>1, <3>6, LenProperties
    <3> QED  BY <3>2, <3>3, <3>6, <3>7
  <2>6. \A d \in diagnostics : d.code # "cycle"
    BY <2>1 DEF Stuck
  <2>7. Report("cycle", about).about = about
    BY DEF Report
  <2> HIDE DEF about
  <2>8. ToSet(about) # {} /\ Deadlocked(ToSet(about))
    BY <2>2, <2>3, <2>4 DEF Deadlocked
  <2>9. \A S : Deadlocked(S)' = Deadlocked(S)
    BY <2>1 DEF Deadlocked
  <2> QED  BY <2>1, <2>2, <2>5, <2>6, <2>7, <2>8, <2>9 DEF Stuck, CycleNamesTheStuck, Deadlocked
<1> QED  BY <1>3, <1>4, <1>5, <1>6, <1>7 DEF Next

-----------------------------------------------------------------------------
(* The invariant                                                            *)

LEMMA Initially ==
  ASSUME Init
  PROVE  IInv
<1>1. PICK input \in Inputs : manifests = input.manifests /\ selected = input.selected
  BY DEF Init
<1>2. manifests \in Seq(Manifest) /\ selected \subseteq Names
  BY <1>1, GraphAssumption DEF Input
<1>3. nodes = <<>> /\ order = <<>> /\ DOMAIN nodes = {} /\ pc = "select" /\ diagnostics = {}
      /\ plugins = {}
  BY DEF Init
<1>4. TypeOK
  BY <1>2, <1>3, EmptySeq DEF TypeOK, IsInjective
<1>5. Staged
  BY <1>3, FS_EmptySet DEF Staged, Ordering
<1>6. Linked /\ Counted /\ Sorted /\ Complete /\ Refuted /\ Stuck /\ CycleNamesTheStuck
  BY <1>3 DEF Linked, Counted, Sorted, Complete, Refuted, Stuck, CycleNamesTheStuck, Ordering, ok
<1> QED  BY <1>4, <1>5, <1>6 DEF IInv

THEOREM GraphInvariant == Spec => []IInv
<1>1. Init => IInv
  BY Initially
<1>2. IInv /\ [Next]_vars => IInv'
  BY StepTyped, StepStaged, StepLinked, StepCounted, StepSorted, StepComplete, StepRefuted,
     StepCycle DEF IInv
<1> QED  BY <1>1, <1>2, PTL DEF Spec

(* compilePluginGraph keeps its data in shape: in particular no indegree     *)
(* drops below zero and no contribution is ordered twice.                  *)
THEOREM TypeCorrect == Spec => []TypeOK
<1>1. IInv => TypeOK
  BY DEF IInv
<1> QED  BY <1>1, GraphInvariant, PTL

(* topologicalOrder: what is reported as a cycle is the greatest set of      *)
(* contributions that each have a predecessor in the set: those on a cycle  *)
(* or behind one, and every one of them.                                    *)
THEOREM CyclesAreNamed == Spec => []CycleNamesTheStuck
<1>1. IInv => CycleNamesTheStuck
  BY DEF IInv
<1> QED  BY <1>1, GraphInvariant, PTL

(* What is compiled is a plan.                                              *)
LEMMA CompiledIsPlan ==
  ASSUME IInv, pc = "done", ok
  PROVE  /\ order \in Plans /\ contributions = order
         /\ IsFiniteSet(Wanted) /\ DOMAIN nodes = Wanted
         /\ \A id \in Wanted : nodes[id] = The(id)
<1> USE DEF IInv
<1>1. /\ WellFormed /\ DOMAIN nodes = Wanted /\ \A id \in Wanted : nodes[id] = The(id)
      /\ Links = References /\ (\A id \in Wanted : Respected(id)) /\ Visited = Wanted
  BY DEF Complete, Sorted, Ordering
<1>2. IsFiniteSet(Wanted)
  BY <1>1 DEF Staged
<1>3. order \in Seq(Wanted) /\ IsInjective(order) /\ ToSet(order) = Wanted
  BY <1>1 DEF TypeOK, Visited
<1>4. order \in SetToSeqs(Wanted)
  BY <1>3, SeqsOfSetConverse
<1>5. /\ DOMAIN order = 1..Len(order) /\ Len(order) \in Nat
      /\ \A i \in DOMAIN order : order[i] \in Wanted
  BY <1>3, LenProperties, ElementOfSeq
<1>6. \A i, j \in DOMAIN order : i < j => The(order[i]).phase <= The(order[j]).phase
  BY <1>1, <1>5 DEF Sorted
<1>7. \A id \in Wanted : Place(order, id) \in DOMAIN order /\ order[Place(order, id)] = id
  BY <1>3 DEF ToSet, Place
<1>8. \A i \in DOMAIN order : Place(order, order[i]) = i
  BY <1>3, <1>5, <1>7 DEF IsInjective
<1>9. ASSUME NEW r \in References
      PROVE  Place(order, Source(r)) < Place(order, Destination(r))
  <2>1. Source(r) \in Wanted /\ Destination(r) \in Wanted
    BY <1>1, <1>9, ReferencesAreTyped DEF Links
  <2>2. Destination(r) \in edges[Source(r)]
    BY <1>1, <1>9, <2>1 DEF Linked, Ordering
  <2>3. PICK i \in DOMAIN order : order[i] = Destination(r) /\ i = Place(order, Destination(r))
    BY <1>7, <2>1
  <2>4. Source(r) \in Before(i)
    BY <1>1, <2>1, <2>2, <2>3 DEF Sorted, WellChosen, Free
  <2>5. PICK j \in 1..i - 1 : order[j] = Source(r)
    BY <2>4 DEF Before
  <2> QED  BY <1>5, <1>8, <2>3, <2>5
<1>10. ASSUME NEW id \in Wanted, NEW kind \in {"requires", "before", "after"},
              NEW other \in Constraint(id, kind)
       PROVE  IF kind = "before" THEN Place(order, id) < Place(order, other)
              ELSE Place(order, other) < Place(order, id)
  <2> DEFINE r == [from |-> id, to |-> other, kind |-> kind]
  <2>1. r \in References
    BY <1>1, <1>10, Referenced
  <2>2. Place(order, Source(r)) < Place(order, Destination(r))
    BY <1>9, <2>1
  <2> QED  BY <2>2 DEF Source, Destination
<1>11. ASSUME NEW id \in Wanted
       PROVE  /\ \A other \in The(id).requires \cup The(id).after :
                   Place(order, other) < Place(order, id)
              /\ \A other \in The(id).before : Place(order, id) < Place(order, other)
  <2>1. /\ Constraint(id, "requires") = The(id).requires
        /\ Constraint(id, "after") = The(id).after
        /\ Constraint(id, "before") = The(id).before
    BY <1>1 DEF Constraint
  <2> QED  BY <1>10, <2>1
<1>12. IsPlan(order)
  BY <1>1, <1>6, <1>11 DEF IsPlan, Place, Respected
<1> QED  BY <1>1, <1>2, <1>4, <1>12 DEF Plans, contributions

(* compilePluginGraph: what is executed is a plan of the input, and an input *)
(* is refused only when it has none.                                       *)
THEOREM PlansAreCompiled == Spec => []PlanWheneverPossible
<1>1. IInv => PlanWheneverPossible
  BY CompiledIsPlan DEF PlanWheneverPossible, IInv, Refuted, contributions
<1> QED  BY <1>1, GraphInvariant, PTL

(* Resolution is deterministic: the plan is the least one, whatever order    *)
(* the manifests come in.                                                  *)
THEOREM ThePlanIsLeast == Spec => []PlanIsLeast
<1>1. ASSUME IInv, pc = "done", ok, NEW f \in Plans \ {order}
      PROVE  LET i == CHOOSE j \in DOMAIN f : f[j] # order[j] /\ \A k \in 1..j - 1 : f[k] = order[k]
             IN order[i] < f[i]
  <2> USE <1>1 DEF IInv
  <2> DEFINE N == Cardinality(Wanted)
             Differs(j) == f[j] # order[j] /\ \A k \in 1..j - 1 : f[k] = order[k]
             i == CHOOSE j \in DOMAIN f : Differs(j)
             a == order[i]
             b == f[i]
  <2>1. /\ order \in Plans /\ IsFiniteSet(Wanted) /\ DOMAIN nodes = Wanted
        /\ \A id \in Wanted : nodes[id] = The(id)
    BY CompiledIsPlan
  <2>2. /\ f \in Seq(Wanted) /\ order \in Seq(Wanted) /\ Len(f) = N /\ Len(order) = N
    BY <2>1, PlanProperties
  <2>3. N \in Nat /\ DOMAIN f = 1..N /\ DOMAIN order = 1..N
        /\ (\A j \in 1..N : f[j] \in Wanted /\ order[j] \in Wanted)
    BY <2>2, LenProperties, ElementOfSeq
  <2>4. i \in 1..N /\ Differs(i)
    <3> DEFINE S == {j \in 1..N : f[j] # order[j]}
    <3>1. S # {}
      BY <2>2, <2>3, SeqEqual
    <3>2. PICK j \in S : \A k \in S : j <= k
      <4>1. S \in SUBSET Nat
        OBVIOUS
      <4> HIDE DEF S
      <4> QED  BY <3>1, <4>1, LeastNatural
    <3>3. Differs(j)
      BY <2>3, <3>2
    <3> HIDE DEF Differs
    <3> QED  BY <2>3, <3>2, <3>3
  <2> HIDE DEF i
  <2>5. b \notin Before(i)
    <3>1. \A k \in 1..i - 1 : k \in 1..N /\ k # i /\ f[k] = order[k]
      BY <2>3, <2>4
    <3>2. \A k, l \in 1..N : f[k] = f[l] => k = l
      <4>1. \A k, l \in 1..Len(f) : f[k] = f[l] => k = l
        BY <2>1, PlanProperties
      <4> QED  BY <2>2, <4>1
    <3> QED  BY <2>4, <3>1, <3>2 DEF Before
  <2>6. Free(b, i)
    <3> SUFFICES ASSUME NEW s \in DOMAIN nodes, b \in edges[s]
                 PROVE  s \in Before(i)
      BY DEF Free
    <3>1. PICK r \in Links : Source(r) = s /\ Destination(r) = b
      BY <2>1, <2>3, <2>4 DEF Linked, Ordering
    <3>2. Place(f, s) < Place(f, b)
      BY <2>1, <3>1, PlanFollowsReferences, PlanProperties DEF Links
    <3>3. Place(f, b) = i /\ Place(f, s) \in 1..N /\ f[Place(f, s)] = s
      BY <2>1, <2>2, <2>4, PlanProperties
    <3>4. Place(f, s) \in 1..i - 1
      BY <2>3, <2>4, <3>2, <3>3
    <3> QED  BY <2>4, <3>3, <3>4 DEF Before
  <2>7. a \in Wanted /\ b \in Wanted /\ a # b
    BY <2>3, <2>4
  <2>8. Precedes(a, b)
    BY <2>1, <2>3, <2>4, <2>5, <2>6, <2>7 DEF Sorted, WellChosen
  <2>9. nodes[b].phase <= nodes[a].phase
    <3>1. Place(f, a) \in 1..N /\ f[Place(f, a)] = a
      BY <2>1, <2>2, <2>7, PlanProperties
    <3>2. \A k \in 1..i - 1 : k \in 1..N /\ k # i /\ f[k] = order[k]
      BY <2>3, <2>4
    <3>3. \A k, l \in 1..N : order[k] = order[l] => k = l
      <4>1. \A k, l \in 1..Len(order) : order[k] = order[l] => k = l
        BY <2>1, PlanProperties
      <4> QED  BY <2>2, <4>1
    <3>4. Place(f, a) \notin 1..i - 1
      BY <2>4, <3>1, <3>2, <3>3
    <3>5. i < Place(f, a)
      BY <2>3, <2>4, <2>7, <3>1, <3>4
    <3>6. The(f[i]).phase <= The(f[Place(f, a)]).phase
      BY <2>1, <2>2, <2>4, <3>1, <3>5, PlanProperties
    <3> QED  BY <2>1, <2>7, <3>1, <3>6
  <2>10. a < b
    BY <2>1, <2>7, <2>8, <2>9, NodesAreTyped DEF Precedes
  <2> QED  BY <2>10 DEF i
<1>2. IInv => PlanIsLeast
  BY <1>1, CompiledIsPlan DEF PlanIsLeast
<1> QED  BY <1>2, GraphInvariant, PTL

=============================================================================
