----------------------------- MODULE PluginGraph -----------------------------
(***************************************************************************)
(* Compiling the selected Plugins into one order of contributions          *)
(* (compilePluginGraph in packages/core/src/plugin-graph.ts).               *)
(*                                                                         *)
(* A name (of a Plugin or of a contribution) is a number, its place in the *)
(* order localeCompare puts names in.  A phase is its place in the phase   *)
(* catalog, Unknown for one that is not there.  What an author declares    *)
(* about a contribution is a set: repeating a name changes nothing.        *)
(***************************************************************************)
EXTENDS Naturals, Sequences, FiniteSets, SequencesExt, FiniteSetsExt

CONSTANTS
  Names,     (* Plugin and contribution ids                                *)
  Phases,    (* the phase catalog                                          *)
  Unknown,   (* a phase that is not in it; sorts after all of them         *)
  Inputs     (* the [manifests, selected] compilePluginGraph is called with *)

Contribution ==
  [id : Names, phase : Phases \cup {Unknown}, requires : SUBSET Names,
   before : SUBSET Names, after : SUBSET Names, conflicts : SUBSET Names]
Manifest == [id : Names, contributions : Seq(Contribution)]
Input == [manifests : Seq(Manifest), selected : SUBSET Names]

ASSUME GraphAssumption ==
  /\ Names \subseteq Nat
  /\ Phases \subseteq Nat
  /\ Unknown \in Nat
  /\ \A p \in Phases : p < Unknown
  /\ Inputs \subseteq Input
  /\ \A input \in Inputs : IsFiniteSet(input.selected)

VARIABLES
  manifests,   (* the arguments                                            *)
  selected,
  pc,          (* the function of compilePluginGraph that is next          *)
  plugins,     (* the selected manifests, by their place                   *)
  nodes,       (* contribution id -> contribution                          *)
  edges,       (* contribution id -> the ids that must come after it       *)
  indegree,
  order,       (* visited, in order                                        *)
  diagnostics

arguments == <<manifests, selected>>
vars == <<arguments, pc, plugins, nodes, edges, indegree, order, diagnostics>>

Report(code, about) == [code |-> code, about |-> about]

Init ==
  /\ \E input \in Inputs : manifests = input.manifests /\ selected = input.selected
  /\ pc = "select"
  /\ plugins = {}
  /\ nodes = <<>>
  /\ edges = <<>>
  /\ indegree = <<>>
  /\ order = <<>>
  /\ diagnostics = {}

-----------------------------------------------------------------------------
Matches(id) == {m \in DOMAIN manifests : manifests[m].id = id}

SelectPlugins ==
  /\ pc = "select"
  /\ plugins' = UNION {Matches(id) : id \in {i \in selected : Cardinality(Matches(i)) = 1}}
  /\ diagnostics' =
       {Report("missing-selected-plugin", <<id>>) : id \in {i \in selected : Matches(i) = {}}}
         \cup
       {Report("duplicate-plugin-id", <<id>>) :
          id \in {i \in selected : Cardinality(Matches(i)) > 1}}
  /\ pc' = "collect"
  /\ UNCHANGED <<arguments, nodes, edges, indegree, order>>

(* Every contribution of a selected Plugin, by its place.                  *)
Declared == UNION {{<<m, k>> : k \in DOMAIN manifests[m].contributions} : m \in plugins}
At(place) == manifests[place[1]].contributions[place[2]]
Peers(id) == {place \in Declared : At(place).id = id}

CollectContributions ==
  LET ids == {At(place).id : place \in Declared}
      unique == {id \in ids : Cardinality(Peers(id)) = 1}
  IN
  /\ pc = "collect"
  /\ nodes' = [id \in unique |-> At(CHOOSE place \in Peers(id) : TRUE)]
  /\ diagnostics' = diagnostics
       \cup {Report("duplicate-contribution-id", <<id>>) : id \in ids \ unique}
       \cup {Report("unknown-phase", <<At(place).id>>) :
               place \in {p \in Declared : At(p).phase = Unknown}}
  /\ pc' = "connect"
  /\ UNCHANGED <<arguments, plugins, edges, indegree, order>>

-----------------------------------------------------------------------------
(* buildEdges                                                              *)

Constraint(id, kind) ==
  CASE kind = "requires" -> nodes[id].requires
    [] kind = "before" -> nodes[id].before
    [] kind = "after" -> nodes[id].after
References ==
  UNION {{[from |-> id, to |-> to, kind |-> kind] : to \in Constraint(id, kind)} :
           id \in DOMAIN nodes, kind \in {"requires", "before", "after"}}
Missing(r) == r.to \notin DOMAIN nodes

(* A Fault... definition is the one after it with a plausible bug; only     *)
(* mutation runs use it.                                                   *)
Source(r) == IF r.kind = "before" THEN r.from ELSE r.to
Destination(r) == IF r.kind = "before" THEN r.to ELSE r.from
Reversed(r) ==
  /\ Unknown \notin {nodes[r.from].phase, nodes[r.to].phase}
  /\ nodes[Source(r)].phase > nodes[Destination(r)].phase

FaultIndegreeOf(id, links) == Cardinality({r \in links : Destination(r) = id})
IndegreeOf(id, links) == Cardinality({Source(r) : r \in {l \in links : Destination(l) = id}})

(* Two references may name the same edge; it counts once.                  *)
BuildEdges ==
  LET resolved == {r \in References : ~Missing(r)}
      links == {r \in resolved : ~Reversed(r)}
  IN
  /\ pc = "connect"
  /\ edges' = [id \in DOMAIN nodes |-> {Destination(r) : r \in {l \in links : Source(l) = id}}]
  /\ indegree' = [id \in DOMAIN nodes |-> IndegreeOf(id, links)]
  /\ diagnostics' = diagnostics
       \cup {Report("missing-referenced-contribution", <<r.from, r.to>>) :
               r \in References \ resolved}
       \cup {Report("reversed-cross-phase-edge", <<r.from, r.to>>) : r \in resolved \ links}
       \cup UNION {{Report("selected-conflict", <<id, other>>) :
                      other \in nodes[id].conflicts \cap (DOMAIN nodes \cup selected)} :
                     id \in DOMAIN nodes}
  /\ pc' = "order"
  /\ UNCHANGED <<arguments, plugins, nodes, order>>

-----------------------------------------------------------------------------
(* topologicalOrder                                                        *)

Visited == ToSet(order)
FaultReady == {id \in DOMAIN nodes : indegree[id] = 0}
Ready == {id \in DOMAIN nodes \ Visited : indegree[id] = 0}

FaultPrecedesByPhase(a, b) ==
  \/ nodes[a].phase < nodes[b].phase
  \/ nodes[a].phase = nodes[b].phase /\ a > b
Precedes(a, b) ==
  \/ nodes[a].phase < nodes[b].phase
  \/ nodes[a].phase = nodes[b].phase /\ a < b
First == CHOOSE id \in Ready : \A other \in Ready \ {id} : Precedes(id, other)

Visit ==
  /\ pc = "order"
  /\ Visited # DOMAIN nodes
  /\ Ready # {}
  /\ order' = Append(order, First)
  /\ indegree' = [id \in DOMAIN nodes |->
                    IF id \in edges[First] THEN indegree[id] - 1 ELSE indegree[id]]
  /\ UNCHANGED <<arguments, pc, plugins, nodes, edges, diagnostics>>

FaultRemaining == DOMAIN nodes
Remaining == DOMAIN nodes \ Visited

(* The names in an order of their own, which nothing depends on.            *)
ReportCycle ==
  /\ pc = "order"
  /\ Visited # DOMAIN nodes
  /\ Ready = {}
  /\ diagnostics' = diagnostics \cup {Report("cycle", SetToSeq(Remaining))}
  /\ order' = <<>>
  /\ pc' = "done"
  /\ UNCHANGED <<arguments, plugins, nodes, edges, indegree>>

Finish ==
  /\ pc = "order"
  /\ Visited = DOMAIN nodes
  /\ pc' = "done"
  /\ UNCHANGED <<arguments, plugins, nodes, edges, indegree, order, diagnostics>>

Next == SelectPlugins \/ CollectContributions \/ BuildEdges \/ Visit \/ ReportCycle \/ Finish

Spec == Init /\ [][Next]_vars

ok == diagnostics = {}
contributions == IF ok THEN order ELSE <<>>

-----------------------------------------------------------------------------
(* Properties                                                              *)

Codes ==
  {"missing-selected-plugin", "duplicate-plugin-id", "duplicate-contribution-id",
   "unknown-phase", "missing-referenced-contribution", "reversed-cross-phase-edge",
   "selected-conflict", "cycle"}

(* Every variable has its type: no indegree drops below zero, no            *)
(* contribution is visited twice.                                          *)
TypeOK ==
  /\ manifests \in Seq(Manifest) /\ selected \subseteq Names
  /\ pc \in {"select", "collect", "connect", "order", "done"}
  /\ plugins \subseteq DOMAIN manifests
  /\ DOMAIN nodes \subseteq Names
  /\ \A id \in DOMAIN nodes : nodes[id] \in Contribution /\ nodes[id].id = id
  /\ pc \in {"order", "done"} =>
       /\ edges \in [DOMAIN nodes -> SUBSET DOMAIN nodes]
       /\ indegree \in [DOMAIN nodes -> Nat]
  /\ order \in Seq(DOMAIN nodes) /\ IsInjective(order)
  /\ \A d \in diagnostics : d.code \in Codes /\ d.about \in Seq(Names)

(* A plan of this input: every contribution of every selected Plugin once,  *)
(* in catalog order (executeNodes starts each phase once), every reference  *)
(* present and on its side, nothing that conflicts.  Declared from the      *)
(* arguments alone, without nodes, edges or counters.                      *)
Chosen == {m \in DOMAIN manifests : manifests[m].id \in selected}
Offered == UNION {{<<m, k>> : k \in DOMAIN manifests[m].contributions} : m \in Chosen}
WellFormed ==
  /\ \A id \in selected : Cardinality(Matches(id)) = 1
  /\ \A p, q \in Offered : At(p).id = At(q).id => p = q
  /\ \A p \in Offered : At(p).phase # Unknown
Wanted == {At(p).id : p \in Offered}
The(id) == At(CHOOSE p \in Offered : At(p).id = id)
IsPlan(f) ==
  LET Pos(id) == CHOOSE i \in DOMAIN f : f[i] = id
  IN
  /\ \A i, j \in DOMAIN f : i < j => The(f[i]).phase <= The(f[j]).phase
  /\ \A id \in Wanted :
       /\ The(id).requires \cup The(id).before \cup The(id).after \subseteq Wanted
       /\ The(id).conflicts \cap (Wanted \cup selected) = {}
       /\ \A other \in The(id).requires \cup The(id).after : Pos(other) < Pos(id)
       /\ \A other \in The(id).before : Pos(id) < Pos(other)
Plans == IF WellFormed THEN {f \in SetToSeqs(Wanted) : IsPlan(f)} ELSE {}

(* What is executed is a plan, and compilation refuses an input only when    *)
(* there is none (compilePluginGraph).                                     *)
PlanWheneverPossible ==
  pc = "done" => IF ok THEN contributions \in Plans
                 ELSE contributions = <<>> /\ Plans = {}

(* "Resolution is deterministic" (overview.md:66): of all plans it is the   *)
(* least, comparing names phase by phase, whatever order the manifests      *)
(* were discovered in.                                                     *)
PlanIsLeast ==
  (pc = "done" /\ ok) =>
    \A f \in Plans \ {contributions} :
      LET i == CHOOSE j \in DOMAIN f : f[j] # contributions[j] /\ \A k \in 1..j - 1 : f[k] = contributions[k]
      IN contributions[i] < f[i]

(* A cycle Diagnostic names exactly the contributions that lie on a cycle   *)
(* or behind one: the greatest set whose members each have a predecessor    *)
(* in it.  None of two separate cycles is left out.                         *)
Deadlocked(S) == \A id \in S : \E s \in S : id \in edges[s]
CycleNamesTheStuck ==
  \A d \in diagnostics : d.code = "cycle" =>
    /\ ToSet(d.about) # {} /\ Deadlocked(ToSet(d.about))
    /\ \A S \in SUBSET DOMAIN nodes : Deadlocked(S) => S \subseteq ToSet(d.about)
=============================================================================
