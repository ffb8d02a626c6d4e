---------------------------- MODULE MCPluginGraph ----------------------------
(***************************************************************************)
(* Three contributions, 1 to 3, of one Plugin each, 5 to 7, in two phases:  *)
(* any two references, or any four that only order; 4 is a name nobody has. *)
(***************************************************************************)
EXTENDS PluginGraph

Kinds == {"requires", "before", "after", "conflicts"}
Reference == [from : 1..3, to : (1..5), kind : Kinds]
Targets(refs, id, kind) == {r.to : r \in {s \in refs : s.from = id /\ s.kind = kind}}
C(refs, id, phase) ==
  [id |-> id, phase |-> phase, requires |-> Targets(refs, id, "requires"),
   before |-> Targets(refs, id, "before"), after |-> Targets(refs, id, "after"),
   conflicts |-> Targets(refs, id, "conflicts")]
M(id, cs) == [id |-> id, contributions |-> cs]

AnyTwo == {{}} \cup {{r, s} : r, s \in Reference}
Ordering == {r \in Reference : r.to \in (1..3) \ {r.from} /\ r.kind \in {"before", "after"}}
AnyFour == {refs \in SUBSET Ordering : Cardinality(refs) <= 4}

(* Discovered in the reverse of the order of names.                        *)
Graphs ==
  {[manifests |-> <<M(7, <<C(refs, 3, c)>>), M(6, <<C(refs, 2, b)>>), M(5, <<C(refs, 1, 1)>>)>>,
    selected |-> {5, 6, 7}] : refs \in AnyTwo \cup AnyFour, b \in {1, 2}, c \in {1, 2}}

(* Names that clash or are missing, and phases out of the catalog.          *)
Shapes ==
  {[manifests |-> <<M(5, <<C(refs, 1, p), C(refs, 2, 1)>>), M(second, <<C(refs, id, 2)>>)>>,
    selected |-> s] :
     refs \in {{}} \cup {{r} : r \in Reference}, p \in {1, 2, 3}, second \in {5, 6}, id \in {1, 3}, s \in SUBSET {4, 5, 6}}

MCInputs == Graphs \cup Shapes
=============================================================================
