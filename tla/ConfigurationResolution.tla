----------------------- MODULE ConfigurationResolution -----------------------
(***************************************************************************)
(* Values, schema rules, merging, policies and provenance of configuration  *)
(* (packages/core/src/configuration-schema.ts, configuration-resolution.ts).*)
(*                                                                         *)
(* A pointer is the sequence of its keys.  A value is the function from the *)
(* pointers it has to what it is there, a schema the function from those it *)
(* declares to their rules: what the code does by descending is said of     *)
(* every pointer at once.  An array is one node with its items; its rule    *)
(* has the values that are valid as an item.                               *)
(* Scalar types differ only in the values they admit: two stand for all.    *)
(***************************************************************************)
EXTENDS Integers, Sequences, FiniteSets, FiniteSetsExt, SequencesExt

Absent == [p \in {} |-> p]            (* JavaScript's undefined            *)
Node(v) == v[<<>>]
KindOf(v) == IF v = Absent THEN "absent" ELSE Node(v).kind

(* What has a node, and children under keys.                               *)
Grow(node, children) ==
  [q \in {<<>>} \cup UNION {{<<k>> \o r : r \in DOMAIN children[k]} : k \in DOMAIN children} |->
     IF q = <<>> THEN node ELSE children[Head(q)][Tail(q)]]
Leaf(node) == [q \in {<<>>} |-> node]

Null == Leaf([kind |-> "null"])
Number(n) == Leaf([kind |-> "number", value |-> n])
Text(t) == Leaf([kind |-> "string", value |-> t])
Array(items) == Leaf([kind |-> "array", items |-> items])
Object(fields) == Grow([kind |-> "object"], fields)

(* Rules.  `merge' is "replace" where the rule says nothing.               *)
Scalar(type, default, nullable) ==
  Leaf([type |-> type, merge |-> "replace", default |-> default, nullable |-> nullable])
ArrayOf(items, merge, default, nullable) ==
  Leaf([type |-> "array", items |-> items, merge |-> merge, default |-> default,
        nullable |-> nullable])
ObjectOf(properties, merge, default, nullable) ==
  Grow([type |-> "object", merge |-> merge, default |-> default, nullable |-> nullable],
       properties)

-----------------------------------------------------------------------------
(* Pointers                                                                *)

Beyond(p, q) == SubSeq(q, Len(p) + 1, Len(q))
Ancestors(p) == {SubSeq(p, 1, n) : n \in 0..(Len(p) - 1)}

(* What the types of the code admit: a pointer leads through objects.       *)
IsList(s) == s \in Seq(ToSet(s))
IsTree(t) ==
  /\ t = [q \in DOMAIN t |-> t[q]]
  /\ DOMAIN t \subseteq Seq(STRING)
  /\ \A q \in DOMAIN t : Ancestors(q) \subseteq DOMAIN t
IsValue(v) ==
  /\ IsTree(v)
  /\ \A q \in DOMAIN v :
       /\ \A a \in Ancestors(q) : v[a].kind = "object"
       /\ v[q].kind = "array" => IsList(v[q].items)
       /\ v[q].kind = "number" => v[q].value \in Int
IsSchema(schema) ==
  /\ IsTree(schema)
  /\ <<>> \in DOMAIN schema
  /\ \A q \in DOMAIN schema :
       /\ \A a \in Ancestors(q) : schema[a].type = "object"
       /\ schema[q].merge \in {"replace", "append", "union", "merge"}
       /\ IsValue(schema[q].default)

(* at: what a value has below a pointer.                                   *)
At(v, pointer) ==
  [r \in {Beyond(pointer, q) : q \in {q \in DOMAIN v : IsPrefix(pointer, q)}} |->
     v[pointer \o r]]

(* setAt                                                                   *)
SetAt(v, pointer, new) ==
  IF \E a \in Ancestors(pointer) : a \notin DOMAIN v \/ v[a].kind # "object"
  THEN Absent
  ELSE [q \in {q \in DOMAIN v : ~IsPrefix(pointer, q)} \cup {pointer \o r : r \in DOMAIN new} |->
          IF IsPrefix(pointer, q) THEN new[Beyond(pointer, q)] ELSE v[q]]

-----------------------------------------------------------------------------
(* validateConfig                                                          *)

Fits(rule, node) ==
  CASE node.kind = "null" -> rule.nullable
    [] node.kind = "array" -> rule.type = "array" /\ ToSet(node.items) \subseteq rule.items
    [] OTHER -> node.kind = rule.type

Valid(schema, v) == v # Absent /\ \A q \in DOMAIN v : q \in DOMAIN schema /\ Fits(schema[q], v[q])

ValidConfig(schema, v) == Valid(schema, IF v = Absent THEN Node(schema).default ELSE v)

-----------------------------------------------------------------------------
(* merge                                                                   *)

(* What there is for a setting, the lowest first: the default of its rule,  *)
(* what the defaults of the objects around it hold there, and the layers.   *)
Sources(schema, layers, p) ==
  [n \in 1..(Len(p) + 1) |->
     At(schema[SubSeq(p, 1, Len(p) + 1 - n)].default, SubSeq(p, Len(p) + 2 - n, Len(p)))]
  \o [i \in DOMAIN layers |-> At(layers[i], p)]

Latest(values) ==
  LET present == {i \in DOMAIN values : values[i] # Absent}
  IN IF present = {} THEN Absent ELSE values[Max(present)]

Items(values) ==
  FlattenSeq([i \in DOMAIN values |->
                IF KindOf(values[i]) = "array" THEN Node(values[i]).items ELSE <<>>])

(* union: a member counts where it comes first.                            *)
Distinct(items) ==
  FlattenSeq([i \in DOMAIN items |->
                IF \E j \in 1..(i - 1) : items[j] = items[i] THEN <<>> ELSE <<items[i]>>])

Decided(rule, values) ==
  CASE rule.merge = "append" -> Array(Items(values))
    [] rule.merge = "union" -> Array(Distinct(Items(values)))
    [] OTHER -> Latest(values)

(* An object that merges is there whatever the sources say; below it each   *)
(* setting is decided by its own rule, and whole.                          *)
Merging(schema) == {p \in DOMAIN schema : schema[p].merge = "merge"}
Reached(schema) == {p \in DOMAIN schema : Ancestors(p) \subseteq Merging(schema)}

Merge(schema, layers) ==
  LET objects == Reached(schema) \cap Merging(schema)
      settings == Reached(schema) \ objects
      decided == [p \in settings |-> Decided(schema[p], Sources(schema, layers, p))]
      around(q) == CHOOSE p \in settings : IsPrefix(p, q)
  IN [q \in objects \cup UNION {{p \o r : r \in DOMAIN decided[p]} : p \in settings} |->
        IF q \in objects THEN [kind |-> "object"] ELSE decided[around(q)][Beyond(around(q), q)]]

-----------------------------------------------------------------------------
(* The trace of a pointer: the layers with a value there, and the one the   *)
(* value is said to come from.                                             *)

Default == 0      (* effectiveSource `default' *)
NoSource == -1    (* no effectiveSource        *)

Candidates(layers, pointer) == {i \in DOMAIN layers : At(layers[i], pointer) # Absent}
AcceptsAll(rule) == rule.merge # "replace"

Traced(rule, candidates, highest) ==
  [candidates |-> candidates,
   accepted |-> {i \in candidates : AcceptsAll(rule) \/ i = highest},
   effectiveSource |-> IF candidates # {} THEN highest
                       ELSE IF rule.default # Absent THEN Default ELSE NoSource]

(* The trace names the lowest layer that has a value.                      *)
FaultTraceAt(schema, layers, pointer) ==
  LET candidates == Candidates(layers, pointer)
  IN Traced(schema[pointer], candidates, Min(candidates))

TraceAt(schema, layers, pointer) ==
  LET candidates == Candidates(layers, pointer)
  IN Traced(schema[pointer], candidates, Max(candidates))

MakeTrace(schema, layers) == [p \in DOMAIN schema |-> TraceAt(schema, layers, p)]

-----------------------------------------------------------------------------
(* Policies.  A limit is the set of the bound a policy gives, if it does.   *)

Refused == [ok |-> FALSE]
Applied(config) == [ok |-> TRUE, config |-> config]

IsLimit(limit) == limit \subseteq Int /\ \A m, n \in limit : m = n
IsPolicy(policy) ==
  /\ policy.action \in {"allowed", "denied", "forced", "clamped"}
  /\ policy.pointer \in Seq(STRING)
  /\ policy.action = "forced" => IsValue(policy.value) /\ policy.value # Absent
  /\ policy.action = "clamped" => IsLimit(policy.min) /\ IsLimit(policy.max)

Or(limit, n) == IF limit = {} THEN {n} ELSE limit      (* limit ?? n *)

(* A value below the minimum is left there.                                *)
FaultClamped(n, low, high) == Min(Or(high, n) \cup {n})

Clamped(n, low, high) == Min(Or(high, n) \cup {Max(Or(low, n) \cup {n})})

ForcePolicy(config, policy, schema) ==
  LET next == SetAt(config, policy.pointer, policy.value)
  IN IF ValidConfig(schema, next) THEN Applied(next) ELSE Refused

ClampPolicy(config, policy) ==
  LET current == At(config, policy.pointer)
  IN IF KindOf(current) # "number" \/ \E low \in policy.min, high \in policy.max : low > high
     THEN Refused
     ELSE Applied(SetAt(config, policy.pointer,
                        Number(Clamped(Node(current).value, policy.min, policy.max))))

Deny(config, policy) ==
  IF At(config, policy.pointer) = Absent THEN Applied(config) ELSE Refused

ApplyPolicy(config, policy, schema) ==
  IF policy.pointer \notin DOMAIN schema THEN Refused
  ELSE CASE policy.action = "allowed" -> Applied(config)
         [] policy.action = "denied" -> Deny(config, policy)
         [] policy.action = "forced" -> ForcePolicy(config, policy, schema)
         [] policy.action = "clamped" -> ClampPolicy(config, policy)

=============================================================================
