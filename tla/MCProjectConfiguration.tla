----------------------- MODULE MCProjectConfiguration -----------------------
(* Instances of ProjectConfiguration for TLC. *)
EXTENDS ProjectConfiguration

Family(schemas, layers, policies) ==
  [schemas |-> schemas, layers |-> layers, policies |-> policies,
   requirements |-> {<<>>}, evidence |-> {<<>>}, convertible |-> {TRUE}]

-----------------------------------------------------------------------------
(* Schemas: a number `a', an object `o' of numbers, an array `r'.           *)

N(default) == Scalar("number", default, FALSE)
Root(properties, merge, default) == ObjectOf(properties, merge, default, FALSE)
Inner(merge, default, deep) == ObjectOf([x |-> N(deep), y |-> N(Absent)], merge, default, FALSE)

(* Objects that merge or replace, with defaults at every level.            *)
NestedSchemas(rootDefaults) ==
  {Root([a |-> N(d), o |-> Inner(m, od, xd)], rm, rd) :
     d \in {Absent, Number(1)}, m \in {"merge", "replace"},
     od \in {Absent, Object([x |-> Number(1)])}, xd \in {Absent, Number(2)},
     rm \in {"merge", "replace"}, rd \in rootDefaults}
ArraySchemas ==
  {Root([r |-> ArrayOf({Number(1), Number(2)}, m, d, nullable)], "merge", Absent) :
     m \in {"replace", "append", "union"}, d \in {Absent, Array(<<Number(1)>>)},
     nullable \in BOOLEAN}

Objects(values) == {Object(f) : f \in values}
InnerValues == Objects({<<>>, [x |-> Number(0)], [y |-> Number(3)], [x |-> Number(0), y |-> Number(3)]})
NestedLayers ==
  Objects({<<>>, [a |-> Number(0)], [a |-> Number(3)], [a |-> Text(0)], [z |-> Number(0)]}
          \cup {[o |-> v] : v \in InnerValues \cup {Null}}
          \cup {[a |-> Number(0), o |-> v] : v \in InnerValues})
ArrayLayers ==
  Objects({<<>>, [r |-> Null]} \cup {[r |-> Array(s)] : s \in
    {<<>>, <<Number(1)>>, <<Number(2), Number(2)>>, <<Number(2), Number(1)>>, <<Null>>}})

UpTo(S, n) == UNION {[1..k -> S] : k \in 0..n}

Forced(p, v) == [action |-> "forced", pointer |-> p, value |-> v]
(* A limit is the set of the bound that is given. *)
Limits(p, low, high) == [action |-> "clamped", pointer |-> p, min |-> low, max |-> high]
Denied(p) == [action |-> "denied", pointer |-> p]
Policies ==
  {Forced(<<"a">>, Number(2)), Forced(<<"a">>, Text(0)), Forced(<<"o", "x">>, Number(5)),
   Forced(<<"o">>, Object([y |-> Number(4)])), Limits(<<"a">>, {1}, {2}), Limits(<<"a">>, {2}, {1}),
   Limits(<<"o", "x">>, {}, {1}), Denied(<<"a">>),
   Denied(<<"o", "y">>), [action |-> "allowed", pointer |-> <<"o">>], Denied(<<"b">>)}
PolicyLayers == Objects({<<>>, [a |-> Number(0)], [a |-> Number(3), o |-> Object([x |-> Number(0)])]})

MergeFamilies ==
  {Family(NestedSchemas({Absent, Object([a |-> Number(4)])}), UpTo(NestedLayers, 2), {<<>>}),
   Family(ArraySchemas, UpTo(ArrayLayers, 3), {<<>>})}
PolicyFamily ==
  Family(NestedSchemas({Absent}), UpTo(PolicyLayers, 1), UpTo(Policies, 2))

-----------------------------------------------------------------------------
(* Requirements and evidence                                               *)

Plain == Root([a |-> N(Absent)], "merge", Absent)
Claim(about, strength, state, digest) ==
  [about |-> about, strength |-> strength, state |-> state, digest |-> digest]
ClaimsAbout(abouts) ==
  {Claim(about, strength, state, NoDigest) :
     about \in abouts, strength \in 1..2, state \in {"supported", "unsupported", "unknown"}}
  \cup {Claim(about, strength, "supported", digest) :
          about \in abouts, strength \in 1..2, digest \in 1..2}
Requirement(about, kind) == [about |-> about, kind |-> kind]
Kinds == {"required", "preferred", "optional"}

EvidenceFamily(requirements, evidence, convertible) ==
  [Family({Plain}, {<<Object(<<>>)>>}, {<<>>}) EXCEPT
     !.requirements = requirements, !.evidence = evidence, !.convertible = convertible]
EvidenceFamilies ==
  {EvidenceFamily({<<Requirement(1, k)>> : k \in Kinds}, UpTo(ClaimsAbout({1}), 3), BOOLEAN),
   EvidenceFamily({<<Requirement(1, k), Requirement(2, "required")>> : k \in Kinds},
                  UpTo(ClaimsAbout({1, 2}), 2), {TRUE})}

AllFamilies == MergeFamilies \cup {PolicyFamily} \cup EvidenceFamilies

(* One configuration, a minimum that should raise `a', and a setting forced  *)
(* in an object that is not there.                                         *)
UnappliedFamily ==
  {Family({Root([a |-> N(Absent), o |-> Inner("replace", Absent, Absent)], "merge",
                Object([a |-> Number(4)]))},
          {<<Object([a |-> Number(0)])>>},
          {<<Limits(<<"a">>, {1}, {}), Forced(<<"o", "x">>, Number(5))>>})}

=============================================================================
