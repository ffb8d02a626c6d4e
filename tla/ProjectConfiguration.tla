------------------------ MODULE ProjectConfiguration ------------------------
(***************************************************************************)
(* From configuration layers to a resolved configuration with its trace,    *)
(* and to what `inspect' and `doctor' say of the capabilities it asks for   *)
(* (resolveConfiguration, and apps/runtime-node/src/configuration.ts and    *)
(* server.ts around it).  loadConfiguration reads one layer and has no      *)
(* policies; resolveConfiguration takes any number of both.                *)
(*                                                                         *)
(* The requirements and the evidence are those that stand in the resolved   *)
(* configuration; a problem says whether each item could be converted.      *)
(***************************************************************************)
EXTENDS ConfigurationResolution, CapabilityEvidence

CONSTANT Families   (* what may be resolved: per family, the sets its parts are from *)

ASSUME FamiliesAssumption ==
  \A f \in Families :
    /\ \A schema \in f.schemas : IsSchema(schema)
    /\ \A layers \in f.layers : IsList(layers) /\ \A i \in DOMAIN layers : IsValue(layers[i])
    /\ \A policies \in f.policies :
         IsList(policies) /\ \A i \in DOMAIN policies : IsPolicy(policies[i])
    /\ \A requirements \in f.requirements : IsList(requirements)
    /\ \A evidence \in f.evidence :
         IsList(evidence) /\ \A i \in DOMAIN evidence : evidence[i].strength \in Strengths

VARIABLES
  problem,      (* schema, layers, policies, requirements, evidence, convertible *)
  pc,
  next,         (* the layer, policy or requirement the loop is at         *)
  config,       (* undefined until merged                                  *)
  merged,       (* history: the configuration before any policy            *)
  trace,
  resolutions,
  ready         (* what doctor answers; FALSE before                       *)

vars == <<problem, pc, next, config, merged, trace, resolutions, ready>>

NoTrace == <<>>

Init ==
  /\ \E f \in Families :
       problem \in [schema : f.schemas, layers : f.layers, policies : f.policies,
                    requirements : f.requirements, evidence : f.evidence,
                    convertible : f.convertible]
  /\ pc = "read"
  /\ next = 1
  /\ config = Absent
  /\ merged = Absent
  /\ trace = NoTrace
  /\ resolutions = <<>>
  /\ ready = FALSE

Goto(where) == pc' = where /\ next' = 1
Refuse == Goto("invalid") /\ UNCHANGED <<problem, config, merged, trace, resolutions, ready>>

(* The file cannot be read or parsed.                                      *)
Unreadable == pc = "read" /\ Refuse

Read ==
  /\ pc = "read"
  /\ Goto("layers")
  /\ UNCHANGED <<problem, config, merged, trace, resolutions, ready>>

(* Every layer is validated, also one that a higher one would override.     *)
ValidateLayer ==
  /\ pc = "layers" /\ next <= Len(problem.layers)
  /\ IF ValidConfig(problem.schema, problem.layers[next])
     THEN /\ next' = next + 1
          /\ UNCHANGED <<problem, pc, config, merged, trace, resolutions, ready>>
     ELSE Refuse

MergeLayers ==
  /\ pc = "layers" /\ next > Len(problem.layers)
  /\ merged' = Merge(problem.schema, problem.layers)
  /\ config' = merged'
  /\ Goto("policies")
  /\ UNCHANGED <<problem, trace, resolutions, ready>>

PolicyStep ==
  /\ pc = "policies" /\ next <= Len(problem.policies)
  /\ LET result == ApplyPolicy(config, problem.policies[next], problem.schema)
     IN IF result.ok
        THEN /\ config' = result.config
             /\ next' = next + 1
             /\ UNCHANGED <<problem, pc, merged, trace, resolutions, ready>>
        ELSE Refuse

Resolve ==
  /\ pc = "policies" /\ next > Len(problem.policies)
  /\ IF ValidConfig(problem.schema, config)
     THEN /\ trace' = MakeTrace(problem.schema, problem.layers)
          /\ Goto("convert")
          /\ UNCHANGED <<problem, config, merged, resolutions, ready>>
     ELSE Refuse

(* collect: one requirement or piece of evidence that is malformed refuses  *)
(* them all.                                                               *)
Convert ==
  /\ pc = "convert"
  /\ IF problem.convertible
     THEN /\ Goto("evaluate")
          /\ UNCHANGED <<problem, config, merged, trace, resolutions, ready>>
     ELSE Refuse

Evaluate ==
  /\ pc = "evaluate" /\ next <= Len(problem.requirements)
  /\ resolutions' = Append(resolutions, ResolveOne(problem.requirements[next], problem.evidence))
  /\ next' = next + 1
  /\ UNCHANGED <<problem, pc, config, merged, trace, ready>>

Blocking(r) ==
  \/ r.outcome = "conflict"
  \/ r.requirement.kind = "required" /\ r.outcome # "satisfied"

Doctor ==
  /\ pc = "evaluate" /\ next > Len(problem.requirements)
  /\ ready' = ~(\E i \in DOMAIN resolutions : Blocking(resolutions[i]))
  /\ Goto("answered")
  /\ UNCHANGED <<problem, config, merged, trace, resolutions>>

Next ==
  \/ Unreadable \/ Read \/ ValidateLayer \/ MergeLayers \/ PolicyStep \/ Resolve
  \/ Convert \/ Evaluate \/ Doctor

Spec == Init /\ [][Next]_vars

-----------------------------------------------------------------------------
(* Properties                                                              *)

Resolved == trace # NoTrace

(* The outermost pointer on the way that does not merge decides, whole, what *)
(* is in it.  Where all of them merge a setting is decided by itself.       *)
Shortest(S) == CHOOSE s \in S : \A t \in S : Len(s) <= Len(t)
Around(p) == Ancestors(p) \cup {p}
Decider(p) ==
  LET whole == {a \in Ancestors(p) : problem.schema[a].merge # "merge"}
  IN IF whole = {} THEN p ELSE Shortest(whole)

(* What a default says of a pointer inside it, and what is there by default: *)
(* of the defaults around a setting the outermost counts.                   *)
Declared(a, p) == At(problem.schema[a].default, Beyond(a, p))
ByDefault(p) ==
  LET saying == {a \in Around(p) : Declared(a, p) # Absent}
  IN IF saying = {} THEN Absent ELSE Declared(Shortest(saying), p)

ValueIn(source, p) ==
  IF source \in DOMAIN problem.layers THEN At(problem.layers[source], p) ELSE ByDefault(p)
MembersOf(v) == ToSet(Items(<<v>>))

(* Every value came from where the trace of its decider says: it is all of  *)
(* what the effective source has there, or what there is by default when    *)
(* none of the layers is; an array that accumulates has the items of every  *)
(* accepted candidate and of the defaults, and no others; a member of an    *)
(* object that merges is one of an accepted candidate or of a default, or    *)
(* its own rule makes it (merge, traceCandidates, trace).                   *)
SourceIsTrue(p) ==
  LET s == Decider(p)
      entry == trace[s]
      rule == problem.schema[s]
  IN CASE rule.merge = "replace" ->
            /\ At(merged, p) = At(ValueIn(entry.effectiveSource, s), Beyond(s, p))
            /\ entry.accepted = {entry.effectiveSource} \cap DOMAIN problem.layers
       [] rule.merge \in {"append", "union"} ->
            MembersOf(At(merged, s)) = UNION ({MembersOf(ValueIn(i, s)) : i \in entry.accepted}
                                              \cup {MembersOf(Declared(a, s)) : a \in Around(s)})
       [] OTHER ->
            \A q \in {q \in DOMAIN At(merged, s) : Len(q) = 1} :
              \/ problem.schema[s \o q].merge # "replace"
              \/ ByDefault(s \o q) # Absent
              \/ \E i \in entry.accepted : q \in DOMAIN ValueIn(i, s)
TraceIsTrue == Resolved => \A p \in DOMAIN trace : SourceIsTrue(p)

(* A policy that was applied holds of the configuration that is returned,   *)
(* unless a later one has changed the same setting or part of it: one that  *)
(* only allows or denies excuses nothing (applyPolicies, forcePolicy,       *)
(* clampPolicy).                                                           *)
Overlapping(p, q) == IsPrefix(p, q) \/ IsPrefix(q, p)
Overrides(later, policy) ==
  later.action \in {"forced", "clamped"} /\ Overlapping(policy.pointer, later.pointer)
Holds(policy, v) ==
  LET value == At(v, policy.pointer)
  IN CASE policy.action = "forced" -> value = policy.value
       [] policy.action = "denied" -> value = Absent
       [] policy.action = "clamped" ->
            /\ KindOf(value) = "number"
            /\ \A low \in policy.min : Node(value).value >= low
            /\ \A high \in policy.max : Node(value).value <= high
       [] OTHER -> TRUE
PoliciesHold ==
  Resolved =>
    \A i \in DOMAIN problem.policies :
      \/ Holds(problem.policies[i], config)
      \/ \E j \in (i + 1)..Len(problem.policies) : Overrides(problem.policies[j], problem.policies[i])

(* doctor says ready only when for every required capability there is       *)
(* support that no claim as strong or stronger contradicts, whatever the     *)
(* order the evidence is listed in (matching, resolveOne, decide, blocking).*)
About(requirement) == {problem.evidence[i] : i \in {i \in DOMAIN problem.evidence :
                         problem.evidence[i].about = requirement.about}}
Agree(e, f) == e.digest = f.digest \/ NoDigest \in {e.digest, f.digest}
Proven(requirement) ==
  \E e \in About(requirement) :
    /\ e.state = "supported"
    /\ \A f, g \in {f \in About(requirement) : f.strength >= e.strength} :
         /\ f.state # "unsupported"
         /\ f.state = "supported" /\ g.state = "supported" /\ f.strength = g.strength
              => Agree(f, g)
ReadyIsProven ==
  ready => \A i \in DOMAIN problem.requirements :
             problem.requirements[i].kind = "required" => Proven(problem.requirements[i])

=============================================================================
