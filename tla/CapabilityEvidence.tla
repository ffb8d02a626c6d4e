------------------------- MODULE CapabilityEvidence -------------------------
(***************************************************************************)
(* Whether the evidence at hand satisfies a capability requirement          *)
(* (packages/core/src/capability-evidence.ts).  `about' stands for the      *)
(* capability and the binding a requirement or a claim is for; the strength *)
(* of a claim is that of its source, from observation to policy.            *)
(***************************************************************************)
EXTENDS Naturals, Sequences, FiniteSets, SequencesExt

NoDigest == 0
Strengths == 1..4

(* matching: the claims about the requirement, and the order they are       *)
(* sorted in.  Claims of one strength come in the order of their names,     *)
(* which only the listing of the evidence shows.                           *)
Matching(requirement, evidence) == {e \in ToSet(evidence) : e.about = requirement.about}

(* The weakest claims come first.                                          *)
FaultBefore(a, b) == a.strength < b.strength

Before(a, b) == a.strength > b.strength

(* resolveOne: of what says something, all that is as strong as the first.  *)
Decisive(requirement, evidence) ==
  {e \in Matching(requirement, evidence) : e.state # "unknown"}
Claims(requirement, evidence) ==
  LET decisive == Decisive(requirement, evidence)
      first == CHOOSE e \in decisive : \A f \in decisive : ~Before(f, e)
  IN {e \in decisive : e.strength = first.strength}

ConflictingClaims(unsupported, supported) ==
  \/ unsupported # {} /\ supported # {}
  \/ Cardinality({e.digest : e \in supported} \ {NoDigest}) > 1

Decide(requirement, claims) ==
  LET unsupported == {e \in claims : e.state = "unsupported"}
      supported == {e \in claims : e.state = "supported"}
  IN IF ConflictingClaims(unsupported, supported) THEN "conflict"
     ELSE IF unsupported # {} \/ supported = {}
     THEN IF requirement.kind = "preferred" THEN "fallback" ELSE "missing"
     ELSE "satisfied"

ResolveOne(requirement, evidence) ==
  [requirement |-> requirement, outcome |-> Decide(requirement, Claims(requirement, evidence))]

=============================================================================
