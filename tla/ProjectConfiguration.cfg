SPECIFICATION Spec
CONSTANT Families <- AllFamilies
INVARIANT TraceIsTrue
INVARIANT PoliciesHold
INVARIANT ReadyIsProven
CHECK_DEADLOCK FALSE
