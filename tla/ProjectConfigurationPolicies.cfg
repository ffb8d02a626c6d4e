SPECIFICATION Spec
CONSTANT Families <- UnappliedFamily
INVARIANT PoliciesHold
CHECK_DEADLOCK FALSE
