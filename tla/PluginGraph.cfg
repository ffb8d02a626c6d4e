CONSTANTS
  Names = {1, 2, 3, 4, 5, 6, 7}
  Phases = {1, 2}
  Unknown = 3
  Inputs <- MCInputs
SPECIFICATION Spec
INVARIANTS
  TypeOK
  PlanWheneverPossible
  PlanIsLeast
  CycleNamesTheStuck
\* Compilation ends.
CHECK_DEADLOCK FALSE
