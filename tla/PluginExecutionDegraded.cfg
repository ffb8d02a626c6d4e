CONSTANTS
  p1 = p1
  p2 = p2
  p3 = p3
  p4 = p4
  Plugins = {p1, p2, p3, p4}
  Registered = {p1, p2, p4}
  Disposable = {p1, p2}
  Phases = {"analyze", "render"}
  Plans <- MCPlans
  Kinds = {"trace"}
  ArtifactLists <- MCArtifactLists
  Policy <- MCPolicy
  MaxPatches = 2
  HasTimeout = TRUE
SPECIFICATION Spec
CHECK_DEADLOCK FALSE
INVARIANTS
  DegradedIsOriginal
