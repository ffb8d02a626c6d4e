CONSTANTS
  s1 = s1
  s2 = s2
  a = a
  b = b
  NoObserver = NoObserver
  Observers <- MCObservers
  ObserverOf <- MCObserverOf
  Subs <- MCTwo
  Capacity <- MCCapacityOne
  MaxEmits = 3
SPECIFICATION Spec
INVARIANT TerminalIsFinalCritical
CHECK_DEADLOCK FALSE
