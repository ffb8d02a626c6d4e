CONSTANTS
  plain = plain
  dev = dev
  a = a
  NoObserver = NoObserver
  Observers <- MCObservers
  ObserverOf <- MCObserverOf
  Subs <- MCSubs
  Capacity <- MCCapacity
  Dev = dev
  MaxEvents = 2
  MaxEmits = 3
SPECIFICATION DevSpec
INVARIANTS
  RetainsTheEnd
PROPERTY
  ObservationEnds
CHECK_DEADLOCK FALSE
