CONSTANTS
  s1 = s1
  s2 = s2
  a = a
  b = b
  NoObserver = NoObserver
  Observers <- MCObservers
  ObserverOf <- MCObserverOf
  Subs <- MCTwo
  Capacity <- MCCapacity
  MaxEmits = 3
SPECIFICATION Spec
INVARIANTS
  TypeOK
  SinkSeesLogInOrder
  ViewsInOrder
  NoCriticalLost
  LagReportedOnce
  NoReaderStranded
  NothingAfterTerminal
PROPERTY
  ImplementsBroadcast
\* After completion nothing is left to do: the Run is over.
CHECK_DEADLOCK FALSE
