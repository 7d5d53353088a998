SPECIFICATION FairSpec
CONSTANT
  MaxMissedPings = 2
INVARIANTS
  SupervisorTypeOK
  RestartsFromNothing
  ReadyMeansUsable
PROPERTIES
  ImplementsLifecycle
  ReachesItsEnd
CHECK_DEADLOCK FALSE
