CONSTANTS
  APP1 = APP1
  Apps <- MCApps
  MaxInstances = 3
  MaxInFlight = 2
SPECIFICATION Spec
INVARIANT TypeOK ObserverConsistent KilledOnlyOnFailure NoOrphanAtTeardown
