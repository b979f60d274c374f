CONSTANTS
  MaxRequests = 3
  MaxQueue = 2
SPECIFICATION Spec
INVARIANT TypeOK
