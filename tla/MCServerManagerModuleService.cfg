CONSTANTS
  MaxCalls = 3
SPECIFICATION Spec
INVARIANT TypeOK
PROPERTY EveryCallAnswered
