CONSTANTS
  C1 = C1
  C2 = C2
  Clients <- MCClients
  MaxLogCalls = 2
SPECIFICATION Spec
INVARIANT TypeOK ServicesAgree
PROPERTY ImplementsClientSessions
\* The server really stops: once process() has returned false and every
\* client has come and gone, no step is enabled.
CHECK_DEADLOCK FALSE
