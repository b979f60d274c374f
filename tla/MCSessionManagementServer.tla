---------------------- MODULE MCSessionManagementServer ----------------------
EXTENDS SessionManagementServer

CONSTANTS C1, C2

MCClients == {C1, C2}
=============================================================================
