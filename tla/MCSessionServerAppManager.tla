---------------------- MODULE MCSessionServerAppManager ----------------------
EXTENDS SessionServerAppManager

CONSTANTS APP1

\* One application: instances of the same application are what a stale
\* indication can confuse; different applications never share an entry.
MCApps == {APP1}
=============================================================================
