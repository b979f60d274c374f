---------------------------- MODULE ClientSessions ----------------------------
(***************************************************************************)
(* What the session management server promises its clients, abstractly.   *)
(* A client connects once and disconnects once (a reconnect is a new IPC   *)
(* client).  While the server is running it serves every client that has  *)
(* connected, and it retires every served client that has disconnected;   *)
(* a retired client is never served again.  Before the server starts, and *)
(* after it stops, nothing is served or retired.                           *)
(***************************************************************************)
CONSTANTS Clients

VARIABLES
  conn,     \* conn[c]: "NEW", "LIVE" (connected) or "GONE" (disconnected)
  status,   \* status[c]: "NO" (not served yet), "SERVING" or "DONE"
  phase     \* "IDLE", "RUNNING" or "STOPPED"

vars == <<conn, status, phase>>

Init ==
  /\ conn = [c \in Clients |-> "NEW"]
  /\ status = [c \in Clients |-> "NO"]
  /\ phase = "IDLE"

Connect(c) ==
  /\ conn[c] = "NEW" /\ conn' = [conn EXCEPT ![c] = "LIVE"]
  /\ UNCHANGED <<status, phase>>

Disconnect(c) ==
  /\ conn[c] = "LIVE" /\ conn' = [conn EXCEPT ![c] = "GONE"]
  /\ UNCHANGED <<status, phase>>

Start ==
  /\ phase = "IDLE" /\ phase' = "RUNNING"
  /\ UNCHANGED <<conn, status>>

Stop ==
  /\ phase = "RUNNING" /\ phase' = "STOPPED"
  /\ UNCHANGED <<conn, status>>

\* A client that has connected starts being served.
Serve(c) ==
  /\ phase = "RUNNING"
  /\ conn[c] # "NEW" /\ status[c] = "NO"
  /\ status' = [status EXCEPT ![c] = "SERVING"]
  /\ UNCHANGED <<conn, phase>>

\* A served client that has disconnected is forgotten for good.
Retire(c) ==
  /\ phase = "RUNNING"
  /\ conn[c] = "GONE" /\ status[c] = "SERVING"
  /\ status' = [status EXCEPT ![c] = "DONE"]
  /\ UNCHANGED <<conn, phase>>

Next ==
  \/ Start \/ Stop
  \/ \E c \in Clients : Connect(c) \/ Disconnect(c) \/ Serve(c) \/ Retire(c)

\* While running, the server keeps serving and retiring.
Spec ==
  /\ Init /\ [][Next]_vars
  /\ \A c \in Clients : WF_vars(Serve(c)) /\ WF_vars(Retire(c))
=============================================================================
