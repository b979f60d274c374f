------------------------ MODULE SessionManagementServer ------------------------
(***************************************************************************)
(* The session server's SessionManagementServer.  initialize(socketName)   *)
(* adds the session-management socket to the IPC server, with a client-    *)
(* connected and a client-disconnected callback; start() runs the IPC      *)
(* server's process() loop until it returns false.  The IPC library       *)
(* queues a connect or disconnect event per client, in the order they      *)
(* happen on the socket, and the loop invokes the callbacks in that order. *)
(* Each callback tells all four module services (media pipeline, media    *)
(* keys, media keys capabilities, Rialto control) and updates the server's *)
(* own client list, which setLogLevels uses to send a SetLogLevelsEvent to *)
(* every connected client.                                                 *)
(***************************************************************************)
EXTENDS Naturals, Sequences, FiniteSets
LOCAL INSTANCE SequencesExt

CONSTANTS Clients,      \* IPC clients (each connects at most once)
          MaxLogCalls   \* setLogLevels calls in a behaviour (bound)

ASSUME MaxLogCalls \in Nat

Services == {"mediaPipeline", "mediaKeys", "mediaKeysCapabilities", "rialtoControl"}

VARIABLES
  initialized,   \* "NONE", "OK" or "FAILED": the result of addSocket
  loop,          \* "IDLE", "RUNNING" or "STOPPED": start()'s process() loop
  conn,          \* conn[c]: the client's socket connection, "NEW", "LIVE", "GONE"
  events,        \* connect/disconnect events not yet dispatched, oldest first
  clients,       \* the server's list of connected clients
  services,      \* services[s]: the clients module service s knows
  logEvents,     \* logEvents[c]: SetLogLevelsEvents sent to c
  logCalls       \* setLogLevels calls made

vars == <<initialized, loop, conn, events, clients, services, logEvents, logCalls>>

Init ==
  /\ initialized = "NONE"
  /\ loop = "IDLE"
  /\ conn = [c \in Clients |-> "NEW"]
  /\ events = <<>>
  /\ clients = {}
  /\ services = [s \in Services |-> {}]
  /\ logEvents = [c \in Clients |-> 0]
  /\ logCalls = 0

\* initialize(socketName): addSocket either registers the two callbacks and
\* returns true, or fails and initialize returns false.
Initialize ==
  /\ initialized = "NONE"
  /\ initialized' \in {"OK", "FAILED"}
  /\ UNCHANGED <<loop, conn, events, clients, services, logEvents, logCalls>>

\* start(): enter the process() loop.
Start ==
  /\ loop = "IDLE"
  /\ loop' = "RUNNING"
  /\ UNCHANGED <<initialized, conn, events, clients, services, logEvents, logCalls>>

\* process() returns false: the loop, and start(), end.
ProcessFails ==
  /\ loop = "RUNNING"
  /\ loop' = "STOPPED"
  /\ UNCHANGED <<initialized, conn, events, clients, services, logEvents, logCalls>>

\* A client connects to, or disconnects from, the socket; the IPC library
\* queues the event for the process() loop.
ClientConnects(c) ==
  /\ initialized = "OK" /\ conn[c] = "NEW"
  /\ conn' = [conn EXCEPT ![c] = "LIVE"]
  /\ events' = Append(events, [kind |-> "connected", client |-> c])
  /\ UNCHANGED <<initialized, loop, clients, services, logEvents, logCalls>>

ClientDisconnects(c) ==
  /\ conn[c] = "LIVE"
  /\ conn' = [conn EXCEPT ![c] = "GONE"]
  /\ events' = Append(events, [kind |-> "disconnected", client |-> c])
  /\ UNCHANGED <<initialized, loop, clients, services, logEvents, logCalls>>

\* onClientConnected: every module service's clientConnected(client).
ConnectServices(c) == [s \in Services |-> services[s] \cup {c}]

\* Variant: onClientDisconnected forgets the Rialto control service.
DisconnectServicesNoControl(c) ==
  [s \in Services |-> IF s = "rialtoControl" THEN services[s] ELSE services[s] \ {c}]

\* onClientDisconnected: every module service's clientDisconnected(client).
DisconnectServices(c) == [s \in Services |-> services[s] \ {c}]

\* One iteration of process(): the i-th queued event is dispatched to its
\* callback.
DispatchAt(i) ==
  /\ loop = "RUNNING"
  /\ i \in 1..Len(events)
  /\ LET e == events[i] IN
     /\ events' = RemoveAt(events, i)
     /\ \/ /\ e.kind = "connected"
           /\ clients' = clients \cup {e.client}
           /\ services' = ConnectServices(e.client)
        \/ /\ e.kind = "disconnected"
           /\ clients' = clients \ {e.client}
           /\ services' = DisconnectServices(e.client)
  /\ UNCHANGED <<initialized, loop, conn, logEvents, logCalls>>

\* Variant: events dispatched in any order, not the socket's.
DispatchAny == \E i \in 1..Len(events) : DispatchAt(i)

\* The loop dispatches the oldest event.
Dispatch == DispatchAt(1)

\* Variant: the event sent once per module service that knows the client,
\* walking the services' client lists instead of the server's own.
SetLogLevelsPerService ==
  /\ logCalls < MaxLogCalls
  /\ logCalls' = logCalls + 1
  /\ logEvents' = [c \in Clients |->
                   logEvents[c] + Cardinality({s \in Services : c \in services[s]})]
  /\ UNCHANGED <<initialized, loop, conn, events, clients, services>>

\* setLogLevels(...): a SetLogLevelsEvent to every client in the list.
SetLogLevels ==
  /\ logCalls < MaxLogCalls
  /\ logCalls' = logCalls + 1
  /\ logEvents' = [c \in Clients |-> IF c \in clients THEN logEvents[c] + 1
                                                      ELSE logEvents[c]]
  /\ UNCHANGED <<initialized, loop, conn, events, clients, services>>

Next ==
  \/ Initialize \/ Start \/ ProcessFails \/ Dispatch \/ SetLogLevels
  \/ \E c \in Clients : ClientConnects(c) \/ ClientDisconnects(c)

\* The process() loop keeps dispatching while it runs.
Fairness == WF_vars(Dispatch)

Spec == Init /\ [][Next]_vars /\ Fairness

-----------------------------------------------------------------------------
\* Every variable keeps its type; a client gets at most one event per call.
TypeOK ==
  /\ initialized \in {"NONE", "OK", "FAILED"}
  /\ loop \in {"IDLE", "RUNNING", "STOPPED"}
  /\ conn \in [Clients -> {"NEW", "LIVE", "GONE"}]
  /\ events \in Seq([kind : {"connected", "disconnected"}, client : Clients])
  /\ clients \subseteq Clients
  /\ services \in [Services -> SUBSET Clients]
  /\ logCalls \in 0..MaxLogCalls
  /\ logEvents \in [Clients -> 0..logCalls]   \* one event per call at most

\* All four module services know exactly the clients the server lists: a
\* disconnect reaches every one of them, so none keeps a departed client's
\* sessions.
ServicesAgree == \A s \in Services : services[s] = clients

\* Some event of client c is still queued.
Pending(c) == \E i \in 1..Len(events) : events[i].client = c

\* The abstract view: a client is served while the server lists it, and
\* done once it is gone with nothing left queued for it.
AbstractStatus ==
  [c \in Clients |->
     IF c \in clients THEN "SERVING"
     ELSE IF conn[c] = "GONE" /\ ~Pending(c) THEN "DONE"
     ELSE "NO"]

Abs == INSTANCE ClientSessions WITH status <- AbstractStatus, phase <- loop

\* The server implements ClientSessions: it serves every client that
\* connected, forgets every one that left, never serves a departed client
\* again, and does so while its process() loop runs.
ImplementsClientSessions == Abs!Spec
=============================================================================
