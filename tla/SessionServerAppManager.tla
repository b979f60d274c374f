----------------------- MODULE SessionServerAppManager -----------------------
(***************************************************************************)
(* The server manager's SessionServerAppManager: one session-server app   *)
(* per application id, created by SessionServerAppFactory::create,        *)
(* launched, connected over its app-management socket, configured when    *)
(* the process reports UNINITIALIZED, and removed when it reports         *)
(* NOT_RUNNING or ERROR or cannot be configured.  Every request and every *)
(* state-changed indication is handled as one event on the manager's      *)
(* event thread.  The state observer (in the simulator, the TestService   *)
(* queried by the GetState command) learns the states the manager         *)
(* forwards.                                                               *)
(*                                                                         *)
(* Each app object the factory creates is a server instance; the          *)
(* indications a process sends travel over that instance's own socket,    *)
(* so they name the instance, not only the application id.                *)
(***************************************************************************)
EXTENDS Naturals, Sequences, FiniteSets

CONSTANTS Apps,          \* application ids
          MaxInstances,  \* apps the factory may create in a behaviour
          MaxInFlight    \* indications a socket may hold unread

ASSUME MaxInstances \in Nat \ {0} /\ MaxInFlight \in Nat \ {0}

\* firebolt::rialto::common::SessionServerState
States == {"UNINITIALIZED", "INACTIVE", "ACTIVE", "NOT_RUNNING", "ERROR"}
Terminal == {"NOT_RUNNING", "ERROR"}
\* States a client may request (setSessionServerState).
Requestable == {"INACTIVE", "ACTIVE", "NOT_RUNNING"}
InitialStates == {"INACTIVE", "ACTIVE"}
Instances == 1..MaxInstances

\* No session server registered for the application.
NoServer == [inst |-> 0, state |-> "NONE", initialState |-> "NONE"]

VARIABLES
  servers,      \* servers[a]: the registered app of a, or NoServer
  nextInst,     \* instances created so far by the factory
  appOf,        \* appOf[i]: the application instance i was created for
  proc,         \* proc[i]: state of the process of instance i
  channel,      \* channel[i]: indications on i's socket, oldest first
  observed,     \* observed[a]: last state forwarded to the state observer
  killed,       \* instances whose process the manager killed
  failed,       \* instances that failed: died, could not connect, or
                \* could not be configured
  reply,        \* last answers to the queries: GetState, getAppConnectionInfo
                \* (an instance's socket, 0 for the empty string), setLogLevel
  tornDown      \* ~SessionServerAppManager has run

vars == <<servers, nextInst, appOf, proc, channel, observed, killed, failed, reply, tornDown>>

Registered(a) == servers[a] # NoServer

\* Process states: not started, reporting a SessionServerState (UNINITIALIZED
\* until configured), or dead.
ProcStates == {"NONE", "DEAD"} \cup States

Init ==
  /\ servers = [a \in Apps |-> NoServer]
  /\ nextInst = 0
  /\ appOf = [i \in Instances |-> CHOOSE a \in Apps : TRUE]
  /\ proc = [i \in Instances |-> "NONE"]
  /\ channel = [i \in Instances |-> <<>>]
  /\ observed = [a \in Apps |-> "NONE"]
  /\ killed = {}
  /\ failed = {}
  /\ reply = [state |-> "NONE", conn |-> 0, log |-> "NONE"]
  /\ tornDown = FALSE

-----------------------------------------------------------------------------
\* SessionServerAppFactory::create(appId, initialState, manager): a new app
\* object, carrying the initial state and the environment variables the
\* factory was built with; its process is not started yet.
CreateApp(i, s) == [inst |-> i, state |-> "LAUNCHED", initialState |-> s]

\* Variant: a request for NOT_RUNNING launching a server too.
LaunchableAny(s) == TRUE

\* Only a request for a running state launches a server.
Launchable(s) == s # "NOT_RUNNING"

\* A process sends an indication over its socket.
Send(i, st) == channel' = [channel EXCEPT ![i] = Append(@, st)]

\* setSessionServerState(appId, s) for an application with no server:
\* NOT_RUNNING is refused; otherwise the app is created and launched.  A
\* failed launch leaves nothing registered; a failed connect of the
\* app-management socket kills the process; success registers the app,
\* whose process then reports UNINITIALIZED.
SetStateNoServer(a, s) ==
  /\ ~tornDown
  /\ ~Registered(a)
  /\ Launchable(s)
  /\ nextInst < MaxInstances
  /\ LET i == nextInst + 1 IN
     /\ nextInst' = i
     /\ appOf' = [appOf EXCEPT ![i] = a]
     /\ \/ /\ UNCHANGED <<servers, proc, channel, killed, failed>>  \* launch fails
        \/ /\ proc' = [proc EXCEPT ![i] = "DEAD"]                  \* connect fails
           /\ killed' = killed \cup {i}
           /\ failed' = failed \cup {i}
           /\ UNCHANGED <<servers, channel>>
        \/ /\ servers' = [servers EXCEPT ![a] = CreateApp(i, s)]    \* launched
           /\ proc' = [proc EXCEPT ![i] = "UNINITIALIZED"]
           /\ Send(i, "UNINITIALIZED")
           /\ UNCHANGED <<killed, failed>>
  /\ UNCHANGED <<observed, reply, tornDown>>

\* setSessionServerState(appId, s) for a registered app sends setState over
\* its socket.  When sending fails the call returns false and nothing
\* changes; when it succeeds a live, configured process switches to s and
\* reports it.  The manager's table changes only on the indication.
SetStateRegistered(a, s) ==
  /\ ~tornDown
  /\ Registered(a)
  /\ LET i == servers[a].inst IN
     \/ UNCHANGED vars
     \/ /\ proc[i] \in {"INACTIVE", "ACTIVE"}
        /\ s \in {"INACTIVE", "ACTIVE"} /\ s # proc[i]
        /\ Len(channel[i]) < MaxInFlight
        /\ proc' = [proc EXCEPT ![i] = s]
        /\ Send(i, s)
        /\ UNCHANGED <<servers, nextInst, appOf, observed, killed, failed, reply, tornDown>>

\* A process that was started and not killed dies: its exit is reported as
\* NOT_RUNNING, an internal failure as ERROR.
Die(i, st) ==
  /\ proc[i] \notin {"NONE", "DEAD"}
  /\ i \notin killed
  /\ proc' = [proc EXCEPT ![i] = "DEAD"]
  /\ Len(channel[i]) < MaxInFlight
  /\ Send(i, st)
  /\ failed' = failed \cup {i}
  /\ UNCHANGED <<servers, nextInst, appOf, observed, killed, reply, tornDown>>

\* Removing an app: its process is killed and the observer told the state.
Remove(a, st) ==
  /\ servers' = [servers EXCEPT ![a] = NoServer]
  /\ killed' = killed \cup {servers[a].inst}
  /\ observed' = [observed EXCEPT ![a] = st]

\* Variant: an indication matched by application id alone.
FromCurrent_ById(i, a) == Registered(a)

\* The indication comes from the instance currently registered for its app.
FromCurrent(i, a) == Registered(a) /\ servers[a].inst = i

\* Variant: a failed setConfiguration removing the app without telling the
\* observer.
ConfigureFailsSilently(i, a) ==
  /\ servers' = [servers EXCEPT ![a] = NoServer]
  /\ killed' = killed \cup {servers[a].inst}
  /\ failed' = failed \cup {i}
  /\ observed' = [observed EXCEPT ![a] = "UNINITIALIZED"]
  /\ UNCHANGED proc

\* UNINITIALIZED: cancelStartupTimer, the observer is told, and the app is
\* sent setConfiguration with its initial state, which a live process
\* applies and reports.  A failed setConfiguration removes the app and
\* reports ERROR.
Configure(i, a) ==
  \/ /\ proc[i] = "UNINITIALIZED"
     /\ servers' = [servers EXCEPT ![a].state = "UNINITIALIZED"]
     /\ observed' = [observed EXCEPT ![a] = "UNINITIALIZED"]
     /\ proc' = [proc EXCEPT ![i] = servers[a].initialState]
     /\ UNCHANGED <<killed, failed>>
  \/ /\ Remove(a, "ERROR")
     /\ failed' = failed \cup {i}
     /\ UNCHANGED proc

\* onSessionServerStateChanged for the oldest indication on i's socket: an
\* indication of an instance no longer registered is dropped; NOT_RUNNING
\* and ERROR remove the app; any other state is recorded and forwarded to
\* the observer.
OnStateChanged(i) ==
  /\ ~tornDown
  /\ channel[i] # <<>>
  /\ LET st == Head(channel[i])
         a == appOf[i]
         rest == Tail(channel[i])
     IN \/ /\ ~FromCurrent(i, a)
           /\ channel' = [channel EXCEPT ![i] = rest]
           /\ UNCHANGED <<servers, proc, observed, killed, failed>>
        \/ /\ FromCurrent(i, a) /\ st = "UNINITIALIZED"
           /\ Configure(i, a)
           /\ channel' = [channel EXCEPT ![i] =
                 IF proc'[i] \in {"INACTIVE", "ACTIVE"} THEN Append(rest, proc'[i])
                 ELSE rest]
        \/ /\ FromCurrent(i, a) /\ st \in Terminal
           /\ Remove(a, st)
           /\ channel' = [channel EXCEPT ![i] = rest]
           /\ UNCHANGED <<proc, failed>>
        \/ /\ FromCurrent(i, a) /\ st \in {"INACTIVE", "ACTIVE"}
           /\ servers' = [servers EXCEPT ![a].state = st]
           /\ observed' = [observed EXCEPT ![a] = st]
           /\ channel' = [channel EXCEPT ![i] = rest]
           /\ UNCHANGED <<proc, killed, failed>>
  /\ UNCHANGED <<nextInst, appOf, reply, tornDown>>

\* The simulator's GetState command: the test service answers with the
\* state the observer last received for the application.
GetState(a) ==
  /\ ~tornDown
  /\ reply' = [reply EXCEPT !.state = observed[a]]
  /\ UNCHANGED <<servers, nextInst, appOf, proc, channel, observed, killed, failed, tornDown>>

\* getAppConnectionInfo(appId): the session-management socket name of the
\* registered app, or the empty string when none is registered.
GetConnectionInfo(a) ==
  /\ ~tornDown
  /\ reply' = [reply EXCEPT !.conn = IF Registered(a) THEN servers[a].inst ELSE 0]
  /\ UNCHANGED <<servers, nextInst, appOf, proc, channel, observed, killed, failed, tornDown>>

\* setLogLevels(...): setLogLevels is sent to every registered app, and the
\* call returns false when a send fails.
SetLogLevel ==
  /\ ~tornDown
  /\ \E ok \in [{a \in Apps : Registered(a)} -> BOOLEAN] :
       reply' = [reply EXCEPT !.log = IF \A a \in DOMAIN ok : ok[a] THEN "TRUE" ELSE "FALSE"]
  /\ UNCHANGED <<servers, nextInst, appOf, proc, channel, observed, killed, failed, tornDown>>

\* Variant: teardown kills only the apps that were configured, leaving a
\* launched app still waiting for its UNINITIALIZED indication.
TeardownConfiguredOnly ==
  /\ ~tornDown
  /\ tornDown' = TRUE
  /\ killed' = killed \cup {servers[a].inst : a \in {b \in Apps : Registered(b) /\ servers[b].state # "LAUNCHED"}}
  /\ servers' = [a \in Apps |-> NoServer]
  /\ UNCHANGED <<nextInst, appOf, proc, channel, observed, failed, reply>>

\* ~SessionServerAppManager: every registered app is killed.
Teardown ==
  /\ ~tornDown
  /\ tornDown' = TRUE
  /\ killed' = killed \cup {servers[a].inst : a \in {b \in Apps : Registered(b)}}
  /\ servers' = [a \in Apps |-> NoServer]
  /\ UNCHANGED <<nextInst, appOf, proc, channel, observed, failed, reply>>

TornDown == tornDown /\ UNCHANGED vars

Next ==
  \/ \E a \in Apps, s \in Requestable : SetStateNoServer(a, s) \/ SetStateRegistered(a, s)
  \/ \E i \in Instances, st \in Terminal : Die(i, st)
  \/ \E i \in Instances : OnStateChanged(i)
  \/ \E a \in Apps : GetState(a) \/ GetConnectionInfo(a)
  \/ SetLogLevel \/ Teardown \/ TornDown

Spec == Init /\ [][Next]_vars

-----------------------------------------------------------------------------
\* Every variable keeps its type; in particular an app is only ever created
\* with a running initial state.
TypeOK ==
  /\ servers \in [Apps -> {NoServer} \cup
                   [inst : Instances, state : States \cup {"LAUNCHED"},
                    initialState : InitialStates]]
  /\ nextInst \in 0..MaxInstances
  /\ appOf \in [Instances -> Apps]
  /\ proc \in [Instances -> ProcStates]
  /\ channel \in [Instances -> Seq(States)]
  /\ observed \in [Apps -> States \cup {"NONE"}]
  /\ killed \subseteq Instances /\ failed \subseteq Instances
  /\ reply \in [state : States \cup {"NONE"}, conn : {0} \cup Instances,
               log : {"NONE", "TRUE", "FALSE"}]
  /\ tornDown \in BOOLEAN

\* The observer (and so the simulator's GetState) never shows a removed
\* app as live, and shows a registered app in the state the manager holds:
\* every path that removes an app, including a failed setConfiguration
\* after UNINITIALIZED, forwards NOT_RUNNING or ERROR.  (The destructor
\* tells the observer nothing.)
ObserverConsistent ==
  ~tornDown =>
  \A a \in Apps :
    /\ ~Registered(a) => observed[a] \in Terminal \cup {"NONE"}
    /\ Registered(a) /\ servers[a].state # "LAUNCHED" =>
         observed[a] = servers[a].state

\* The manager only kills a process that failed: a late indication of a
\* removed instance, arriving after the application was relaunched, never
\* removes or kills the new, healthy instance.  (Teardown then kills every
\* app on purpose.)
KilledOnlyOnFailure == ~tornDown => killed \subseteq failed

\* No session-server process outlives the manager: after teardown every
\* process still running has been killed, including one launched and
\* connected whose UNINITIALIZED indication was never handled.
NoOrphanAtTeardown ==
  tornDown => \A i \in Instances : proc[i] \notin {"NONE", "DEAD"} => i \in killed
=============================================================================
