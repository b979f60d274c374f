---------------------- MODULE ServerManagerModuleService ----------------------
(***************************************************************************)
(* The session server's ServerManagerModuleService: the IPC service the    *)
(* server manager calls over the app-management socket.  Each RPC          *)
(* (setConfiguration, setState, setLogLevels) is handled on the IPC thread *)
(* in arrival order: it calls the session server manager, marks the        *)
(* controller failed when the manager rejects the request, and always runs *)
(* the closure, which sends the response back to the server manager.       *)
(***************************************************************************)
EXTENDS Naturals, Sequences

CONSTANTS MaxCalls   \* RPCs the server manager sends in a behaviour (bound)

ASSUME MaxCalls \in Nat \ {0}

Calls == 1..MaxCalls
Methods == {"setConfiguration", "setState", "setLogLevels"}
\* SessionServerState values a request may carry.
States == {"UNINITIALIZED", "INACTIVE", "ACTIVE", "NOT_RUNNING", "ERROR"}

\* No request sent yet under this call number.
NoRequest == [method |-> "NONE", state |-> "NONE"]

VARIABLES
  socket,       \* calls received and not yet handled, oldest first
  sent,         \* sent[c]: the request of call c, or NoRequest
  closureRuns,  \* closureRuns[c]: times the closure of c ran
  setFailed,    \* setFailed[c]: controller->SetFailed was called for c
  serverState,  \* state the session server manager last accepted
  logLevelsSet  \* setLogLevels reached the session server manager

vars == <<socket, sent, closureRuns, setFailed, serverState, logLevelsSet>>

Init ==
  /\ socket = <<>>
  /\ sent = [c \in Calls |-> NoRequest]
  /\ closureRuns = [c \in Calls |-> 0]
  /\ setFailed = [c \in Calls |-> FALSE]
  /\ serverState = "UNINITIALIZED"
  /\ logLevelsSet = FALSE

\* The server manager sends call c: a method and, for setConfiguration and
\* setState, a target state.
SendCall(c, m, s) ==
  /\ sent[c] = NoRequest
  /\ \A d \in 1..(c - 1) : sent[d] # NoRequest   \* calls numbered in send order
  /\ sent' = [sent EXCEPT ![c] = [method |-> m, state |-> s]]
  /\ socket' = Append(socket, c)
  /\ UNCHANGED <<closureRuns, setFailed, serverState, logLevelsSet>>

\* Variant: the closure skipped when the manager rejected the request.
AnswerOnSuccessOnly(c, ok) ==
  /\ closureRuns' = IF ok THEN [closureRuns EXCEPT ![c] = @ + 1] ELSE closureRuns
  /\ setFailed' = IF ok THEN setFailed ELSE [setFailed EXCEPT ![c] = TRUE]

\* Variant: the failure branch runs the closure, and the common exit again.
AnswerTwiceOnFailure(c, ok) ==
  /\ closureRuns' = [closureRuns EXCEPT ![c] = @ + (IF ok THEN 1 ELSE 2)]
  /\ setFailed' = IF ok THEN setFailed ELSE [setFailed EXCEPT ![c] = TRUE]

\* The end of every handler: on a rejection controller->SetFailed, then in
\* every case done->Run().
Answer(c, ok) ==
  /\ closureRuns' = [closureRuns EXCEPT ![c] = @ + 1]
  /\ setFailed' = IF ok THEN setFailed ELSE [setFailed EXCEPT ![c] = TRUE]

\* The IPC thread handles the oldest call.  setConfiguration applies the
\* log levels, then calls setConfiguration(socket name, initial state, max
\* playbacks); setState calls setState(state); setLogLevels cannot fail.
\* The session server manager accepts or rejects each request.
HandleCall ==
  /\ socket # <<>>
  /\ LET c == Head(socket)
         req == sent[c]
     IN
     /\ socket' = Tail(socket)
     /\ logLevelsSet' = (logLevelsSet \/ req.method \in {"setConfiguration", "setLogLevels"})
     /\ \E ok \in IF req.method = "setLogLevels" THEN {TRUE} ELSE BOOLEAN :
          /\ Answer(c, ok)
          /\ serverState' = IF ok /\ req.method # "setLogLevels" THEN req.state
                            ELSE serverState
  /\ UNCHANGED sent

Done ==
  /\ socket = <<>> /\ \A c \in Calls : sent[c] # NoRequest
  /\ UNCHANGED vars

Next ==
  \/ \E c \in Calls, m \in Methods, s \in States : SendCall(c, m, s)
  \/ HandleCall
  \/ Done

\* The IPC server thread keeps reading its socket: a received call is
\* eventually handled.  The server manager is not assumed to send.
Fairness == WF_vars(HandleCall)

Spec == Init /\ [][Next]_vars /\ Fairness

-----------------------------------------------------------------------------
\* Every variable keeps its type; a closure runs at most once.
TypeOK ==
  /\ socket \in Seq(Calls)
  /\ sent \in [Calls -> {NoRequest} \cup [method : Methods, state : States]]
  /\ closureRuns \in [Calls -> 0..1]
  /\ setFailed \in [Calls -> BOOLEAN]
  /\ serverState \in States /\ logLevelsSet \in BOOLEAN

\* Every call the server manager sends is eventually answered, whether the
\* session server manager accepts or rejects it: the manager, which waits
\* for the response, is never left hanging.
EveryCallAnswered ==
  \A c \in Calls : (sent[c] # NoRequest) ~> (closureRuns[c] >= 1)
=============================================================================
