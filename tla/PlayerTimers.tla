----------------------------- MODULE PlayerTimers -----------------------------
(***************************************************************************)
(* The generic player's timer-driven services.  The position-reporting /  *)
(* audio-underflow-check timer is periodic; its callback, on the timer    *)
(* thread, submits ReportPosition then CheckAudioUnderflow to the worker.  *)
(* The setup-finish timer is one-shot (200 ms); its callback submits       *)
(* FinishSetupSource.  The player holds each timer in a unique_ptr: a new  *)
(* timer replaces (and so destroys and cancels) the old one.  Timer       *)
(* callbacks never touch the context; only the tasks they submit do.       *)
(***************************************************************************)
EXTENDS Naturals, Sequences

CONSTANTS MaxCalls,     \* start/stop calls on the position timer (bound)
          MaxSetups,    \* scheduleSourceSetupFinish calls (bound)
          MaxQueue      \* tasks waiting on the worker (bound)

ASSUME MaxCalls \in Nat \ {0} /\ MaxSetups \in Nat \ {0} /\ MaxQueue >= 2

\* The timer a unique_ptr holds: none, or an ITimer that isActive() or not.
TimerStates == {"NONE", "ACTIVE", "INACTIVE"}
Tasks == {"ReportPosition", "CheckAudioUnderflow", "FinishSetupSource"}

VARIABLES
  queue, workerRunning,
  positionTimer,   \* m_positionReportingAndCheckAudioUnderflowTimer
  setupTimer,      \* the setup-finish timer
  calls,           \* start/stop calls made on the position timer
  setups,          \* scheduleSourceSetupFinish calls made
  finished,        \* FinishSetupSource tasks run
  curBusy,         \* the current position timer's callback is between its
                   \* two enqueueTask calls
  stale,           \* callbacks of replaced timers still between the two
  awaitingCheck,   \* history: a ReportPosition ran and no
                   \* CheckAudioUnderflow has run since
  wantReports,     \* history: the last start (not stop) call got a timer
  reported,        \* history: a ReportPosition ran since that start
  destroyed

vars == <<queue, workerRunning, positionTimer, setupTimer, calls, setups,
          finished, curBusy, stale, awaitingCheck, wantReports, reported,
          destroyed>>

WT == INSTANCE WorkerThread WITH running <- workerRunning

Init ==
  /\ queue = <<>> /\ workerRunning = TRUE
  /\ positionTimer = "NONE" /\ setupTimer = "NONE"
  /\ calls = 0 /\ setups = 0 /\ finished = 0
  /\ curBusy = FALSE /\ stale = 0 /\ awaitingCheck = FALSE
  /\ wantReports = FALSE /\ reported = FALSE
  /\ destroyed = FALSE

\* Variant: start treats any existing timer as running, active or not.
TimerRunningIfExists == positionTimer # "NONE"

\* The guard of startPositionReportingAndCheckAudioUnderflowTimer: a timer
\* exists and isActive().
TimerRunning == positionTimer = "ACTIVE"

\* startPositionReportingAndCheckAudioUnderflowTimer: a no-op while the
\* current timer is active; otherwise createTimer(PERIODIC), whose result
\* replaces the old timer and may be null when creation fails.  Whether
\* destroying the old timer waits for its running callback is decided in
\* common::Timer, outside this repository: the model lets that callback
\* finish before the start or after it (then it is stale).
StartPositionTimer ==
  /\ ~destroyed /\ calls < MaxCalls
  /\ calls' = calls + 1
  /\ \/ /\ TimerRunning
        /\ UNCHANGED <<positionTimer, reported, curBusy, stale>>
        /\ wantReports' = TRUE
     \/ /\ ~TimerRunning
        /\ positionTimer' = "ACTIVE"
        /\ wantReports' = TRUE /\ reported' = FALSE
        /\ curBusy' = FALSE /\ stale' = stale + (IF curBusy THEN 1 ELSE 0)
     \/ /\ ~TimerRunning
        /\ positionTimer' = "NONE"
        /\ wantReports' = FALSE /\ UNCHANGED reported
        /\ curBusy' = FALSE /\ stale' = stale + (IF curBusy THEN 1 ELSE 0)
  /\ UNCHANGED <<queue, workerRunning, setupTimer, setups, finished,
                 awaitingCheck, destroyed>>

\* stopPositionReportingAndCheckAudioUnderflowTimer: cancel() only when a
\* timer exists and is active; otherwise a no-op.  A callback already
\* running may finish before or after cancel() returns.
StopPositionTimer ==
  /\ ~destroyed /\ calls < MaxCalls
  /\ calls' = calls + 1
  /\ positionTimer' = IF positionTimer = "ACTIVE" THEN "INACTIVE" ELSE positionTimer
  /\ wantReports' = FALSE
  /\ UNCHANGED <<queue, workerRunning, setupTimer, setups, finished, curBusy,
                 stale, awaitingCheck, reported, destroyed>>

\* The periodic timer fires: its callback enqueues ReportPosition.  The
\* timer thread runs one callback of a timer at a time.
FirePosition ==
  /\ positionTimer = "ACTIVE" /\ ~curBusy
  /\ Len(queue) < MaxQueue
  /\ queue' = WT!Enqueue(queue, "ReportPosition")
  /\ curBusy' = TRUE
  /\ UNCHANGED <<workerRunning, positionTimer, setupTimer, calls, setups,
                 finished, stale, awaitingCheck, wantReports, reported, destroyed>>

\* Variant: the callback gives up on its second task when its timer was
\* cancelled in between.
FinishCallbackIfActive ==
  /\ curBusy
  /\ Len(queue) < MaxQueue
  /\ \/ /\ positionTimer = "ACTIVE"
        /\ queue' = WT!Enqueue(queue, "CheckAudioUnderflow")
     \/ /\ positionTimer # "ACTIVE"
        /\ UNCHANGED queue
  /\ curBusy' = FALSE
  /\ UNCHANGED <<workerRunning, positionTimer, setupTimer, calls, setups,
                 finished, stale, awaitingCheck, wantReports, reported, destroyed>>

\* The same callback then enqueues CheckAudioUnderflow, whatever happened
\* to the timer meanwhile; other producers may have enqueued in between.
FinishCallback ==
  /\ curBusy
  /\ Len(queue) < MaxQueue
  /\ queue' = WT!Enqueue(queue, "CheckAudioUnderflow")
  /\ curBusy' = FALSE
  /\ UNCHANGED <<workerRunning, positionTimer, setupTimer, calls, setups,
                 finished, stale, awaitingCheck, wantReports, reported, destroyed>>

\* A callback of a replaced timer enqueues its CheckAudioUnderflow.
FinishStaleCallback ==
  /\ stale > 0
  /\ Len(queue) < MaxQueue
  /\ queue' = WT!Enqueue(queue, "CheckAudioUnderflow")
  /\ stale' = stale - 1
  /\ UNCHANGED <<workerRunning, positionTimer, setupTimer, calls, setups,
                 finished, curBusy, awaitingCheck, wantReports, reported, destroyed>>

\* scheduleSourceSetupFinish: createTimer(200 ms, ONE_SHOT) replaces the
\* setup timer (an older one still pending is destroyed, so cancelled).
ScheduleSourceSetupFinish ==
  /\ ~destroyed /\ setups < MaxSetups
  /\ setups' = setups + 1
  /\ setupTimer' = "ACTIVE"
  /\ UNCHANGED <<queue, workerRunning, positionTimer, calls, finished, curBusy,
                 stale, awaitingCheck, wantReports, reported, destroyed>>

\* Variant: the setup timer created PERIODIC, so it stays active.
SetupTimerAfterFirePeriodic == "ACTIVE"

\* A one-shot timer becomes inactive once it has fired.
SetupTimerAfterFire == "INACTIVE"

\* The setup-finish timer fires once and submits FinishSetupSource.
FireSetup ==
  /\ setupTimer = "ACTIVE"
  /\ Len(queue) < MaxQueue
  /\ queue' = WT!Enqueue(queue, "FinishSetupSource")
  /\ setupTimer' = SetupTimerAfterFire
  /\ UNCHANGED <<workerRunning, positionTimer, calls, setups, finished, curBusy,
                 stale, awaitingCheck, wantReports, reported, destroyed>>

\* The worker runs the oldest task.
RunTask ==
  /\ WT!CanRun
  /\ queue' = WT!Rest
  /\ reported' = (reported \/ WT!Current = "ReportPosition")
  /\ awaitingCheck' = CASE WT!Current = "ReportPosition"      -> TRUE
                        [] WT!Current = "CheckAudioUnderflow" -> FALSE
                        [] OTHER                              -> awaitingCheck
  /\ finished' = IF WT!Current = "FinishSetupSource" THEN finished + 1 ELSE finished
  /\ UNCHANGED <<workerRunning, positionTimer, setupTimer, calls, setups,
                 curBusy, stale, wantReports, destroyed>>

\* ~GstGenericPlayer: both timers are destroyed (cancelled), the worker is
\* stopped and its queued tasks are dropped.  A callback still running
\* would enqueue into a destroyed worker, so the model takes the destructor
\* to return only after the running callbacks have.
Destroy ==
  /\ ~destroyed /\ ~curBusy /\ stale = 0
  /\ destroyed' = TRUE
  /\ positionTimer' = "NONE" /\ setupTimer' = "NONE"
  /\ workerRunning' = FALSE /\ queue' = <<>>
  /\ UNCHANGED <<calls, setups, finished, curBusy, stale, awaitingCheck,
                 wantReports, reported>>

Destroyed == destroyed /\ UNCHANGED vars

Next ==
  \/ StartPositionTimer \/ StopPositionTimer
  \/ FirePosition \/ FinishCallback \/ FinishStaleCallback
  \/ ScheduleSourceSetupFinish \/ FireSetup
  \/ RunTask \/ Destroy \/ Destroyed

\* The timer threads fire an active timer (time passes), and the worker
\* runs whatever is queued: both are justified by the threads the player
\* starts.  Control calls and destruction are not assumed to happen.
\* A callback that has started runs to its end.
Fairness ==
  /\ WF_vars(FirePosition) /\ WF_vars(FireSetup) /\ WF_vars(RunTask)
  /\ WF_vars(FinishCallback) /\ WF_vars(FinishStaleCallback)

Spec == Init /\ [][Next]_vars /\ Fairness

-----------------------------------------------------------------------------
\* Every variable keeps its type.
TypeOK ==
  /\ WT!TypeOK
  /\ positionTimer \in TimerStates /\ setupTimer \in TimerStates
  /\ calls \in 0..MaxCalls /\ setups \in 0..MaxSetups
  /\ finished \in 0..MaxSetups
  /\ curBusy \in BOOLEAN /\ stale \in 0..MaxCalls /\ awaitingCheck \in BOOLEAN
  /\ wantReports \in BOOLEAN /\ reported \in BOOLEAN /\ destroyed \in BOOLEAN

\* After a start that got a timer, and until a stop or teardown, a position
\* report is eventually run: the start is not swallowed by a stale,
\* cancelled timer object, and the callback submits ReportPosition.
ReportingResumes ==
  (wantReports /\ ~reported /\ ~destroyed) ~>
    (reported \/ ~wantReports \/ destroyed)

\* Every position report the worker runs is eventually followed by an
\* audio-underflow check, unless the player is destroyed: the timer
\* callback enqueues CheckAudioUnderflow even when stop() or a restart
\* cancelled or replaced its timer between its two enqueueTask calls.
CheckFollowsReport == awaitingCheck ~> (~awaitingCheck \/ destroyed)

=============================================================================
