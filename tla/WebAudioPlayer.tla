---------------------------- MODULE WebAudioPlayer ----------------------------
(***************************************************************************)
(* The web-audio player's control path: play/pause/stop requests from the *)
(* control-plane thread become tasks (tasks::webaudio::Play, Pause, Stop)  *)
(* that hold only a reference to the player (IGstWebAudioPlayerPrivate)    *)
(* and run on the player's own worker thread, where each one calls        *)
(* changePipelineState.  The pipeline handle is fixed when the player is  *)
(* built and may be null if it could not be created.                      *)
(***************************************************************************)
EXTENDS Naturals, Sequences

CONSTANTS MaxRequests,   \* control requests in a behaviour (model bound)
          MaxQueue       \* tasks waiting on the worker (model bound)

ASSUME MaxRequests \in Nat \ {0} /\ MaxQueue \in Nat \ {0}

GstStates == {"NULL", "PAUSED", "PLAYING"}

\* tasks::webaudio::Stop(player) and its siblings: the target state the
\* task's execute passes to changePipelineState.
StopTask == [kind |-> "Stop", target |-> "NULL"]
Tasks == {StopTask} \cup [kind : {"Play", "Pause"}, target : {"PLAYING", "PAUSED"}]

VARIABLES
  queue, workerRunning,  \* the worker thread
  pipeline,              \* "VALID", or "NULLPTR" when none was created
  pipelineState,         \* state last set successfully on the pipeline
  requests,              \* control requests made so far
  failureNotes           \* FAILURE playback-state notifications sent

vars == <<queue, workerRunning, pipeline, pipelineState, requests, failureNotes>>

WT == INSTANCE WorkerThread WITH running <- workerRunning

Init ==
  /\ queue = <<>> /\ workerRunning = TRUE
  /\ pipeline \in {"VALID", "NULLPTR"}
  /\ pipelineState = "NULL"
  /\ requests = 0 /\ failureNotes = 0

\* Variant: the null-pipeline check notifies FAILURE but does not return,
\* so the state change is still attempted on the null pipeline and fails.
ChangePipelineStateNoReturn(target) ==
  \/ /\ pipeline = "NULLPTR"
     /\ failureNotes' = failureNotes + 2
     /\ UNCHANGED pipelineState
  \/ /\ pipeline = "VALID"
     /\ \/ /\ failureNotes' = failureNotes + 1
           /\ UNCHANGED pipelineState
        \/ /\ pipelineState' = target
           /\ UNCHANGED failureNotes

\* changePipelineState(target): a null pipeline fails at once with one
\* FAILURE notification; otherwise gst_element_set_state either fails (one
\* FAILURE notification) or succeeds (no notification).
ChangePipelineState(target) ==
  \/ /\ pipeline = "NULLPTR"
     /\ failureNotes' = failureNotes + 1
     /\ UNCHANGED pipelineState
  \/ /\ pipeline = "VALID"
     /\ \/ /\ failureNotes' = failureNotes + 1
           /\ UNCHANGED pipelineState
        \/ /\ pipelineState' = target
           /\ UNCHANGED failureNotes

\* The worker runs the oldest task: Stop::execute and its siblings call
\* changePipelineState with their target.
RunTask ==
  /\ WT!CanRun
  /\ queue' = WT!Rest
  /\ ChangePipelineState(WT!Current.target)
  /\ UNCHANGED <<workerRunning, pipeline, requests>>

\* play() / pause() / stop() on the control-plane thread.
Request(t) ==
  /\ requests < MaxRequests
  /\ Len(queue) < MaxQueue
  /\ queue' = WT!Enqueue(queue, t)
  /\ requests' = requests + 1
  /\ UNCHANGED <<workerRunning, pipeline, pipelineState, failureNotes>>

\* The player is torn down: the worker stops, queued tasks never run.
Shutdown ==
  /\ workerRunning
  /\ WT!Stop
  /\ UNCHANGED <<pipeline, pipelineState, requests, failureNotes>>

\* Everything requested has been handled or discarded.
Done ==
  /\ ~WT!CanRun /\ (requests = MaxRequests \/ ~workerRunning)
  /\ UNCHANGED vars

Next ==
  \/ RunTask
  \/ \E t \in Tasks : Request(t)
  \/ Shutdown
  \/ Done

Spec == Init /\ [][Next]_vars

-----------------------------------------------------------------------------
\* Every variable keeps its type; no task sends more than one notification.
TypeOK ==
  /\ WT!TypeOK
  /\ pipeline \in {"VALID", "NULLPTR"} /\ pipelineState \in GstStates
  /\ requests \in 0..MaxRequests
  /\ failureNotes \in 0..MaxRequests

=============================================================================
