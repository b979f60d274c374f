--------------------------- MODULE GstGenericPlayer ---------------------------
(***************************************************************************)
(* The generic (MSE) player of the session server: the shared             *)
(* GenericPlayerContext, the tasks that mutate it on the worker thread,   *)
(* and the buffer-attachment / underflow state machine.                   *)
(*                                                                         *)
(* Three kinds of producer submit tasks: the GStreamer callback thread    *)
(* (need-data, enough-data, underflow of a registered appsrc), the client *)
(* (haveData: samples answering a need-media-data request) and the        *)
(* control plane (attachSource, play/pause/stop, destruction).  The       *)
(* worker runs one task per step.                                          *)
(***************************************************************************)
EXTENDS Naturals, Sequences, SequencesExt, FiniteSets

CONSTANTS Sources,      \* MediaSourceType values with a stream: AUDIO, VIDEO
          MaxSamples,   \* samples the client sends per source (model bound)
          MaxPerHaveData, \* samples carried by one haveData (model bound)
          MaxQueue      \* tasks producers may have waiting (model bound)

ASSUME /\ Sources # {}
       /\ MaxSamples \in Nat \ {0}
       /\ MaxPerHaveData \in 1..MaxSamples
       /\ MaxQueue \in Nat \ {0}

GstStates == {"NULL", "PAUSED", "PLAYING"}

Samples == 1..MaxSamples

\* The task catalog (IPlayerTask implementations created by the factory).
Task(kind, s) == [kind |-> kind, source |-> s]
SetStateTask(target) == [kind |-> "SetState", target |-> target]
ResumeTask == [kind |-> "Resume", target |-> "PLAYING"]
AttachSamplesTask(s, smp) == [kind |-> "AttachSamples", source |-> s, samples |-> smp]
\* SetupElement(context, gstWrapper, glibWrapper, player, element): the
\* element (the decoder or sink of a source) is captured at creation.
SetupElementTask(s) == [kind |-> "SetupElement", source |-> s]

Tasks ==
       [kind : {"NeedData", "EnoughData", "Underflow", "AttachSource",
                "SetupElement"}, source : Sources]
  \cup [kind : {"SetState", "Resume"}, target : GstStates]
  \cup [kind : {"AttachSamples"}, source : Sources, samples : Seq(Samples)]

VARIABLES
  queue,            \* worker thread queue
  workerRunning,    \* worker thread not yet stopped
  attachRequested,  \* sources the control plane has asked to attach
  streamInfo,       \* context.streamInfo: sources with a registered appsrc
  needData,         \* context.audioNeedData / context.videoNeedData
  buffers,          \* context.audioBuffers / context.videoBuffers
  dataPushed,       \* some buffer of the source has been pushed
  underflow,        \* context.audioUnderflowOccured / videoUnderflowOccured
  bufferedNotificationSent, \* context.bufferedNotificationSent
  requested,        \* client told the source needs data, not yet answered
  sent,             \* samples the client has sent, per source
  pushed,           \* samples pushed into the appsrc, in push order
  released,         \* samples unreferenced without having been pushed
  pipelineState,    \* state last set on context.pipeline
  playbackState,    \* last playback state notified to the client
  networkState,     \* last network state notified to the client
  bufferedCount,    \* history: BUFFERED notifications since last STALLED
  elementAdded,     \* sources whose decoder/sink joined the pipeline
  underflowConnected, \* sources whose underflow signal reaches the player
  destroyed         \* the player has been destroyed

vars == <<queue, workerRunning, attachRequested, streamInfo, needData, buffers,
          dataPushed, underflow, bufferedNotificationSent, requested, sent,
          pushed, released, pipelineState, playbackState, networkState,
          bufferedCount, elementAdded, underflowConnected, destroyed>>

WT == INSTANCE WorkerThread WITH running <- workerRunning

-----------------------------------------------------------------------------
(* Context initialisation: nothing attached, nothing needed, no flags.    *)
Init ==
  /\ queue = <<>>
  /\ workerRunning = TRUE
  /\ attachRequested = {}
  /\ streamInfo = {}
  /\ needData = [s \in Sources |-> FALSE]
  /\ buffers = [s \in Sources |-> <<>>]
  /\ dataPushed = [s \in Sources |-> FALSE]
  /\ underflow = [s \in Sources |-> FALSE]
  /\ bufferedNotificationSent = FALSE
  /\ requested = [s \in Sources |-> FALSE]
  /\ sent = [s \in Sources |-> 0]
  /\ pushed = [s \in Sources |-> <<>>]
  /\ released = [s \in Sources |-> {}]
  /\ pipelineState = "NULL"
  /\ playbackState = "NONE"
  /\ networkState = "NONE"
  /\ bufferedCount = 0
  /\ elementAdded = {}
  /\ underflowConnected = {}
  /\ destroyed = FALSE

-----------------------------------------------------------------------------
(* Helpers of the attachment state machine.                                *)

\* Variant: the list pushed back to front.
PushAllReversed(s, bufs) == pushed' = [pushed EXCEPT ![s] = @ \o Reverse(bufs)]

\* gstAppSrcPushBuffer for every buffer in the list, in list order.
PushAll(s, bufs) == pushed' = [pushed EXCEPT ![s] = @ \o bufs]

\* cancelUnderflow: clearing the flag of s resumes playback only when no
\* source is left underflowing.
Resume(s, uf) == underflow[s] /\ \A r \in Sources : ~uf[r]

\* The first BUFFERED, once audio and video have both had data pushed.
InitialBuffered(dp) == ~bufferedNotificationSent /\ \A r \in Sources : dp[r]

\* n BUFFERED network-state notifications in this step.
NotifyBuffered(n) ==
  /\ networkState' = IF n > 0 THEN "BUFFERED" ELSE networkState
  /\ bufferedCount' = IF bufferedCount + n > 2 THEN 2 ELSE bufferedCount + n

\* attach<Source>Data when its three conditions hold: the buffers are pushed,
\* the list cleared, the underflow cancelled, BUFFERED notified.
AttachPushes(s, bufs, q) ==
  LET uf == [underflow EXCEPT ![s] = FALSE]
      dp == [dataPushed EXCEPT ![s] = TRUE]
      resume == Resume(s, uf)
      initial == InitialBuffered(dp)
  IN /\ PushAll(s, bufs)
     /\ buffers' = [buffers EXCEPT ![s] = <<>>]
     /\ underflow' = uf
     /\ dataPushed' = dp
     /\ queue' = IF resume THEN WT!Enqueue(q, ResumeTask) ELSE q
     /\ bufferedNotificationSent' = (bufferedNotificationSent \/ initial)
     /\ NotifyBuffered((IF resume THEN 1 ELSE 0) + (IF initial THEN 1 ELSE 0))

\* attach<Source>Data returning early: the buffers stay in the context.
AttachKeeps(s, bufs, q) ==
  /\ buffers' = [buffers EXCEPT ![s] = bufs]
  /\ queue' = q
  /\ UNCHANGED <<pushed, underflow, dataPushed, bufferedNotificationSent,
                 networkState, bufferedCount>>

\* attachAudioData / attachVideoData, with the buffer list bufs and the
\* need-data flag nd as the running task has left them.
AttachData(s, bufs, nd, q) ==
  \/ /\ bufs # <<>> /\ nd /\ s \in streamInfo
     /\ AttachPushes(s, bufs, q)
  \/ /\ ~(bufs # <<>> /\ nd /\ s \in streamInfo)
     /\ AttachKeeps(s, bufs, q)

\* Variant: the failure reported as the requested state.
ChangePipelineStateNotifyTarget(target) ==
  \/ /\ pipelineState' = target
     /\ UNCHANGED playbackState
  \/ /\ playbackState' = target
     /\ UNCHANGED pipelineState

\* changePipelineState(target): a failing gst_element_set_state notifies
\* FAILURE; success notifies nothing.  The pipeline is non-null while the
\* player exists.
ChangePipelineState(target) ==
  \/ /\ pipelineState' = target
     /\ UNCHANGED playbackState
  \/ /\ playbackState' = "FAILURE"
     /\ UNCHANGED pipelineState

-----------------------------------------------------------------------------
(* Tasks, run by the worker.  q is the queue without the running task.     *)

\* Variant: NeedData only sets the flag and notifies; queued buffers wait
\* for the next AttachSamples.
NeedDataNoAttach(s, q) ==
  /\ needData' = [needData EXCEPT ![s] = TRUE]
  /\ AttachKeeps(s, buffers[s], q)
  /\ requested' = [requested EXCEPT ![s] = TRUE]
  /\ UNCHANGED <<streamInfo, pipelineState, playbackState, underflowConnected>>

\* NeedData: mark the source as needing data, attach what is queued, and
\* notifyNeedMediaData, which tells the client since the flag is now set.
NeedData(s, q) ==
  /\ needData' = [needData EXCEPT ![s] = TRUE]
  /\ AttachData(s, buffers[s], TRUE, q)
  /\ requested' = [requested EXCEPT ![s] = TRUE]
  /\ UNCHANGED <<streamInfo, pipelineState, playbackState, underflowConnected>>

\* EnoughData: the appsrc wants no more data; no buffer moves.
EnoughData(s, q) ==
  /\ needData' = [needData EXCEPT ![s] = FALSE]
  /\ queue' = q
  /\ UNCHANGED <<streamInfo, buffers, dataPushed, underflow, requested,
                 bufferedNotificationSent, pushed, pipelineState,
                 playbackState, networkState, bufferedCount, underflowConnected>>

\* Underflow: the source is starved; STALLED is notified when it starts.
Underflow(s, q) ==
  /\ queue' = q
  /\ \/ /\ ~underflow[s]
        /\ underflow' = [underflow EXCEPT ![s] = TRUE]
        /\ networkState' = "STALLED"
        /\ bufferedCount' = 0
     \/ /\ underflow[s]
        /\ UNCHANGED <<underflow, networkState, bufferedCount>>
  /\ UNCHANGED <<streamInfo, needData, buffers, dataPushed, requested,
                 bufferedNotificationSent, pushed, pipelineState, playbackState, underflowConnected>>

\* AttachSamples: the samples become buffers at the back of the source's
\* list, then an attachment is attempted.
AttachSamples(s, smp, q) ==
  /\ AttachData(s, buffers[s] \o smp, needData[s], q)
  /\ UNCHANGED <<streamInfo, needData, requested, pipelineState, playbackState, underflowConnected>>

\* AttachSource: the appsrc of the source is registered in streamInfo.
AttachSource(s, q) ==
  /\ streamInfo' = streamInfo \cup {s}
  /\ queue' = q
  /\ UNCHANGED <<needData, buffers, dataPushed, underflow, requested,
                 bufferedNotificationSent, pushed, pipelineState,
                 playbackState, networkState, bufferedCount, underflowConnected>>

\* SetupElement: the element's underflow signal is connected to the
\* player, so the sink's starvation of the source now reaches the player.
SetupElement(s, q) ==
  /\ underflowConnected' = underflowConnected \cup {s}
  /\ queue' = q
  /\ UNCHANGED <<streamInfo, needData, buffers, dataPushed, underflow, requested,
                 bufferedNotificationSent, pushed, pipelineState,
                 playbackState, networkState, bufferedCount>>

\* Play / Pause / Stop, and the Play submitted by cancelUnderflow.
SetState(target, q) ==
  /\ ChangePipelineState(target)
  /\ queue' = q
  /\ UNCHANGED <<streamInfo, needData, buffers, dataPushed, underflow,
                 requested, bufferedNotificationSent, pushed, networkState,
                 bufferedCount, underflowConnected>>

\* The worker takes the oldest task and runs it to completion.
RunTask ==
  /\ WT!CanRun
  /\ LET t == WT!Current
         q == WT!Rest
     IN CASE t.kind = "NeedData"      -> NeedData(t.source, q)
          [] t.kind = "EnoughData"    -> EnoughData(t.source, q)
          [] t.kind = "Underflow"     -> Underflow(t.source, q)
          [] t.kind = "AttachSamples" -> AttachSamples(t.source, t.samples, q)
          [] t.kind = "AttachSource"  -> AttachSource(t.source, q)
          [] t.kind = "SetupElement"  -> SetupElement(t.source, q)
          [] t.kind \in {"SetState", "Resume"} -> SetState(t.target, q)
  /\ UNCHANGED <<workerRunning, attachRequested, sent, released, destroyed, elementAdded>>

-----------------------------------------------------------------------------
(* Producers.  Each one only enqueues a task (scheduleXxx).                *)

Submit(t) ==
  /\ ~destroyed
  /\ Len(queue) < MaxQueue
  /\ queue' = WT!Enqueue(queue, t)

\* scheduleNeedMediaData / scheduleEnoughData from the appsrc callbacks;
\* schedule<Source>Underflow from the sink, which starves only when playing.
GstSignal(s) ==
  /\ s \in streamInfo
  /\ \/ Submit(Task("NeedData", s))
     \/ Submit(Task("EnoughData", s))
     \/ /\ pipelineState = "PLAYING" /\ s \in underflowConnected
        /\ Submit(Task("Underflow", s))
  /\ UNCHANGED <<workerRunning, attachRequested, streamInfo, needData,
                 buffers, dataPushed, underflow, bufferedNotificationSent,
                 requested, sent, pushed, released, pipelineState,
                 playbackState, networkState, bufferedCount, destroyed, elementAdded, underflowConnected>>

\* setupElement: the pipeline thread reports the source's decoder/sink as
\* added and submits its SetupElement task.
ElementAdded(s) ==
  /\ s \in streamInfo
  /\ s \notin elementAdded
  /\ Submit(SetupElementTask(s))
  /\ elementAdded' = elementAdded \cup {s}
  /\ UNCHANGED <<workerRunning, attachRequested, streamInfo, needData,
                 buffers, dataPushed, underflow, bufferedNotificationSent,
                 requested, sent, pushed, released, pipelineState,
                 playbackState, networkState, bufferedCount,
                 underflowConnected, destroyed>>

\* haveData: the client answers a need-data request with n new samples.
HaveData(s, n) ==
  /\ requested[s]
  /\ sent[s] + n <= MaxSamples
  /\ Submit(AttachSamplesTask(s, [i \in 1..n |-> sent[s] + i]))
  /\ sent' = [sent EXCEPT ![s] = @ + n]
  /\ requested' = [requested EXCEPT ![s] = FALSE]
  /\ UNCHANGED <<workerRunning, attachRequested, streamInfo, needData,
                 buffers, dataPushed, underflow, bufferedNotificationSent,
                 pushed, released, pipelineState, playbackState,
                 networkState, bufferedCount, destroyed, elementAdded, underflowConnected>>

\* attachSource, once per source.
RequestAttachSource(s) ==
  /\ s \notin attachRequested
  /\ Submit(Task("AttachSource", s))
  /\ attachRequested' = attachRequested \cup {s}
  /\ UNCHANGED <<workerRunning, streamInfo, needData, buffers, dataPushed,
                 underflow, bufferedNotificationSent, requested, sent, pushed,
                 released, pipelineState, playbackState, networkState,
                 bufferedCount, destroyed, elementAdded, underflowConnected>>

\* play() / pause() / stop().
RequestState(target) ==
  /\ Submit(SetStateTask(target))
  /\ UNCHANGED <<workerRunning, attachRequested, streamInfo, needData,
                 buffers, dataPushed, underflow, bufferedNotificationSent,
                 requested, sent, pushed, released, pipelineState,
                 playbackState, networkState, bufferedCount, destroyed, elementAdded, underflowConnected>>

\* stopWorkerThread: the queued tasks are never run.
StopWorkerThread ==
  /\ ~destroyed
  /\ WT!Stop
  /\ UNCHANGED <<attachRequested, streamInfo, needData, buffers, dataPushed,
                 underflow, bufferedNotificationSent, requested, sent, pushed,
                 released, pipelineState, playbackState, networkState,
                 bufferedCount, destroyed, elementAdded, underflowConnected>>

\* Samples held by queued AttachSamples tasks of source s.
QueuedSamples(s) ==
  UNION {ToSet(queue[i].samples) :
           i \in {j \in DOMAIN queue : queue[j].kind = "AttachSamples"
                                       /\ queue[j].source = s}}

\* Variant: a destructor that does not unreference the context's buffers.
DestroyKeepingBuffers ==
  /\ ~destroyed
  /\ destroyed' = TRUE
  /\ workerRunning' = FALSE
  /\ released' = [s \in Sources |-> released[s] \cup QueuedSamples(s)]
  /\ buffers' = [s \in Sources |-> <<>>]
  /\ queue' = <<>>
  /\ UNCHANGED <<attachRequested, streamInfo, needData, dataPushed, underflow,
                 bufferedNotificationSent, requested, sent, pushed,
                 pipelineState, playbackState, networkState, bufferedCount, elementAdded, underflowConnected>>

\* ~GstGenericPlayer: the worker is stopped, the queued tasks are destroyed
\* with the samples they hold, and the buffers left in the context are
\* unreferenced.
Destroy ==
  /\ ~destroyed
  /\ destroyed' = TRUE
  /\ workerRunning' = FALSE
  /\ released' = [s \in Sources |->
                    released[s] \cup ToSet(buffers[s]) \cup QueuedSamples(s)]
  /\ buffers' = [s \in Sources |-> <<>>]
  /\ queue' = <<>>
  /\ UNCHANGED <<attachRequested, streamInfo, needData, dataPushed, underflow,
                 bufferedNotificationSent, requested, sent, pushed,
                 pipelineState, playbackState, networkState, bufferedCount, elementAdded, underflowConnected>>

\* After destruction nothing happens any more.
Destroyed == destroyed /\ UNCHANGED vars

Next ==
  \/ RunTask
  \/ \E s \in Sources : GstSignal(s)
  \/ \E s \in Sources : ElementAdded(s)
  \/ \E s \in Sources, n \in 1..MaxPerHaveData : HaveData(s, n)
  \/ \E s \in Sources : RequestAttachSource(s)
  \/ \E target \in GstStates : RequestState(target)
  \/ StopWorkerThread
  \/ Destroy
  \/ Destroyed

Spec == Init /\ [][Next]_vars

\* The need-data signal of a source whose sink has starved: the appsrc it
\* feeds has drained, so it keeps asking for data.
StarvedNeedData(s) ==
  /\ underflow[s]
  /\ GstSignal(s)
  /\ queue' = WT!Enqueue(queue, Task("NeedData", s))

\* The client answers a need-media-data request with some samples.
ClientAnswers(s) == \E n \in 1..MaxPerHaveData : HaveData(s, n)

\* The worker runs whatever is queued while it has not been stopped; a
\* drained appsrc keeps signalling need-data; a client that was told a
\* source needs data answers.  The last two are only intermittently
\* enabled (the bounded queue may be full), hence strong fairness.
\* Control calls, stopWorkerThread and destruction are not assumed.
Fairness ==
  /\ WF_vars(RunTask)
  /\ \A s \in Sources : SF_vars(StarvedNeedData(s)) /\ SF_vars(ClientAnswers(s))

FairSpec == Spec /\ Fairness

-----------------------------------------------------------------------------
(* Properties.                                                             *)

\* Every variable keeps the type of the context field it models; the only
\* playback state changePipelineState itself notifies is FAILURE.
TypeOK ==
  /\ WT!TypeOK
  /\ attachRequested \subseteq Sources /\ streamInfo \subseteq Sources
  /\ needData \in [Sources -> BOOLEAN] /\ dataPushed \in [Sources -> BOOLEAN]
  /\ underflow \in [Sources -> BOOLEAN] /\ requested \in [Sources -> BOOLEAN]
  /\ buffers \in [Sources -> Seq(Samples)] /\ pushed \in [Sources -> Seq(Samples)]
  /\ released \in [Sources -> SUBSET Samples]
  /\ sent \in [Sources -> 0..MaxSamples]
  /\ bufferedNotificationSent \in BOOLEAN
  /\ pipelineState \in GstStates /\ playbackState \in {"NONE", "FAILURE"}
  /\ networkState \in {"NONE", "STALLED", "BUFFERED"}
  /\ bufferedCount \in 0..2 /\ destroyed \in BOOLEAN
  /\ elementAdded \subseteq Sources /\ underflowConnected \subseteq Sources

\* attach<Source>Data pushes buffers in the order the client sent them,
\* whichever task (NeedData or AttachSamples) does the pushing: what an
\* appsrc has received is exactly the first samples sent, each once.
PushedInSendOrder ==
  \A s \in Sources : pushed[s] = [i \in 1..Len(pushed[s]) |-> i]

\* Number of places sample k of source s is held.
Holders(s, k) ==
    Len(SelectSeq(pushed[s], LAMBDA x : x = k))
  + Len(SelectSeq(buffers[s], LAMBDA x : x = k))
  + (IF k \in released[s] THEN 1 ELSE 0)
  + Cardinality({i \in DOMAIN queue :
                   /\ queue[i].kind = "AttachSamples" /\ queue[i].source = s
                   /\ k \in ToSet(queue[i].samples)})

\* Every sample the client sent is in exactly one place: a queued task,
\* the context's buffer list, the appsrc, or released at destruction; none
\* is leaked by a task the stopped worker never ran or by ~GstGenericPlayer.
SamplesConserved ==
  \A s \in Sources : \A k \in 1..sent[s] : Holders(s, k) = 1

\* Spec 3 / 7: starvation is recovered by the attachment state machine.
\* Once a source underflows, and the client still has samples to send, the
\* underflow is eventually cleared (its buffers pushed, playback resumed
\* when it was the last) unless the worker is stopped or the player is
\* destroyed, even when EnoughData ran after the underflow and the
\* client's samples are parked in the context.
UnderflowRecovers ==
  \A s \in Sources :
    (underflow[s] /\ sent[s] < MaxSamples) ~>
      (~underflow[s] \/ ~workerRunning \/ destroyed)

\* Spec 4.3 / 8: BUFFERED is notified at most once per underflow episode.
BufferedOncePerEpisode == bufferedCount <= 1
=============================================================================
