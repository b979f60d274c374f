# TLA+ models of the Rialto generic player

This directory holds TLA+ models of the parts of Rialto whose behaviour depends
on ordering, concurrency and resource ownership. Each model is checked with TLC.

In this repository, `src/` contains the unit tests, the mocks and a few headers
of Rialto. Most of the implementation (`GstGenericPlayer.cpp`, the worker
thread, the timers) is not there. So each model is translated from two sources:

- the behaviour the unit tests pin down, mapped to the test lines in
  `PROJECT.json`;
- `spec.md`, where the tests say nothing. Such definitions are marked
  `spec_modelled` in the map.

## The system

Rialto's session server plays media for client applications. These are the
parts, and how they interact:

| Part | Role | Where in src/ |
|---|---|---|
| Generic player (`GstGenericPlayer`) | Owns a `GenericPlayerContext`: appsrcs (`streamInfo`), per-source buffer lists, need-data flags, underflow flags, `bufferedNotificationSent`, and the pipeline. | `tests/media/server/gstplayer/genericPlayer/GstGenericPlayerPrivateTest.cpp` |
| Worker thread | A single consumer. It runs player tasks (NeedData, EnoughData, Underflow, AttachSamples, AttachSource, Play/Pause/Stop, UpdateFormat, ...) one at a time, in FIFO order. | used by the player. Tests at lines 80–95 and 805–809 |
| Producers | The GStreamer callback thread (need-data, enough-data, underflow), the client (haveData), the control plane (attachSource, play, pause, stop, destruction), and two timers. Each one only enqueues tasks. | test lines 98–152, 742–803 |
| Timers | A periodic 250 ms position/underflow-check timer and a one-shot 200 ms setup-finish timer. | `tests/common/mocks/TimerFactoryMock.h`, test lines 98–114, 742–803 |
| Caps update | `updateAudioCaps` / `updateVideoCaps` rewrite the caps of an appsrc. | test lines 608–713 |
| Buffer construction | `createBuffer`, with protection metadata for encrypted samples. | test lines 258–398 |
| Server manager | Launches the session-server apps, tracks their state and relays indications to an observer. | `tests/serverManager/...` |
| IPC module services | The server-manager module service and the session-management server (client connect/disconnect fan-out). | `tests/media/server/ipc/...` |

Hard behaviours of the player:

- Callbacks, client answers and control calls interleave in the one task queue.
- Need-data and enough-data toggle independently of when the client's samples arrive.
- Audio and video underflow independently of each other, and must both recover before playback resumes.
- `stopWorkerThread` leaves queued tasks unrun.
- The destructor must release buffers that were never pushed.
- Caps objects are reference counted on every path, including the path where no caps are set.

## Modules

| Module | Models | Notes |
|---|---|---|
| `WorkerThread.tla` | The worker thread: `queue`, `running`. `Enqueue` is `enqueueTask`, `CanRun`/`Current`/`Rest` take the next task, `Stop` is `stop()`. | spec_modelled (spec 4.1) |
| `GstGenericPlayer.tla` | The player context and every task that mutates it, composed with `WorkerThread` by `WT == INSTANCE WorkerThread WITH running <- workerRunning`. | see below |
| `MCGstGenericPlayer.tla` | Model values `AUDIO`, `VIDEO`. | |
| `MCGstGenericPlayerLive.tla` | One model value `AUDIO`, for the liveness run under `FairSpec`. | |
| `PlayerTimers.tla` | The position/underflow-check timer and the setup-finish timer, with the worker they submit to (`WorkerThread` instance). | test lines 98–114, 742–803; spec 4.4 |
| `MCPlayerTimers.cfg` | Up to 3 start/stop calls, 2 setup schedules, queue of 3. | |
| `SessionServerAppManager.tla` | The server manager's app table, `SessionServerAppFactory::create`, the session-server processes and their sockets, the state observer, and the simulator's `GetState` command. | `SessionServerAppFactory.h`, `GetState.h`, `SessionServerAppManagerTests.cpp` |
| `MCSessionServerAppManager.tla` | One application (model value `APP1`), up to 3 instances. | |
| `WebAudioPlayer.tla` | The web-audio player's Play/Pause/`Stop` tasks on its own worker (`WorkerThread` instance), and `changePipelineState` with a pipeline that may be null. | `tasks/webAudio/Stop.h`; spec 4.6 |
| `ProtectionBuffer.tla` | `createBuffer`: the data buffer, and for an encrypted segment the key-id, IV and subsample-map sub-buffers, `addProtectionMetadata`, and the later free of the buffer with its meta. | test lines 258–398; spec 2 (buffer construction) |
| `MCProtectionBuffer.tla` | Three segments: a clear one, the tests' encrypted one (3 clear and 5 encrypted bytes), and a Netflix one with clear counts 65535 and 65536. At most 3 buffers. | |
| `ServerManagerModuleService.tla` | The session server's IPC service for the server manager: `setConfiguration`, `setState` and `setLogLevels` handled in arrival order on the IPC thread. | `tests/media/server/ipc/serverManagerModuleService/` |
| `SessionManagementServer.tla` | The session server's session-management socket: `initialize`, `start`'s `process()` loop, client connect and disconnect events queued by the IPC library and dispatched in order to the four module services, and `setLogLevels` to every connected client. | `tests/media/server/ipc/sessionManagementServer/` fixture |
| `ClientSessions.tla` | The abstract promise of that server: every connected client is served while it runs, every departed one retired, and none served again. | spec_modelled |
| `MCSessionManagementServer.tla` | Two clients (model values `C1`, `C2`). | |
| `CapsNegotiation.tla` | `updateAudioCaps`/`updateVideoCaps`: the caps objects, their reference counts and fields, and which caps each appsrc holds. | |
| `MCCapsNegotiation.tla` | Two sources, with fields `rate`/`channels` for AUDIO and `width`/`height` for VIDEO. The values offered are −1, 0 and 13. | |

### GstGenericPlayer: state and actions

The variables are the context fields:

| Variable | Context field |
|---|---|
| `streamInfo` | `streamInfo` |
| `needData` | `audioNeedData` / `videoNeedData` |
| `buffers` | `audioBuffers` / `videoBuffers` |
| `underflow` | `audioUnderflowOccured` / `videoUnderflowOccured` |
| `bufferedNotificationSent` | `bufferedNotificationSent` |
| `pipelineState` | the state last set on `pipeline` |

Ghost state, used only by the properties:

- `sent`: the samples the client has sent, numbered 1, 2, … in send order.
- `pushed`: the samples the appsrc has received.
- `released`: the samples unreferenced without being pushed.
- `bufferedCount`: the BUFFERED notifications since the last STALLED.

Each task is one `RunTask` step. The worker runs a task to completion before it
takes the next one, so a task is atomic with respect to other tasks.

- **`AttachData(s, bufs, nd, q)`** is `attach<Source>Data`.
  - When the list is non-empty, need-data is set and the source has an appsrc,
    it pushes the whole list in order (`PushAll`), clears the list and sets
    `dataPushed`. It then runs `cancelUnderflow`: when the source's flag is set,
    it clears it, and if no source is left underflowing (`Resume`) it enqueues a
    Play and notifies BUFFERED. It also sends the first BUFFERED once both
    sources have pushed data (`InitialBuffered`, test lines 556–577).
  - Otherwise the buffers stay in the context (`AttachKeeps`, test lines 400–424).
- **`NeedData`** sets need-data, runs `AttachData` and notifies the client
  (`notifyNeedMediaData`).
- **`EnoughData`** clears need-data.
- **`Underflow`** sets the source's flag. On a rising edge it notifies STALLED.
- **`AttachSamples`** appends the client's samples to the list and runs
  `AttachData`.
- **`AttachSource`** registers the appsrc.
- **`SetState`** is Play/Pause/Stop, through `ChangePipelineState`. A failing
  `set_state` notifies FAILURE.
- The producers only `Submit` tasks:
  - `GstSignal` stands for the appsrc callbacks, and for the sink's underflow,
    which happens only while PLAYING;
  - `HaveData` is the client answering an outstanding need-data request;
  - `RequestAttachSource` and `RequestState` are the control calls.
- **`SetupElement`** is the task `SetupElement.h` declares. The pipeline
  thread's element-added callback (`ElementAdded`) submits it for a source's
  decoder or sink. When it runs, that element's underflow signal is connected
  to the player, and from then on the sink's starvation (the `Underflow`
  disjunct of `GstSignal`) reaches the player.
  - The task captures the player, which is the callback's user data, and the
    element.
  - Its body is not in the repository, so this effect is inferred from those
    captured fields and from spec 2.
- **`StopWorkerThread`** stops the worker without draining the queue.
- **`Destroy`** is `~GstGenericPlayer`. The queued tasks are destroyed together
  with the samples they hold, and the buffers left in the context are
  unreferenced (the "In destructor" expectations at test lines 410, 423, 488
  and 501).

### PlayerTimers: state and actions

`positionTimer` and `setupTimer` are the two `unique_ptr<ITimer>`. Each is
`NONE`, or holds a timer that is `ACTIVE` or `INACTIVE` (`isActive()`).

- **`StartPositionTimer`** is a no-op while the timer is active
  (`TimerRunning`, test lines 750–758). Otherwise it creates a new PERIODIC
  timer, which replaces the old one. Creation may return null (spec 6).
- **`StopPositionTimer`** cancels only an active timer (lines 779–803).
- **`FirePosition`** starts the callback on the timer thread. It enqueues
  ReportPosition (lines 760–777) and leaves the callback running
  (`curBusy`).
- **`FinishCallback`** is the callback's second `enqueueTask`:
  CheckAudioUnderflow. Other producers, a stop or a restart may come
  between the two enqueues.
  - Whether `cancel()` or a timer's destruction waits for a running callback
    is decided in `common::Timer`, which is not in the repository. So the
    model lets the callback finish before or after a stop.
  - A restart that replaces the timer while its callback runs leaves a
    stale callback (`stale`). `FinishStaleCallback` finishes it.
  - `Destroy` waits for running callbacks. Otherwise they would enqueue into
    a destroyed worker.
- **`ScheduleSourceSetupFinish`** creates the ONE_SHOT 200 ms timer.
- **`FireSetup`** enqueues FinishSetupSource, and the one-shot timer becomes
  inactive (`SetupTimerAfterFire`, lines 98–114).
- **`Destroy`** destroys both timers and stops the worker.

Two history variables serve the liveness property:
- `wantReports`: the last start/stop call was a start that got a timer;
- `reported`: a ReportPosition has run since then.
- `awaitingCheck`: a ReportPosition has run, and no CheckAudioUnderflow has
  run since.

### SessionServerAppManager: state and actions

The manager state:
- `servers[a]` is the registered app of application `a`, or `NoServer`.
- Each app object made by `CreateApp` (the factory's `create`) is a new
  instance. It carries its initial state.

The environment:
- `proc[i]` is the state of instance `i`'s process.
- `channel[i]` holds the indications on its socket, in order.

The actions:
- **`SetStateNoServer`** is `setSessionServerState` with no app registered.
  - NOT_RUNNING is refused (`Launchable`, test lines 27–32).
  - Otherwise the launch may fail, leaving nothing registered (lines 34–39).
  - Or the connect may fail, and the process is killed (lines 41–46).
  - Or the app is registered, and its process reports UNINITIALIZED.
- **`SetStateRegistered`** sends setState. Sending may fail (lines 65–72).
  When it succeeds, a configured process switches state and reports it.
- **`Die`** is the process exiting (NOT_RUNNING) or failing (ERROR).
- **`OnStateChanged(i)`** handles the oldest indication on `i`'s socket, as
  one event on the manager's event thread:
  - an indication of an instance that is no longer registered is dropped
    (`FromCurrent`);
  - UNINITIALIZED is forwarded to the observer, and setConfiguration is sent
    (`Configure`). If it fails, the app is removed and ERROR is reported
    (lines 94–101);
  - NOT_RUNNING and ERROR remove and kill the app (lines 103–119);
  - INACTIVE and ACTIVE are recorded and forwarded (lines 83–92).
- **`GetState`** is the simulator command. It answers with the state the
  observer last received.
- **`GetConnectionInfo`** is `getAppConnectionInfo`: the registered app's
  socket (modelled by its instance), or empty (lines 22–25, 55–63).
- **`SetLogLevel`** sends setLogLevels to every registered app; any failed
  send makes the call return false (lines 121–137).
- **`Teardown`** is the manager's destruction: every registered app is killed
  (`sessionServerWillKillRunningApplicationAtTeardown`, lines 48–53). The
  observer is not told. `TornDown` is the stutter after it.

The fixture `.cpp` of these tests is not in the repository, so the model
follows what the tests observe. It also assumes that an indication names the
instance whose socket it came on (`getAppManagementSocketName`).

### SessionManagementServer: state and actions

- `initialized` is the result of `addSocket`. `loop` is `start()`'s
  `process()` loop: `Start`, and `ProcessFails` when `process()` returns false.
- `ClientConnects(c)` and `ClientDisconnects(c)` are the socket events. They
  append to `events`, which the IPC library keeps in socket order. A client
  connects only after a successful `initialize`.
- `Dispatch` is one `process()` iteration. It takes the oldest event and runs
  its callback. The callback updates the server's `clients` list and tells
  each of the four module services (`services`).
- `SetLogLevels` sends one SetLogLevelsEvent to each client in `clients`.

`AbstractStatus` maps this state to `ClientSessions`:
- a listed client is SERVING;
- a departed client with no queued event is DONE;
- every other client is NO.

`loop` maps to the abstract `phase`.

### WebAudioPlayer: state and actions

`StopTask` is `tasks::webaudio::Stop`. It holds only the player.
`RunTask` is its `execute`: it calls `changePipelineState(NULL)` on the worker
thread. Play and Pause are its siblings, with the targets PLAYING and PAUSED.

`ChangePipelineState` follows spec 4.6:
- a null pipeline (possible from construction) fails at once with one
  FAILURE;
- otherwise `gst_element_set_state` fails, with one FAILURE, or succeeds,
  silently.

`Shutdown` stops the worker, and queued tasks never run.

### ProtectionBuffer: state and actions

The state:
- `buf[b]` is the b-th buffer `createBuffer` returned: its segment, whether
  a protection meta is attached, whether its timestamps are set, and its
  subsample map as bytes.
- `subRefs` counts the references on each buffer's three sub-buffers.

The actions:
- **`CreateBuffer(seg)`** is one call.
  - A clear segment gives a plain buffer.
  - An encrypted one makes the three sub-buffers. A Netflix segment also
    calls `selectKeyId`.
  - The subsample map is written as a big-endian uint16 clear count and a
    uint32 encrypted count per subsample (`SubsampleMap`).
  - `addProtectionMetadata` then returns a meta, which owns the sub-buffers,
    or null, and all three are unreffed (test lines 348–351).
- **`Release(b)`** is GStreamer freeing a buffer handed back to it, with its
  meta.

Two limits:
- TLC's integers stop below 2^31, so only the uint16 field's narrowing is
  modelled. Every count TLC can hold fits the uint32 field.
- What `createBuffer` returns when the data allocation itself fails is not in
  the tests or the spec, so it is not modelled.

### ServerManagerModuleService: state and actions

The state:
- `socket` holds the calls received and not yet handled.
- `sent[c]` is the request of call `c`.
- `closureRuns` and `setFailed` are what the handler did to each call's
  closure and controller.

The actions:
- **`SendCall`** is the server manager's RPC.
- **`HandleCall`** is one handler.
  - `setConfiguration` applies the log levels, then calls
    `setConfiguration`.
  - `setState` calls `setState`.
  - `setLogLevels` cannot fail.
  - The session server manager accepts or rejects the request (the mock's
    `Return(true/false)`).
- **`Answer`** is the common exit: `SetFailed` on a rejection, then
  `Run()` on every path.

### CapsNegotiation: state and actions

`UpdateCaps(s, p)` is one update task. It performs these steps:

1. `get_caps` adds a reference to the current caps.
2. `copy` creates a new object with one reference.
3. `gst_caps_set_simple` runs only for each strictly positive parameter
   (`SetValidFields`, `Valid`).
4. `set_caps` runs only if some parameter was valid. The appsrc then takes a
   reference to the copy and drops its old caps.
5. Both caps are unreferenced (`UnrefBoth`), whether or not `set_caps` ran
   (test lines 668–683).

`UpdateCapsNoSource` is the no-op taken when the source has no appsrc.

## Runs

| Run | Config | Expect | What it shows |
|---|---|---|---|
| `player_safety` | `MCGstGenericPlayer.cfg` | pass | `PushedInSendOrder` and `SamplesConserved` (see below). |
| `player_buffered_once` | `MCGstGenericPlayerBuffered.cfg` | violation | `BufferedOncePerEpisode` (spec 4.3 and 8) is broken. |
| `caps_update` | `MCCapsNegotiation.cfg` | pass | `CapsRefsBalanced` (see below). |
| `protection_buffer` | `MCProtectionBuffer.cfg` | pass | `ProtectionRefsBalanced` (see below). |
| `module_service` | `MCServerManagerModuleService.cfg` | pass | Under fairness, `EveryCallAnswered` (see below). |
| `timers` | `MCPlayerTimers.cfg` | pass | Under fairness, `ReportingResumes` and `CheckFollowsReport` (see below). |
| `player_underflow_liveness` | `MCGstGenericPlayerLive.cfg` | pass | Under `FairSpec`, with one source: `UnderflowRecovers` (see below). |
| `app_manager` | `MCSessionServerAppManager.cfg` | pass | `ObserverConsistent`, `KilledOnlyOnFailure` and `NoOrphanAtTeardown` (see below). |
| `session_management` | `MCSessionManagementServer.cfg` | pass | `ServicesAgree` and the refinement `ImplementsClientSessions` (see below). |
| `webaudio_stop` | `MCWebAudioPlayer.cfg` | pass | `TypeOK`. It bounds the FAILURE notifications by the requests, so no task notifies twice. This holds for a valid or a null pipeline. |

`player_safety` checks these properties under every interleaving of callbacks,
client answers, control calls, worker stop and destruction:

- **`PushedInSendOrder`:** each appsrc receives exactly the client's samples in
  send order, whichever task pushes them.
- **`SamplesConserved`:** every sample sent is in exactly one place: a queued
  task, the context list, the appsrc, or released at destruction.

`player_underflow_liveness` checks one property, on `MCGstGenericPlayerLive`:
one audio source, 2 samples, one sample per haveData, and a queue of 2. It
has 27,480 states.

- **`UnderflowRecovers`** (spec 3, 7): once a source underflows while the
  client still has samples to send, the underflow is eventually cleared,
  unless the worker is stopped or the player destroyed. This includes the
  case where EnoughData ran after the underflow, the client's samples are
  parked in the context, and a later NeedData must attach them (spec 4.3).
  - The mutant `NeedDataNoAttach` leaves the parked samples waiting, and TLC
    finds an underflow that is never cleared.
  - Without strong fairness on the starved appsrc's need-data signal,
    the property fails: the appsrc never asks again.

`caps_update` checks this property over every sequence of audio and video
updates:

- **`CapsRefsBalanced`:** every caps object's reference count equals the number
  of appsrcs holding it, so nothing leaks and nothing is freed while held.

`protection_buffer` checks this property:

- **`ProtectionRefsBalanced`:** a sub-buffer is referenced exactly while its
  data buffer lives with a meta. So none leaks after a failed
  `addProtectionMetadata`, and none is freed twice.

`module_service` checks this property:

- **`EveryCallAnswered`:** every call's closure eventually runs, so the
  waiting server manager is never left hanging. `TypeOK` bounds the runs at
  one.

`timers` checks these properties:

- **`ReportingResumes`:** after a start that got a timer, a position report
  eventually runs unless the timer is stopped or the player destroyed. This
  includes a start after a stop, where the old cancelled timer object is
  still held.
- **`CheckFollowsReport`:** every ReportPosition that ran is eventually
  followed by a CheckAudioUnderflow, unless the player is destroyed. This
  includes a callback whose timer is cancelled or replaced between its two
  enqueues. The mutant `FinishCallbackIfActive` drops the second enqueue once
  the timer is no longer active, and TLC finds a report with no check after
  it.

`app_manager` checks these properties:

- **`ObserverConsistent`:** while the manager runs, the observer (and so
  `GetState`) never shows a removed app as live. It shows a registered app
  in the manager's state. This includes the failed-setConfiguration path.
  Teardown removes apps without notifying the observer, as the tests show,
  so the property is not checked after it.
- **`KilledOnlyOnFailure`:** before teardown, a late indication from a removed
  instance never kills a relaunched, healthy instance.
- **`NoOrphanAtTeardown`:** after teardown, every session-server process that
  is still alive was killed. This includes an app that was launched but not
  yet configured.

`session_management` checks these properties:

- **`ServicesAgree`:** all four module services know exactly the clients in
  the server's list, so a disconnect reaches every service.
- **`ImplementsClientSessions`:** the server refines `ClientSessions`
  (`Abs!Spec`, under `WF_vars(Dispatch)`). A client is served only after it
  connected. It is retired only after it left, and never served again. While
  the loop runs, both eventually happen. If events were dispatched out of
  socket order (the `DispatchAny` mutant), a client's disconnect could be
  handled before its connect, and the client would be served after it left.

### Finding: BUFFERED can be sent twice in one step

The `player_buffered_once` run fails. In TLC's shortest trace, audio underflows
before its first buffer was pushed (the sink can starve at start-up). Then one
`AttachSamples` of audio both:

- cancels the last underflow: Play is enqueued and BUFFERED is notified;
- completes the first buffering: the second BUFFERED.

Both rules are what the tests pin down:

- test lines 579–606 expect BUFFERED from `cancelUnderflow` even though
  `bufferedNotificationSent` is already true;
- test lines 556–577 expect the first BUFFERED once audio and video were both
  pushed.

The spec says BUFFERED is sent on underflow recovery at most once per episode.

### Bounds

- Two sources. Audio and video are the only sources whose interplay matters
  (the underflow rule quantifies over them).
- `MaxSamples = 2` and `MaxPerHaveData = 2`. These allow one haveData with two
  samples (so order within a batch matters) or two haveData calls (so order
  across tasks matters).
- `MaxQueue = 2`. Two queued tasks are enough for every reordering of two
  producers and for a task stranded by `stopWorkerThread`.

The run reaches about 3.2 million distinct states at depth 42, in about a minute.

For `timers`:

- Three start/stop calls are enough for start, stop, start: the restart over
  a cancelled timer.
- Two setup schedules cover replacing a pending one-shot timer.
- A queue of three holds one timer callback's two tasks and a
  FinishSetupSource.

For `app_manager`:

- Three instances of one application cover a launch failure, a removal and a
  relaunch, with a late indication of the removed instance.
- Each socket holds at most two unread indications, enough for a state report
  followed by a death notice.
- A second application shares nothing with the first, and multiplies the
  state space by a factor of about 10,000.

For `session_management`:
- Two clients are enough for connect and disconnect events of different
  clients to interleave in the queue.
- Two `setLogLevels` calls fall before, between and after them.
- Each client connects at most once, because a reconnect is a new IPC client.

The run reaches 757 distinct states at depth 14.

For `protection_buffer`: three buffers allow one of each kind of segment to
be alive at once, with either meta outcome, freed in any order.

For `module_service`: three calls cover two of the three methods around a
third, in every order and with every accept or reject outcome.

For `webaudio_stop`: three requests and a queue of two, with both a valid and
a null pipeline.

For the caps run:

- `MaxUpdates = 4`. Two caps ids are taken by the initial caps, so three
  updates happen. That is enough for a valid update, a mixed one and an
  invalid one, spread over the two sources.
- The values −1, 0 and 13 cover negative, zero and positive.

### Fairness

`ServerManagerModuleService` assumes `WF_vars(HandleCall)`: the IPC server
thread keeps reading its socket. Sending calls is not assumed.

`PlayerTimers` assumes fairness, with `WF_vars` on five actions:
- `FirePosition`: an active periodic timer keeps firing, because time passes
  on its own thread;
- `FireSetup`: the same holds for the one-shot timer;
- `RunTask`: the worker runs any queued task;
- `FinishCallback` and `FinishStaleCallback`: a callback that has started
  runs to its end.

`GstGenericPlayer` has a `FairSpec`, used only by the liveness run:
- `WF_vars(RunTask)`: the worker runs queued tasks until it is stopped.
- `SF_vars(StarvedNeedData(s))`: the appsrc of a starved source has drained,
  so it keeps signalling need-data. The submission is only intermittently
  enabled, because the bounded queue may be full, so the fairness is strong.
- `SF_vars(ClientAnswers(s))`: a client that was told a source needs data
  answers. This is an assumption about the client, not about Rialto.

The property is stated under these assumptions.

`SessionManagementServer` assumes `WF_vars(Dispatch)`: while `process()`
keeps returning true, the loop dispatches every queued event. Client
connects and disconnects are not assumed to happen.

Control calls and destruction are not assumed to happen. The other runs check
safety only.

Deadlock checking is on. These are explicit terminal stuttering steps, where
the program really stops:
- `Destroyed`, after destruction;
- `Finished`, once all updates are performed;
- `Done`, once every web-audio request is handled or the worker is stopped.

`SessionServerAppManager` never deadlocks. `GetState` is enabled until
teardown, and `TornDown` after it.

`session_management` sets `CHECK_DEADLOCK FALSE`. The server really stops
when `initialize` fails, or once `process()` returned false and every client
has disconnected.

## Not modelled yet, and the plan

Coverage of the implementation is at its ceiling. The only implementation
files under `src/` are four headers: `SetupElement.h`,
`SessionServerAppFactory.h`, `GetState.h` and `webAudio/Stop.h`. Every line
of their class bodies is mapped. Their other lines are the license text,
include guards and includes.

`PlayerTimers` is not composed into `GstGenericPlayer`. What
CheckAudioUnderflow does when it runs is in neither the spec (which only
names the task) nor the tests (which only check that it is created and
enqueued). A composition would have to invent when it raises an underflow.
The two modules share only the worker queue. `GstGenericPlayer` already
lets an underflow arrive at any time while playing.

No refinement of `WorkerThread` to an abstract FIFO queue is planned.
`WorkerThread` is itself spec_modelled as `Append`/`Head`, so such a
refinement would hold by construction.

The ordering hazard at `SetupElement.h:39` has no property: neither the
spec nor the tests say that a starvation before the SetupElement task ran
must be reported.

Properties deliberately not stated. A property of each kind below would
only restate a single guard or assignment, or compare two ghost variables set
in the same step:
- that playback resumes only once every source has recovered: this is the one
  condition `Resume`;
- that caps get only positive values: `Valid` and `SetValidFields`;
- that a failing `changePipelineState` notifies FAILURE exactly once: this is
  the two branches of a spec_modelled definition;
- that FinishSetupSource is submitted once per schedule: the single one-shot
  `setupTimer`;
- that the subsample map decodes: it could only be compared with a decoder
  written for the model;
- that a rejection is reported on the controller: `setFailed` is set from the
  same outcome in the same step.

The hazards these would cover are listed in `PROJECT.json` with a note.

These parts are left out for good:

- the westeros-sink rectangle calls: synchronous property sets with no
  interesting state;
- whether `common::Timer::cancel` waits for a callback already running: the
  Timer class is not in the repository. `PlayerTimers` explores both outcomes
  for stop and restart;
- the app manager's startup timer: `cancelStartupTimer` appears only in the
  mock, and no test lets the timer fire, so there is nothing to translate.
