# A TLA+ development for PresentMon

PresentMon measures how frames get from an application to the screen. It listens
to ETW events of the graphics runtimes, the kernel (DxgKrnl) and the compositor
(DWM), follows every *present* through them, and reports when and how it was
displayed. The console program and the service share the analysis library
`PresentData`; the service publishes the frames in shared memory, where clients
read them through the middleware.

This directory holds TLA+ modules that model the parts of it in which ordering,
concurrency and bounded buffers decide correctness, the TLC configurations that
check them, and TLAPS proofs for every value of the constants. Paths below are
relative to the repository; `C:` is `PresentData/PresentMonTraceConsumer.cpp`.
`PROJECT.json` gives, for each definition, the source lines it stands for.

## 1. The system

| Part | State | Operations | Talks to |
|---|---|---|---|
| Event decoding, session control (`TraceConsumer.cpp`, `PresentMonTraceSession.cpp`) | provider settings, trace handles | start, stop, dispatch of an event | calls the consumer's handlers on the analysis thread |
| Present tracking (`C:`) | presents in flight; tables by thread, submit sequence, token, window; list of presents waiting for DWM | one handler per event; create, lose, complete a present | completed presents go to the ring below |
| Completed-present ring (`C:2310-2519`, `C:3585-3604`) | ring of completed presents, count, ready count | store, defer, settle, overflow, block, dequeue | analysis thread stores, output thread dequeues |
| GPU work tracking (`GpuTrace.cpp`) | packet queues per node | packet start, stop | attributes work to presents |
| Console program (`PresentMon/`) | recordings, processes, swap chains | record, stop, write CSV | dequeues presents |
| Playback session (`PresentMonService/MockPresentMonSession.cpp`) | tracked processes, two threads, broadcaster, stop flags | start and stop of the trace session, analysis, output loop, stop of playback | driven by actions and by the main thread; dequeues presents, pushes frames |
| Realtime session (`PresentMonService/RealtimePresentMonSession.cpp`) | tracked processes with their liveness, provider state, streaming event, threads | provider transitions with rollback, reset of the consumer, process exits, service stop | the same, and the event gate of the consumer (`C:3614-3779`) |
| Frame ring (`Interprocess/source/ShmRing.h`) | slots, write serial, read cursor | push, read range, read slot, move cursor | service writes, clients read, lock-free |
| Middleware (`PresentMonMiddleware/`) | position in each frame ring, queries | poll, consume frames, report progress | reads the ring, sends actions |
| Actions (`Interprocess/source/act`, `CommonUtilities/pipe`, `PresentMonService/acts`) | one session per client, the pipe's two coroutine mutexes, command tokens | request and response, event; start and stop tracking, report progress, dispose | named pipe; execute on the sessions |
| Shared-memory stores (`Interprocess.cpp`, `HistoryRing.h`) | telemetry histories, introspection | push sample, search by time | telemetry thread writes, clients read |
| Swap chain unification, metrics (`CommonUtilities/mc`) | last frames of a swap chain | pair application and displayed frames | fed by both programs |
| Telemetry, user interface, overlay, tools | adapters, windows | polling, drawing | around the above |

### What is hard in it

* **Two threads around one ring.** The analysis thread stores completed presents,
  the output thread takes the ready ones. A completed present may still be
  *deferred*: its last event is yet to come. It must not be taken before, and
  must not hold up the presents behind it for ever.
* **A ring without locks between two programs.** Slots are overwritten in place.
  Nothing but serial arithmetic keeps a client from reading a slot under
  the producer's pen, and playback relies on a cursor that travels a pipe.
* **Events out of order, doubled or missing.** A flip can be on screen before the
  runtime's call returns, and a driver may submit it from another thread.
  Each lookup table has its own idea of which present an event belongs to.
  The code repairs what does not fit by "losing" presents, from within loops
  over the same tables.
* **Limits.** Both present rings wrap and overflow, with one policy for realtime
  sessions and another for offline ones.
* **Shutdown.** Threads are joined while they may wait for each other, by whichever of two
  threads comes first, and a client may start the session again meanwhile.
* **Handlers without a lock.** Clearing the consumer's tables relies on a counter, a flag and a
  wait on an address, with a time limit, to keep the event handlers out.
* **Several coroutines on one pipe.** A response is matched to its request by nothing but order.

`PROJECT.json` lists each hazard at its line, with the properties that cover it
or the reason none does yet.

### What makes each part correct

* *Frame ring, playback:* an exactly-once, in-order, bounded channel, in which the
  producer waits but does not wait for ever. *Broadcast:* the read buffer protects
  a reader for a known number of frames.
* *Completed-present ring:* only settled presents are handed over, in completion
  order; each one is accounted for; offline analysis overwrites nothing that could be
  dequeued; a stuck present gives way at the deferral limit.
* *Tracking:* a present is tracked until it is completed and not after; it is
  completed once; lookups end; a displayed present ends the earlier
  ones of its swap chain; what waits for Present_Stop can be found by it.
* *Sessions:* the consumer outlives the threads that use it; what clients track is tracked, also
  after a failed start; a playback that stays up passes on the whole file, but what stays deferred, and a backpressured ring
  misses no frame that could be taken; tables are cleared with no handler in them and stay clear until the gate opens; calls and
  stops return and leave nothing running.
* *Action pipe:* one write and one read at a time, first come first served, no lost wake-up; every
  response reaches its own request; every call ends, also when the pipe breaks.

## 2. The modules

```
FrameChannel                             lossless bounded channel (abstract)
ShmRing            -- implements -->     FrameChannel
ShmRingProofs      EXTENDS ShmRing
PresentRing                              the ring of completed presents as operators
DeferredPresents   EXTENDS PresentRing   deferrals of its presents: merge, ready count, stuck head
CompletedPresents  EXTENDS DeferredPresents      hand-over between the two threads
PresentRingProofs  EXTENDS PresentRing   lemmas about the ring's operators
CompletedPresentsProofs  EXTENDS CompletedPresents, PresentRingProofs
PresentTracking    EXTENDS PresentRing   the event handlers
Completion         EXTENDS PresentRing   CompletePresent in single steps, with its recursion
CompletionProofs   EXTENDS Completion, PresentRingProofs
PlaybackSession    EXTENDS DeferredPresents      composes both rings with four threads
PlaybackSessionProofs    EXTENDS PlaybackSession, PresentRingProofs
PlaybackFramesProofs     EXTENDS PlaybackSessionProofs
RealtimeSession                          provider transitions and the event gate
RealtimeSessionProofs    EXTENDS RealtimeSession
CoroMutex                                the coroutine mutex as operators
FifoLock                                 a lock handed on in order (abstract)
ActionPipe  EXTENDS CoroMutex            -- its mutexes implement --> FifoLock
ActionPipeProofs   EXTENDS ActionPipe
MC...                                    the instances TLC checks
```

### ShmRing

Models `ShmRing.h` with the service's output thread as the producer, one client
(`FrameMetricsSource.cpp`) as the reader and the action thread
(`StartTracking.h`, `ReportFrameReadProgress.h`) as the owner of the read cursor.
Because nothing is locked, an action is one atomic load or store of the code, and
the copy of a frame is two steps, between which the slot is `Torn`:

| Actions | Code |
|---|---|
| `BeginPush`, `PushUnblocked`, `PushTimesOut`, `CopyBegins`, `CopyEnds`, `Publish` | `Push` |
| `SeedLoad`, `SeedRange`, `SeedCursor` | the cursor's first value in `StartTracking` |
| `OpenLoad`, `OpenRange` | constructor of `FrameMetricsSource` |
| `PollLoad`, `PollRange`, `ReadAddress`, `ReadBody`, `FinishBatch` | `ProcessNewFrames_` |
| `HandleProgress` | `ReportFrameReadProgress` |

A frame is the serial it was pushed under, so a reader that gets an overwritten
slot gets a different number and one that reads a half-copied slot gets `Torn`.
`GetSerialRange` loads the write serial twice in its first-lap branch and the model does
too. Serials are naturals; the code's 64-bit counter does not wrap in practice.
One client reads; a second would add a second cursor, which the code does not support.

`FrameChannel` says what a playback client relies on: `Send` while fewer than `Window`
frames are outstanding, `Deliver` of exactly the next one. The refinement maps `sent` to
the write serial, `received` to the reader's place and the window to
`Capacity - ReadBufferSize`.

### PresentRing, DeferredPresents and CompletedPresents

`PresentRing` is `mCompletedPresents` with its index, count and ready count as a record,
and the code's changes of it as operators. `DeferredPresents` has what the end of `CompletePresent`
does to deferrals, also as operators: `MergeFrameId`, and `Settle`, which counts the ready presents and
gives up on a stuck head. `CompletedPresents` adds the two threads. An
action is one critical section of `mPresentEventMutex`:

| Action | Code |
|---|---|
| `CompletePresent` with its alternatives `Append`, `Block`, `Refuse`, `Overflow` | the locked end of `PMTraceConsumer::CompletePresent` |
| `Unblock` | the wake-up of `mCompletedRingCondition.wait` and what follows it |
| `PresentStop`, `RemoveLostPresent`, `FlipFrameTypesOver` | the three ways in which later events end a deferral, each followed by `UpdateReadyCount` |
| `DequeuePresentEvents` | the function of that name |

A present is the number of its completion. Its deferrals are a set out of `"stop"`
(`WaitingForPresentStop`), `"flip"` (`WaitingForFlipFrameType`) and `"frame"`
(`WaitingForFrameId`). Start times are arbitrary members of `Times`: completion order
is not start order. The timing values a merged frame copies are left out.

### PresentTracking

The members of `PMTraceConsumer` are one record `pm`, and each event handler one action
that maps it to the next. That is the granularity of the code: handlers run on one
thread, and only the ring at their end is shared. Helpers keep the code's names
(`FindOrCreatePresent`, `StopTrackingPresent`, `RemoveLostPresent`,
`CompletePresent`, ...) and its order of calls, including the recursion by which completing
DWM's present completes its dependents, and completing a displayed present
completes the earlier ones of its swap chain.

Events arrive in every order a *script* allows. A script, a member of the constant `Scripts`, says
which kinds of event each thread emits, how many presents may be tracked, whether they are tracked to the
display, and whether the session has completed a present before; a behaviour follows one script throughout. That keeps a run about
flips, about a driver's thread, about DWM or about planes, without a module for each. The number of
presents that are *tracked* is bounded, not that of events: an event that finds no present is a stutter or a
creation, as in the code. Timestamps are reduced to whether they were set; the deferral limit is counted in
presents. The ghost fields `twice`, `dangling`, `dropped` and `log` record what the
properties speak about and influence nothing.

| Actions | Code |
|---|---|
| `RuntimePresentStart`, `RuntimePresentStop` | D3D9 and DXGI Present_Start, Present_Stop |
| `Flip`, `FlipMultiPlaneOverlay`, `IndependentFlip`, `HandleDxgkBlt`, `BlitCancel`, `PresentInfo` | DxgKrnl, submission |
| `HandleDxgkQueueSubmit` (with Windows 7 packets), `HandleDxgkQueueComplete`, `HandleDxgkMMIOFlip`, `MMIOFlipMultiPlaneOverlay`, `HandleDxgkSyncDPC`, `SyncDPCMultiPlane` | DxgKrnl, execution and display |
| `HandleDxgkPresentHistory`, `HandleDxgkPresentHistoryInfo` | DxgKrnl, tokens of windowed presents |
| `MMIOFlipMultiPlaneOverlay3`, `FlipFrameType` | planes, and the frame types reported for them before or after the flip |
| `TokenCompositionSurfaceObject`, `TokenInFrame`, `TokenConfirmed`, `TokenDiscarded` | Win32K: states of a composition surface's token |
| `GetPresentHistory`, `SchedulePresent`, `FlipChain`, `ScheduleSurfaceUpdate` | DWM |
| `AddTrackedProcessForFiltering`, `RemoveTrackedProcessForFiltering` | the target processes change, from another thread; DWM is always tracked |
| `DequeuePresentEvents` | the output thread |

Whether the present id of a FlipFrameType event is the one recorded for the plane is left open
(`matches`). Of the list `Displayed` of a present only whether it was shown is kept; that
`SyncDPCMultiPlane` adds an entry for the application to one that ends with a generated frame (`C:1125-1139`) changes nothing else. Not in the module: hybrid presents, GPU work, application timing and the frame ids of
PresentFrameType.

### Completion

`PresentTracking` takes an event from its lookup to the last completion it causes in one step, with recursive
operators. `Completion` is the part in the middle for itself: what `CompletePresent`, `RemoveLostPresent`,
`StopTrackingPresent`, `TrackPresent` and the dequeuing thread do to the tables, flags and the ring, one loop iteration or call
at a time. The activations of `CompletePresent` are a stack of presents (0 stands for the first completion, which throws away
all presents), each with its place (`at`) and the iterator of its loop (`iter`); no operator is recursive.

| Actions | Code |
|---|---|
| `DiscardNext`, `DiscardEnds` | the first completion, `C:2139-2148` |
| `CompleteDependent`, `DependentsCompleted` | the loop over `DependentPresents`, from its end, `C:2240-2251` |
| `CompleteEarlier`, `EarlierCompleted` | the loop over the earlier presents of the process, `C:2253-2272` |
| `StopTracking`, `StoreCompleted` | `StopTrackingPresent`; the locked end, with the policy of a full ring and the stuck head |
| `TrackPresent`, `EvictTracked`, `PlaceTracked`, `EvictFromThread`, `EmplaceOnThread` | `TrackPresent` and its `SetThreadPresent`; the evictions complete presents in between |
| `PresentStopSettles`, `PresentStopLeaves`, `PresentStopCompletes` | `RuntimePresentStop` |
| `SubmitOnDriverThread`, `LeaveThread`, `EndFlipFrameTypes` | what `FindOrCreatePresent`, Present_Info and `MMIOFlipMultiPlaneOverlay3_Info` do to these tables |
| `WaitForDwm`, `AttachDependents` | the four places that put a present into `mPresentsWaitingForDWM` (`C:803`, `C:839`, `C:1848`, `C:1929`), and DWM's flip, which takes the list over as its `DependentPresents`; `LeavesDwm` is how a completion takes a present off it |
| `EventCompletes`, `EventLoses`, `EventDisplays` | any other handler, for the present that it looked up |
| `DequeuePresentEvents` | the output thread, between any two of these steps |

Which present an event finds is left open, so the module allows for more than the handlers of `PresentTracking` do: what is
true of it does not rest on the lookups by submit sequence, token, context or window. It takes three things over from them. A present handed to DWM is of another process
than DWM (`WaitForDwm`; without it `RecursionSafe` fails, see section 5). One that is waiting for DWM already is handed over again only if it is of a
composition surface (`Surfaces`). And a handler changes the `FinalState` of a
present only while that is not completed. Left open, too, are the deferral limit (any head that is older than the present being
stored may be given up), whether FlipFrameType events are awaited, and which of the dependents share a window. Start times are
the numbers of the presents, hence distinct.

### PlaybackSession

`MockPresentMonSession` with `FrameBroadcaster`, `ActionExecutionContext` and the actions of
`PresentMonService/acts`, over both rings. The completed ring is that of `CompletedPresents` with backpressure,
made of the same operators; a frame ring is the sequence of what was pushed and the read serial. Four
threads: *action* (one client call at a time), *main* (the service's loop and its stop), *analysis*
(`consumer_thread_`) and *output* (`output_thread_`). An action of the model is what a thread does between
two points at which another can interfere: taking `session_mutex_`, a join, an atomic
flag, a wait for room.

| Actions | Code |
|---|---|
| `StartTracking`, `StopTracking`, `Dispose`, `ReportFrameReadProgress`, `StopPlayback` | the actions of the clients |
| `UpdateTracking`: `Snapshot`, `SyncTrackedPidState`, `Decide`, `StartFails`, `StartTraceSession`, `StartConsumerThread`, `StartOutputThread`, `FinishStart`, `FinishStop` | `UpdateTracking` and its roll-back, `StartTraceSession` |
| `ReleaseBackpressure` | the cursor of a leaving owner |
| `StopTraceSession`: `StopBegins`, `CloseTrace`, `WaitForConsumerThreadToExit`, `StopOutputThread`, `JoinOutput`, `CleanUp` | on the action thread or on the main thread |
| `CheckTraceSessions`, `StopTraceSessions`, `MainReturns`, `DestroyPresentMon` | the main thread, to the second stop in `~PresentMon` |
| `CompletePresent` with its alternatives `AppendPresent`, `WaitForRoom`, `RefusePresent`, `OverwritePresent`; `Unblock`, `ProcessTraceReturns` | the analysis thread: the locked end of `CompletePresent`, the wake-up of its wait, the end of `ProcessTrace` |
| `PresentStop`, `RemoveLostPresent`, `FlipFrameTypesOver` | the analysis thread: later events that end a deferral |
| `ReadQuit`, `CheckActive`, `DequeuePresentEvents`, `AddPresent`, `Broadcast`, `EndRound` | the output thread |

The constant `Trace` is the file: the presents as they complete, each with its process, start time, deferrals, and whether it
is lost or failed. Deferrals end at any later event, or never. A present that completed is
lost afterwards only while it waits for its Present_Stop, since by `ThreadsLead` of `Completion` no handler finds it otherwise. `DequeuePresentEvents` takes the ready
prefix, and `AddPresent` skips what is lost, failed or not tracked. `CheckTraceSessions(true)` clears the tracked
processes only if playback was not to stop anyway (`forced`). The variables `gaveUp`, and `since` and `from` of a segment, are history for `NoGaps`: the
presents overwritten while they waited, and what had been pushed and completed when the process was tracked or the session began.

A segment lives while a target, the call under way or the output thread holds it, so a new owner may join one
that only the output thread still holds. `stop_playback_requested_` is never reset, as in the code. A playback
session never handles terminated processes, so none is marked exited. `started_processes_`, which only decides
when a name is published, and `evtStreamingStarted_` are left out. `StopRaces` lets the main thread's stop
fall between `session_active_ = true` and the start of the threads; see section 5.

### RealtimeSession

`RealtimePresentMonSession` with the event gate of `PMTraceConsumer`, at the granularity of single atomic
operations where no lock is held.

| Actions | Code |
|---|---|
| `StartTracking`, `StopTracking` | the actions of the clients |
| `UpdateTracking`: `CheckActive`, `StartFails`, `StartEtwSession`, `Snapshot`, `SyncTrackedPidState`, `Decide`, `Branch`, `OpenGate`, `StartProviders`, `SetStreaming`, `ResetStreaming`, `KeepStreaming`, `CloseGate`, `StopProviders` | `UpdateTracking`, `StopProvidersAndResetConsumer` |
| `BeginReset`, `Drain`, `LoadExpected`, `WaitOnAddress`, `WaitEnds`, `DrainTimesOut`, `Clear`, `AfterReset` | `ResetPresentTrackingData` |
| `NextEvent`, `BeginEvent`, `CheckGate`, `HandleEvent`, `EndScope`, `WakeAll`, `ProcessTraceReturns` | the ETW thread: `EventRecordCallback` and `EventProcessingScope` |
| `CheckSession`, `DequeueAnalyzedInfo`, `UpdateProcesses`, `HandleTerminatedProcess`, `CheckLive`, `ResetEvent`, `EndRound`, `NextRound` | the output thread |
| `StopTraceSessions`, `StopBegins`, `CloseTrace`, `WaitForConsumerThreadToExit`, `CleanUp`, `ActionServerEnds` | the main thread, also in `~PresentMon` |
| `ProcessExits` | the environment |

Merged into one step, because nothing that another thread does in between matters: reading the quit flag and
`session_active_`, the two dequeues, setting the streaming event and returning, joining the output thread and taking the lock.
Enabling providers on a session that was closed meanwhile is a refusal. Exits may be lost, when the providers are off and
when the tables are cleared. Left out: pid reuse, a constructor that fails, the `Sleep` fallback of Windows 7
for the wait on an address, the flush thread, broadcasting and latency statistics.

### CoroMutex, FifoLock, ActionPipe

`CoroMutex` has `Lock`, `Unlock` and the resumption of a chosen waiter as operators on the mutex's three members.
`ActionPipe` puts two of them around a pipe: each call is a coroutine that writes its packet under the one
and, unless it is an event, reads the next packet under the other and takes it for its own. The server reads,
executes and answers one request after another, and may disappear (`Disconnect`), after which writes and reads fail. What runs
between two suspensions of a coroutine is one step. The refinement maps the owner and the waiters of each mutex to
the queue of `FifoLock`. Left out: `TryLock` and timeouts of a packet, which the client does not use, unknown action
ids, and the stop of the client's `io_context`. An unknown id matters for events: the `catch (...)` at
`SymmetricActionConnector.h:46-54` answers any packet whose id is not found, an event too, and such an answer would be taken for that of a request. Clients
send only actions the service of the same build registers, so `Find` succeeds.

## 3. The runs

| Run | Instance | What it shows |
|---|---|---|
| `ring_playback` | 5 slots, read buffer 2, 11 frames, timed pushes | Whatever the reader's speed, and however late its reports: unread frames stay intact, the ring implements the channel, every frame is delivered. |
| `ring_broadcast` | 4 slots, read buffer 2, 12 frames | Without backpressure, on a ring that has wrapped, a frame in the range is whole until `ReadBufferSize` more are published. |
| `handover_offline` | ring of 2, 4 presents, deferrals by stop and by frame type, fair | Wrap, overflow and refusal keep the order, the accounts and the ready prefix; only presents still deferred are overwritten; a stale head gives way; a blocked analysis thread resumes. |
| `completion` | rings of 2, realtime, 2 presents of an application, the second of which may wait for DWM, and then 1 of DWM, before and after the first completion | Presents are tracked until completed and then in one place; displayed in order; nested calls are ordered and erase no iterator's element; DWM's list holds what the flags say; threads lead to what their events need; the first completion discards all before it; every step of a completion brings it forward. |
| `tracking` | rings of 2, 3 threads of 2 processes, 2 or 3 presents, twelve scripts | `CompletionKept`: what `completion` shows holds under the handlers' own lookups, DWM's list and its flag included. |
| `tracking_twice` (violation) | flips of one thread, 3 presents | A present can be completed twice. |
| `playback_session` | 1 client, 2 processes, 4 presents (`Deferrals`), completed ring of 2, frame rings of 2, 2 calls, both stops | Consumer and threads: order of start, join and clean-up; targets tracked, also when a start fails while another target is tracked; a backpressured ring misses no frame but those lost, failed or overwritten while deferred. |
| `playback_live` | 1 process, 3 presents (`StuckHead`), completed ring of 2, 2 calls, both stops, fair | The file is analysed to its end and all that is ready is passed on, with a head that may stay deferred for ever; a stop returns except in two named waits. |
| `playback_stop` (violation) | 2 processes of which one is tracked, no stop by the main thread | A stop never returns. |
| `action_pipe` | 3 requests, 1 event, a pipe that may break, fair | One at a time, own response, both mutexes implement the fair lock, every call ends. |
| `realtime_session` | 2 processes of which one may exit, 2 calls, 1 present event, fair | Clearing alone, staying clean, threads joined first, streaming means enabled, calls return, the service stops and leaves nothing. |
| `realtime_idle` (violation) | 1 process that exits | Providers stay on with nothing tracked. |

The scripts of `tracking`: fullscreen flips of one thread with 2 presents and a dequeuing thread, and with 3 presents without one;
blits and overlay flips that another thread of the process submits, likewise; windowed blits and composed
flips that DWM's flips display, in a session that has completed a present and in one that has not; presents of a composition surface,
some not to be sequenced, that are composed, flipped independently, confirmed or discarded;
overlay flips with frame types, by the application and by DWM for others; Windows 7 blits; flips of
a process that is dropped from the targets and added again at any time; and presents of a session that does not track them to the display.

**Why the bounds are enough to meet the cases.** The frame rings run at least two laps (11 frames on 5
slots, 12 on 4); 5 is not a multiple of the read buffer, so that range and slot
arithmetic do not coincide; 3 free slots let several reports be under way at once. The
completed ring of 2 with 4 presents fills, overflows, drains and fills again, with a ready and a
deferred present in either order; two start times 2 apart with a limit of 1 make both sides of the
stale test. With 3 tracked presents and rings of 2, the tracked ring comes around to a present
in flight, the completed ring overflows, and the deferral limit of one present expires. One submit
sequence and one token make reuse, the hard case, the only case; two Win32K tokens let a newer surface
present replace an older one of its window. DWM may schedule a surface update again and again, so its list is bounded by the
number of presents. Three presents cannot show what would need four in flight at once; the proofs of
section 4 remove this limit for the two rings and for `Completion`.

Which presents DWM composes in `completion` (`Composed`) and how many wait for it at once (`MaxDependents`) are bounds; in its instance it is the second present and one, so
a present that waits can be lost, displayed for itself, evicted from its thread or completed with DWM's. The first present is not of the runtime, the second is: the
one is evicted and the other has a Present_Stop to wait for. A surface that is scheduled twice is in the scripts of `tracking`, and in the proof.

`completion` has no thread but one for each process, so that a present's driver never has its own; `tracking` and the
proof have. With three presents at most four calls can be under way, so of `RecursionBounded` the run tests the order of
nesting and only the proof the depth. The realtime policy of a full ring is part of `completion` and `tracking`;
`handover_offline` has the other one, and the theorems about `CompletedPresents` are for both and for all
three kinds of deferral.

The runs of `PlaybackSession` differ in their file. `Deferrals` has presents of two processes: one that waits for its
Present_Stop, one that waits for frame types and for a frame-typed present, a lost one, and the frame-typed one, late enough
to find the head stale. On a completed ring of 2 the analysis thread waits for room, overwrites a deferred present, refuses the lost one and
gives up on a stuck head, and the merge makes presents ready; two calls track both processes, or one for a time; after StopPlayback the second call starts
a session again, or fails to with the first process tracked. In `StuckHead` the analysis thread waits for room behind the first present, and the second holds back the third for ever
if its Present_Stop does not come. With a frame ring that has room
for one frame the output thread waits in either run. The state space of `Deferrals` is too large for liveness, hence the smaller file. In `realtime_session` 2 calls
make each pair of transitions, among them a start that follows the service's stop; one event is enough to
catch a handler on either side of the gate, and the session's exits are events too. In `action_pipe` 3 requests
and an event make a queue in which one waits, one was chosen and one arrives.

`tracking`, `completion` and `handover_offline` bound the presents, after which only events about existing
ones happen; dequeuing or `GetPresentHistory` is always enabled, so deadlock is not a question there.
In `ring_*` the reader polls for ever. The runs of the sessions and of the pipe allow for deadlock in TLC's
sense, because these systems end: the service stops, the calls are made. That they do not end too early is what
`PlaybackCompletes`, `StopEndsOrStuck`, `WaitsEnd` and `CallsEnd` say.

**Fairness.** `ShmRing!FairSpec` is weak fairness of each thread: the output thread keeps
pushing, the action thread handles reports from its pipe, the client polls. The last is an
assumption about the client; without it playback is meant to stop at the limit.
`CompletedPresents!FairSpec` is weak fairness of `DequeuePresentEvents`,
which the output threads call in a loop for as long as a session lasts (`PresentMon/OutputThread.cpp`,
`MockPresentMonSession::Output`), and of `Unblock`, since every dequeue notifies the
condition variable. Completions are not fair: a trace may end at any time.
`PlaybackSession!FairSpec` is weak fairness of each of its four threads, which the operating system schedules, and of a
client that tracks and goes on reading; calls are not fair. That of the analysis thread is for the thread, not for an event of its own: `ProcessTrace`
ends the file at the latest when it has been read, and a Present_Stop may never come. `RealtimeSession!FairSpec` is that of its four threads.
The two-second limit of `ResetPresentTrackingData` is not fair: `WaitsEnd` holds because no wake-up is missed, not because
the wait gives up. `ActionPipe!FairSpec` is weak fairness of the two `io_context` threads: of the server, and of every coroutine that
can go on, since the context runs its handlers in turn. Whether the pipe breaks is open.

## 4. The proofs

`tlapm` checks the eight proof modules to the last leaf. No theorem bounds a size: ring sizes,
limits, sets of processes and times, and the bounds on behaviours are arbitrary.

**Assumptions.** `RingAssumption`: the read buffer is not 0 and the capacity at least twice
it; the constructor of `ShmRing` throws otherwise. `RingSizeAssumption`: the ring of presents has a
slot. `CompletedAssumption`, `PlaybackAssumption`, `RealtimeAssumption`: the kinds of
the other constants; `PlaybackAssumption` also says that 0, the idle process of Windows, presents nothing.
`CompletionAssumption`: the same for `Completion`.
(`TrackingAssumption` and `CallsAssumption` serve only TLC.)
Theorems about playback over the frame ring have `Backpressured` as a hypothesis. `OfflineOverwritesOnlyDeferred` and
`StuckHeadsGiveWay` have the hypothesis `"frame" \notin Deferrals`; without it the first fails
(section 5). `ThreadsEndBeforeSession` of playback has
`~StopRaces`, without which it is false (section 5), and so has `BackpressureLosesNothing`, whose proof
needs that one output thread at a time pushes. The latter also assumes that no present of the file is both lost and frame-typed (`LostSettled`),
for the same reason: a refused one ends the wait of stored presents without counting the ready ones again. For playback,
`TypeCorrect` and `TargetsAreTracked` hold with and without the race.

**ShmRingProofs.** `UnreadIntact` is not inductive: it says nothing of the slot under the pen nor
of how far the producer may go. The invariant that is, in the order the argument uses it:

* `SlotInv`: a published serial is in its slot until the one `Capacity` later is copied over it;
  `PublishInv`: a slot about to be published holds its serial; `RangeInv`: what a range
  says of the write serial at the time. With the types these are `RingInv`, which holds on every ring, and
  from which `MarginHolds` follows by arithmetic on slot numbers.
* `CursorInv`, on backpressured rings: cursor <= every report under way <= the reader's place
  <= the write serial, and the write serial stays within the window above the cursor. The reports are
  sorted, so handling the first keeps the others acceptable.
* `PlaybackInv` is both. `NoFrameLost`, `ReportsAccepted` and `CursorsOnlyAdvance` follow (the last two, that no
  report is refused and no cursor moves back, are proved and not run); and
  `RingImplementsChannel`: `Publish` is `Send`, `ReadBody` is `Deliver` (the address
  and the body come from the same frame), all other steps stutter.

**PresentRingProofs.** Lemmas on the operators of the ring (`ReadyCountIs`, `AppendIs`,
`OverwriteIs`, `TakeIs` and others), for both modules that have one: which entry each one leaves at which place, modular
arithmetic included, after which no other proof speaks of slots. The existence of the
number that `UpdateReadyCount` chooses is the least-element property of the naturals.

**CompletedPresentsProofs.**
`HandOverInv` is types, order (`OrderInv`: entries increase, above the last one handed
over and up to the last one completed, with the blocked present above all), `ReadySettled` and
`Accounted`. They need each other: overwriting moves the ready prefix, so its being settled
needs the order. For the two offline theorems, `Stuck` adds that the first present that is not ready is
deferred, i.e. that the ready count is never stale; a refused
frame-typed present breaks exactly this.

**CompletionProofs.** The properties of the run `completion` for any number of presents, threads, processes and swap chains, any
rings and both policies of a full ring, from one invariant, `IInv`. It holds between any two steps, so also in the middle of calls that are
within one another. None of its parts is inductive by itself:

* `Tables`: a present is ordered and has its slot in `mTrackedPresents`, both or neither, until `StopTrackingPresent`; how far it is, is
  told by `completed` and `at`. `Kept`: the ring, what was handed over and what was dropped have the other completed presents, each once
  (`PresentsAreInOnePlace`). `Stacked`: a completed present is on the stack once or not at all, and those below the top are
  within a loop.
* `Iterating`: an iterator stands on a present of the process that is ordered, dependents belong to DWM's presents and are of others.
  `InOrder` is the heart: a call within another is for an earlier present of the same process, or for one of an application within one of
  DWM; two of the same process are of one swap chain, the inner one has no earlier presents of it left to complete (`Passed`), so it calls
  none itself, and the outer one's iterator is past it (`Ends`). This gives the depth of four, keeps the iterator from what is erased (`RecursionIsSafe`)
  and, with `Ahead` (what an iterator has passed is completed), the order of display (`PresentsAreDisplayedInOrder`). Of the recursion that the
  comment at `C:2152` reports it shows that DWM's present and a dependent one cannot complete each other as long as no dependent is of DWM's
  own process.
* `OnThreads`: what each thread leads to is in flight, or on its way out, or waits for a Present_Stop on this thread, and the runtime's
  presents whose Present_Stop is to come are led to; `Waiting` ties both to the flags (`ThreadsLeadToPresents`).
* `Listed`: what waits for DWM is of another process and in the list once, or else of a surface; its flag is set, unless a surface's present was taken off once before
  (`PresentsWaitForDwm`). It is also what makes dependents of others than DWM: `Iterating` takes them from the list.
* `Fresh`: before the first completion has ended everything completed is lost and nothing is deferred, so that it leaves nothing behind
  (`FirstCompletionDiscardsAll`).

`CompletionsAdvance` needs most of these together. The measure of a present is its stage, from not completed to stored, and within a loop what is left for the
iterator: the dependents below it, or the numbers above it. That an iterator goes forward at each round is plain; that nothing else is ever changed of a present under way, and that none is begun
a second time, is `Stacked` and `Iterating`; that a step of the dequeuing thread which hands nothing over changes nothing is `Kept`. With finitely many presents and a
bounded measure no completion goes on for ever, which with `RecursionIsSafe` is the answer to the "infinite recursion" of the comment. It does not say that a step
of the completion is always possible: a full ring of offline analysis waits for the other thread, and no property covers the rest.

**RealtimeSessionProofs.** `TablesClearedAlone`, `TablesStayClean`, `ConsumerOutlives` and `NothingLeft` follow from one
inductive invariant, `SessionInv`: `Shape` (which fields the records have), `GateInv` (the counter counts the handler in
its scope; a handler that passed the flag is counted, so a reset that read zero after it cleared the flag has none), `CleanInv`
(behind a gate that is closed, with no reset under way, the tables are clean and nobody is in them), `MutexInv` (a call past its
first checks holds `session_mutex_`), `StopInv` (a consumer is there exactly while the session is active or being
stopped, and its threads end before) and `EndInv` (after the action server is gone nobody starts the session again). `ClearedAlone` needs the order
of the code's three atomic operations on each side and nothing about time: giving up after two seconds skips the clearing.
`TypeCorrect` needs `Types`, of which `Tracked` is the part that several threads write. `EventMeansProviders` needs `StreamInv`: until the service stops the session is there, and from the
opening of the gate on nobody closes it before the event is set.

**PlaybackSessionProofs.** `ThreadsEndBeforeSession` from `SessionInv`: `Shape` and `StopInv`, which
says for each place of a stop, on either of the two threads that may perform it, which threads are joined; two stops cannot overlap,
because the one that clears `session_active_` makes the other return. `TypeCorrect` from `PlaybackTypes`: the places of the four
threads, the call under way with the fields that its place needs (`Tracking`, `Serials`), the completed ring (`Stored`, with the
lemmas of `PresentRingProofs`), and the frame rings, which grow only by presents of the file. `TargetsAreTracked`
needs `TargetsKept`: between the snapshot and the decision of an `UpdateTracking` the call knows the set it replaced, so that a
failed start can put it back without losing a target.

**PlaybackFramesProofs.** `BackpressureLosesNothing`, for the completed ring as it is, with presents that are deferred, lost, refused and overwritten. In
the order of the argument:

* `CompletionMoves`: what a step of the analysis thread may do to the ring, told by its entries: nothing, add the next present at the end, or, only
  when no present is ready, put it in and drop the head. `LineInv` has the reason: the ready count stops only at a present
  that waits, so that the head of a ring without ready presents is deferred and what is dropped is in `gaveUp`. A
  refused lost present that also merged would break it, which is what `LostSettled` is for.
* `InLine`: the batch of the output thread and then the ring increase, and all of them are below the next present to complete. With one output thread
  (`SessionInv`) a dequeue moves the ready prefix from the one to the other and nothing overtakes.
* `Frames`: for each tracked process, what was pushed since its tracking began increases, is below the line, and with the line and the presents that are
  excused (lost, failed, in `gaveUp`) has all presents the process completed since. A present leaves the line at its front
  only, pushed or skipped, and a skip is for one of the excuses or for a process that is not tracked.

`FramesInv` is these with the types and `SessionInv`. `gaveUp` takes a present for deferred if it was so before the
completion that overwrites it: one whose wait that completion's own merge ends (`C:2364`) is overwritten all the same, since `mReadyCount` is
counted only afterwards (`C:2406`), as the comment at `C:2375` allows for.

**ActionPipeProofs.** `PipeInv` relates what no single member of the code knows. `MutexInv`: the count, the queue and the holdoff of each
mutex agree with the calls that wait, that an unlock chose and that own it; from this follow `NeverOverlapped` and, by
the refinement mapping, `MutexesImplementLocks`. For `ResponsesAreOwn`: `TokenInv`, each call that started has a token of its own; `PacketOrder`, tokens grow from
the responses back over the packet being executed and the requests to the calls yet to write; `QueueOrder`, both
mutexes queue the calls in that order, and each reader is older than each writer; `ResponseInv`, the responses under way are those of
the oldest readers; `PendingInv`, while the pipe is whole, each reader has its packet somewhere on it. The owner of the read mutex is the oldest reader, so the first
response is its own.

**Only model-checked.** Everything about `PresentTracking`, that is its `TypeOK` and `CompletionKept` (of which `WaitsForDwmOnce`, the finer form of `WaitsForDwm`, is a part): its completion is recursive as in the
code, and the prover does not handle recursive operators. That each of its handlers is a sequence of `Completion`'s steps is how
`Completion` was written, and is not checked. Liveness
(`AllDelivered`, `BlockedResumes`, `PlaybackCompletes`, `StopEndsOrStuck`, `WaitsEnd`, `CallsEnd`): the prover does not
handle fairness. The violations.

## 5. What the runs found

1. *`tracking_twice`*, `C:2155`. The comment at `C:2150-2154` says that the pattern behind double completion
   has not been identified. One is: a flip is displayed before its Present_Stop, so it stays on its thread with its
   submit sequence reset; the next queue packet of the thread registers it again; the next
   MMIOFlip or DPC completes it again. The guard keeps it from being stored twice (`CompletedOnce`),
   but it can still be changed after it was handed over to the output thread.
2. *`playback_stop`*, `MockPresentMonSession.cpp:210, 217, 248`. A stop clears `session_active_` before it joins the analysis
   thread; from then on nobody empties the completed ring, so an analysis thread that waits for room in it is joined for ever,
   and the action thread with it.
3. *`realtime_idle`*, `RealtimePresentMonSession.cpp:626, 69`. When the last live tracked process exits, the streaming event is reset but the
   providers stay on. The `StopTracking` that follows takes the event for their state and makes no transition: providers, gate and tables stay on
   with nothing tracked.

Noted while modelling, without a run of their own:

* `C:2386`. The early return for a lost present skips `UpdateReadyCount` after the merge loop ended deferrals (`C:2364`). `mReadyCount` then stays 0
  with a settled present at the head, and the next completion of an offline session overwrites it, against the comment at `C:2374`, "block instead of overwriting
  events unless either A) the buffer is full of non-ready events". It takes a present that is lost and frame-typed. With `Deferrals = {"frame"}` and
  5 presents `OfflineKeepsSettled` fails this way; `handover_offline` leaves out `"frame"`.
* `MockPresentMonSession.cpp:210, 248, 420`. The output thread's last round is meant to "call DequeueAnalyzedInfo() at least once after events
  have stopped being collected so that all events are included". `session_active_` is false by then, so it collects nothing: presents that were ready
  when the stop began, or that complete before the analysis thread ends, are never passed on. `AllEventsIncluded` of `PlaybackSession` says what the
  comment does and fails; `NoGaps` says what holds: they are missing at the end, none in between.
* `ShmRing.h:89-90`. The comment at line 93 wants the serial locked "to keep the returned range logically consistent"; the
  first-lap branch loads it twice, so around the end of the first lap a reader can ask for frames that were just overwritten. The model has
  both loads; the properties of `ring_playback` hold in spite of it, and `MarginProtects` is stated for rings that have wrapped.
* `C:2423`. A present that waits for `WaitingForFrameId` is not freed by the deferral limit, against the comment at `C:2412`. The last
  frame-typed present of a process that ends holds up all processes until the ring wraps.
* `C:2775`. An occluded present completes in its Present_Stop, before an earlier present of the
  swap chain that is still on its way. The header (`.hpp:352`) promises order by start time;
  what holds is `DisplayedInOrder`.
* `C:1929`. DWM may schedule the update of a surface twice before it presents. The present is then in `mPresentsWaitingForDWM` twice while
  `PresentInDwmWaitingStruct` (`.hpp:269`) is one flag: `StopTrackingPresent` removes one entry, and when DWM's present completes, "discard all
  but the last one" (`C:2195`) meets the same present twice and discards what was displayed. `WaitsForDwmOnce` and `WaitsForDwm` are
  stated so that they allow for this case and no other.
* `C:1419-1423`. The loop that releases the dependents of a present that waited for frame types stops tracking `p2` again, not `p3`. `C:1636` reads
  as 32 bits the count that `C:1589` reads as 64.
* `IteratorsValid` rests on the presents that complete
  with DWM's being of other processes than DWM's own. If DWM's process itself has a
  present in the list, the loop at `C:2256-2261` can erase the element its iterator stands on.
* `DebugAssert(TimeInPresent == 0)` at `C:2747` follows the assignment at `C:2731`.
* `MockPresentMonSession.cpp:199`. The session is marked active before its threads exist. A stop by the main thread in this window joins nothing
  and destroys the consumer the threads are about to use, against the comment at line 220, "Safe cleanup after threads have
  finished". `StopRaces = TRUE` makes `ConsumerOutlivesThreads` fail this way.
* `MockPresentMonSession.cpp:463`. `started_processes_` is changed without the mutex under which `UpdateTracking` changes it.

## 6. What is not modelled

See the components of `PROJECT.json`. Left out for good: decoding of events, CSV and console
output, vendor headers and telemetry libraries, generated code, the user interface, overlay, injector and installers (I/O and
platform calls), and the floating-point arithmetic of metrics. These are most of the repository's lines: the vendors' API
headers and wrappers, the generated hooks of the injector, and the tests alone are more than half of it. Not modelled yet: see the plan.

## 7. Plan

1. The submit-sequence and token tables in the manner of `Completion`.
2. The rest of tracking: hybrid presents, application timing, PresentFrameType ids.
3. `GpuTrace`; `HistoryRing`'s search by time against a reference definition; the pairing in `UnifiedSwapChain`; the
   recordings of the console program's output thread.
