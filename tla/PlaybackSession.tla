---- MODULE PlaybackSession ----
(***************************************************************************)
(* The service's playback session (PresentMonService/MockPresentMonSession)*)
(* and the actions of clients that drive it.  Four threads take part:      *)
(*                                                                         *)
(*   action    runs the clients' actions one at a time, UpdateTracking and *)
(*             its start and stop of the trace session included;           *)
(*   main      looks every 250 ms whether playback was asked to stop, and  *)
(*             stops it when the service stops;                            *)
(*   analysis  (consumer_thread_) plays the trace file and stores completed*)
(*             presents, waiting when the completed ring is full of ones   *)
(*             that can be taken, and ends the deferrals of the others;    *)
(*   output    (output_thread_) takes the ready presents and pushes them to*)
(*             the frame ring of their process, waiting when a             *)
(*             backpressured ring is full.                                 *)
(*                                                                         *)
(* A present is its position in the trace, where presents are in the order *)
(* of their completion.  The completed ring and its deferrals are those of *)
(* CompletedPresents with backpressure; frame rings are sequences.         *)
(***************************************************************************)
EXTENDS DeferredPresents, Sequences, FiniteSets

CONSTANTS Clients,         \* action sessions
          Pids,            \* processes of the trace
          Trace,           \* the presents of the file, as they complete
          Capacity,        \* slots of a frame ring
          ReadBufferSize,  \* slots of a frame ring kept for readers
          MainStops,       \* the main thread is asked to stop playback
          StopRaces,       \* ... even half way through StartTraceSession
          MaxCalls         \* bound: tracking calls in a behaviour

ASSUME PlaybackAssumption ==
    /\ 0 \notin Pids
    /\ Trace \in Seq([pid : Pids,                    \* ProcessId
                     start : Nat,                   \* PresentStartTime
                     waits : SUBSET DeferralKinds,  \* what it waits for
                     lost : BOOLEAN,                \* IsLost
                     failed : BOOLEAN])             \* PresentFailed
    /\ \A n \in 1 .. Len(Trace) : Trace[n].lost => Trace[n].waits \subseteq {"frame"}
    /\ ReadBufferSize \in Nat \ {0}
    /\ Capacity \in Nat /\ Capacity >= 2 * ReadBufferSize
    /\ MainStops \in BOOLEAN /\ StopRaces \in BOOLEAN
    /\ MaxCalls \in Nat

VARIABLES
    sessionActive,   \* session_active_
    consumer,        \* pm_consumer_ is set
    mutex,           \* who holds session_mutex_ across steps
    continueBuffers, \* PMTraceSession::mContinueProcessingBuffers
    ring,            \* the consumer's ring of completed presents
    waits,           \* what each of its presents still waits for
    lost,            \* those with IsLost
    gaveUp,          \* history: presents overwritten while they waited
    stopRequested,   \* stop_playback_requested_
    quitOutput,      \* quit_output_thread_
    tracked,         \* keys of tracked_pid_live_: in playback none is marked exited
    targets,         \* SessionContext::trackedPids of every client
    segment,         \* frame data segment of every process
    pc,              \* places of the action and main threads
    act,             \* locals of the action under way
    analysis,        \* the analysis thread: its place and the next present to complete
    output,          \* the output thread: its place, quit and presentEvents
    closing,         \* the service is stopping
    forced,          \* the main thread's stop is to clear the tracked processes
    calls            \* tracking calls so far

consumerVars == <<ring, waits, lost, gaveUp>>
sessionVars == <<sessionActive, consumer, mutex, continueBuffers, consumerVars>>
threadVars == <<quitOutput, analysis, output>>
trackVars == <<tracked, targets, segment, act, calls>>
stopVars == <<stopRequested, closing, forced>>
vars == <<sessionVars, threadVars, trackVars, stopVars, pc>>

\* History: since is how many frames were pushed before the process was tracked, or
\* the session began, from the present that was to complete next by then.
NoSegment == [exists |-> FALSE, backpressured |-> FALSE, written |-> <<>>, read |-> 0,
              since |-> 0, from |-> 1]
NewSegment(bp) == [NoSegment EXCEPT !.exists = TRUE, !.backpressured = bp,
                                    !.from = analysis.next]
NoAct == [client |-> 0, pid |-> 0, backpressured |-> FALSE, drop |-> {},
          set |-> {}, serial |-> <<>>, was |-> FALSE, prev |-> {}]

\* GetTrackedPidSet, with the targets given
PidsOf(t) == UNION {t[c] : c \in Clients}

\* A segment lives while a target, the action under way or the output thread
\* holds it; the last of them to let go destroys it.
HeldByOutput == IF output.pc = "push" THEN {Trace[Head(output.batch)].pid} ELSE {}
Release(segs, holders) == [p \in Pids |-> IF p \in holders THEN segs[p] ELSE NoSegment]

Presents == 1 .. Len(Trace)
StartOf == [n \in Presents |-> Trace[n].start]
ProcessOf == [n \in Presents |-> Trace[n].pid]

Init ==
    /\ sessionActive = FALSE
    /\ consumer = FALSE
    /\ mutex = "free"
    /\ continueBuffers = FALSE
    /\ ring = EmptyRing
    /\ waits = [n \in Presents |-> {}]
    /\ lost = {}
    /\ gaveUp = {}
    /\ stopRequested = FALSE
    /\ quitOutput = FALSE
    /\ tracked = {}
    /\ targets = [c \in Clients |-> {}]
    /\ segment = [p \in Pids |-> NoSegment]
    /\ pc = [action |-> "idle", main |-> "idle"]
    /\ act = NoAct
    /\ analysis = [pc |-> "none", next |-> 1]
    /\ output = [pc |-> "none", quit |-> FALSE, batch |-> <<>>]
    /\ closing = FALSE
    /\ forced = FALSE
    /\ calls = 0

Goto(t, place) == pc' = [pc EXCEPT ![t] = place]

----
(***************************************************************************)
(* Client actions.  A refused call changes nothing and is left out.        *)
(***************************************************************************)

Call == pc.action = "idle" /\ calls < MaxCalls /\ calls' = calls + 1

\* RegisterTarget finds or creates the segment before tracking is updated.
StartTracking(c, p, bp) ==
    /\ Call
    /\ p \notin targets[c]
    /\ ~(bp /\ p \in PidsOf(targets))
    /\ segment[p].exists => segment[p].backpressured = bp
    /\ segment' = [segment EXCEPT ![p] = IF @.exists THEN @ ELSE NewSegment(bp)]
    /\ act' = [NoAct EXCEPT !.client = c, !.pid = p, !.backpressured = bp,
                            !.set = PidsOf(targets) \cup {p}]
    /\ Goto("action", "snapshot")
    /\ UNCHANGED <<sessionVars, threadVars, tracked, targets, stopVars>>

\* StopTracking of one process and Dispose of a session begin alike: the
\* write serials are loaded to release what is backpressured.
BeginRelease(c, ps) ==
    /\ Call
    /\ act' = [NoAct EXCEPT !.client = c, !.drop = ps,
                            !.serial = [p \in ps |-> Len(segment[p].written)]]
    /\ Goto("action", "release")
    /\ UNCHANGED <<sessionVars, threadVars, tracked, targets, segment, stopVars>>

StopTracking(c, p) == p \in targets[c] /\ BeginRelease(c, {p})
Dispose(c) == BeginRelease(c, targets[c])

\* ReleaseBackpressure stores the loaded serials; the targets are erased.
ReleaseBackpressure ==
    /\ pc.action = "release"
    /\ LET c == act.client
           kept == [targets EXCEPT ![c] = @ \ act.drop]
           freed == [p \in Pids |->
                        IF p \in act.drop /\ segment[p].backpressured
                        THEN [segment[p] EXCEPT !.read = act.serial[p]]
                        ELSE segment[p]]
       IN  /\ targets' = kept
           /\ segment' = Release(freed, PidsOf(kept) \cup HeldByOutput)
           /\ act' = [act EXCEPT !.set = PidsOf(kept), !.serial = <<>>]
    /\ Goto("action", "snapshot")
    /\ UNCHANGED <<sessionVars, threadVars, tracked, calls, stopVars>>

\* A client reports how far it read a backpressured ring.
ReportFrameReadProgress(c, p) ==
    /\ pc.action = "idle"
    /\ p \in targets[c] /\ segment[p].backpressured
    /\ \E n \in segment[p].read + 1 .. Len(segment[p].written) :
          segment' = [segment EXCEPT ![p].read = n]
    /\ UNCHANGED <<sessionVars, threadVars, tracked, targets, act, calls, stopVars, pc>>

\* The flag is never taken back.
StopPlayback ==
    /\ MainStops
    /\ pc.action = "idle"
    /\ ~stopRequested
    /\ stopRequested' = TRUE
    /\ UNCHANGED <<sessionVars, threadVars, trackVars, closing, forced, pc>>

----
(***************************************************************************)
(* UpdateTracking, on the action thread.                                   *)
(***************************************************************************)

\* wasActive and previousState
Snapshot ==
    /\ pc.action = "snapshot"
    /\ act' = [act EXCEPT !.was = tracked # {}, !.prev = tracked]
    /\ Goto("action", "sync")
    /\ UNCHANGED <<sessionVars, threadVars, tracked, targets, segment, calls, stopVars>>

\* Mutant: processes that are no longer wanted are erased, new ones not added.
SyncErasesOnly ==
    /\ pc.action = "sync"
    /\ tracked' = tracked \cap act.set
    /\ Goto("action", "decide")
    /\ UNCHANGED <<sessionVars, threadVars, targets, segment, act, calls, stopVars>>

SyncTrackedPidState ==
    /\ pc.action = "sync"
    /\ tracked' = act.set
    /\ segment' = [p \in Pids |-> IF p \in act.set \ tracked
                                  THEN [segment[p] EXCEPT !.since = Len(segment[p].written),
                                                          !.from = analysis.next]
                                  ELSE segment[p]]
    /\ Goto("action", "decide")
    /\ UNCHANGED <<sessionVars, threadVars, targets, act, calls, stopVars>>

Decide ==
    /\ pc.action = "decide"
    /\ Goto("action", CASE tracked = {} -> "stop"
                        [] tracked # {} /\ (~act.was \/ ~sessionActive) -> "start"
                        [] OTHER -> "finish")
    /\ UNCHANGED <<sessionVars, threadVars, trackVars, stopVars>>

\* Mutant: the roll-back forgets the processes that were tracked before.
StartFailsForgets ==
    /\ pc.action = "start"
    /\ mutex = "free"
    /\ tracked' = {}
    /\ segment' = Release(segment, PidsOf(targets) \cup HeldByOutput)
    /\ act' = NoAct
    /\ Goto("action", "idle")
    /\ UNCHANGED <<sessionVars, threadVars, targets, calls, stopVars>>

\* StartTraceSession refuses while an earlier consumer is left, or the trace
\* cannot be opened: tracking is rolled back and the call fails.
StartFails ==
    /\ pc.action = "start"
    /\ mutex = "free"
    /\ tracked' = act.prev
    /\ segment' = Release(segment, PidsOf(targets) \cup HeldByOutput)
    /\ act' = NoAct
    /\ Goto("action", "idle")
    /\ UNCHANGED <<sessionVars, threadVars, targets, calls, stopVars>>

\* A new PMTraceConsumer, or none
ResetConsumer ==
    /\ ring' = EmptyRing
    /\ waits' = [n \in Presents |-> {}]
    /\ lost' = {}
    /\ gaveUp' = {}

\* The consumer is created, the file opened and the session marked active.
OpenSession ==
    /\ pc.action = "start"
    /\ mutex = "free"
    /\ consumer' = TRUE
    /\ ResetConsumer
    /\ continueBuffers' = TRUE
    /\ analysis' = [analysis EXCEPT !.next = 1]
    /\ segment' = [p \in Pids |-> [segment[p] EXCEPT !.since = Len(segment[p].written),
                                                   !.from = 1]]
    /\ sessionActive' = TRUE
    /\ mutex' = "action"
    /\ Goto("action", "startConsumer")
    /\ UNCHANGED <<quitOutput, output, tracked, targets, act, calls, stopVars>>

\* Mutant: an earlier consumer is replaced.
StartTraceSessionReplaces == OpenSession

StartTraceSession == ~consumer /\ OpenSession

\* The threads are started after that.
StartConsumerThread ==
    /\ pc.action = "startConsumer"
    /\ analysis' = [analysis EXCEPT !.pc = "events"]
    /\ Goto("action", "startOutput")
    /\ UNCHANGED <<sessionVars, quitOutput, output, trackVars, stopVars>>

StartOutputThread ==
    /\ pc.action = "startOutput"
    /\ quitOutput' = FALSE
    /\ output' = [pc |-> "top", quit |-> FALSE, batch |-> <<>>]
    /\ mutex' = "free"
    /\ Goto("action", "finish")
    /\ UNCHANGED <<sessionActive, consumer, continueBuffers, consumerVars, analysis,
                   trackVars, stopVars>>

\* The first serial of GetSerialRange of a ring that w frames were pushed to
FirstSerial(w) == IF w < Capacity THEN 0 ELSE w - Capacity + ReadBufferSize

\* The rest of StartTracking: the read cursor is seeded, the target kept.
FinishStart ==
    /\ pc.action = "finish"
    /\ act.drop = {} /\ act.pid \in Pids
    /\ LET p == act.pid
       IN  /\ segment' = IF act.backpressured
                         THEN [segment EXCEPT ![p].read = FirstSerial(Len(segment[p].written))]
                         ELSE segment
           /\ targets' = [targets EXCEPT ![act.client] = @ \cup {p}]
    /\ act' = NoAct
    /\ Goto("action", "idle")
    /\ UNCHANGED <<sessionVars, threadVars, tracked, calls, stopVars>>

FinishStop ==
    /\ pc.action = "finish"
    /\ act.pid \notin Pids
    /\ act' = NoAct
    /\ Goto("action", "idle")
    /\ UNCHANGED <<sessionVars, threadVars, tracked, targets, segment, calls, stopVars>>

UpdateTracking == \/ Snapshot \/ SyncTrackedPidState \/ Decide
                  \/ StartFails \/ StartTraceSession
                  \/ StartConsumerThread \/ StartOutputThread
                  \/ FinishStart \/ FinishStop

----
(***************************************************************************)
(* StopTraceSession, on the action thread (no process is tracked) or on the*)
(* main thread (playback or the service is to stop).                       *)
(***************************************************************************)

\* StartTraceSession is between its store to session_active_ and its end.
Starting == pc.action \in {"startConsumer", "startOutput"}

\* session_active_.exchange(false): only one thread goes on.
StopBegins(t) ==
    /\ pc[t] = "stop"
    /\ StopRaces \/ ~Starting
    /\ sessionActive' = FALSE
    /\ Goto(t, IF sessionActive THEN "close" ELSE "finish")
    /\ UNCHANGED <<consumer, mutex, continueBuffers, consumerVars, threadVars, trackVars,
                   stopVars>>

\* PMTraceSession::Stop: the rest of the file is cancelled at the next buffer.
CloseTrace(t) ==
    /\ pc[t] = "close"
    /\ continueBuffers' = FALSE
    /\ Goto(t, "joinConsumer")
    /\ UNCHANGED <<sessionActive, consumer, mutex, consumerVars, threadVars, trackVars,
                   stopVars>>

\* A thread object that is not joinable is not waited for.
WaitForConsumerThreadToExit(t) ==
    /\ pc[t] = "joinConsumer"
    /\ analysis.pc \in {"none", "ended"}
    /\ analysis' = [analysis EXCEPT !.pc = "none"]
    /\ Goto(t, "stopOutput")
    /\ UNCHANGED <<sessionVars, quitOutput, output, trackVars, stopVars>>

\* Mutant: the output thread is not told to quit.
StopOutputThreadSilent(t) ==
    /\ pc[t] = "stopOutput"
    /\ Goto(t, IF output.pc = "none" THEN "cleanup" ELSE "joinOutput")
    /\ UNCHANGED <<sessionVars, threadVars, trackVars, stopVars>>

StopOutputThread(t) ==
    /\ pc[t] = "stopOutput"
    /\ quitOutput' = IF output.pc = "none" THEN quitOutput ELSE TRUE
    /\ Goto(t, IF output.pc = "none" THEN "cleanup" ELSE "joinOutput")
    /\ UNCHANGED <<sessionVars, analysis, output, trackVars, stopVars>>

\* Mutant: the output thread is told to quit but not waited for.
JoinOutputNot(t) ==
    /\ pc[t] = "joinOutput"
    /\ Goto(t, "cleanup")
    /\ UNCHANGED <<sessionVars, threadVars, trackVars, stopVars>>

JoinOutput(t) ==
    /\ pc[t] = "joinOutput"
    /\ output.pc \in {"none", "ended"}
    /\ output' = [output EXCEPT !.pc = "none"]
    /\ Goto(t, "cleanup")
    /\ UNCHANGED <<sessionVars, quitOutput, analysis, trackVars, stopVars>>

CleanUp(t) ==
    /\ pc[t] = "cleanup"
    /\ mutex = "free"
    /\ consumer' = FALSE
    /\ ResetConsumer
    /\ Goto(t, "finish")
    /\ UNCHANGED <<sessionActive, mutex, continueBuffers, threadVars, trackVars, stopVars>>

StopTraceSession(t) == \/ StopBegins(t) \/ CloseTrace(t) \/ WaitForConsumerThreadToExit(t)
                       \/ StopOutputThread(t) \/ JoinOutput(t) \/ CleanUp(t)

----
\* The main thread: CheckTraceSessions.

PlaybackToStop == sessionActive /\ stopRequested

CheckTraceSessions ==
    /\ pc.main = "idle"
    /\ PlaybackToStop
    /\ forced' = FALSE
    /\ Goto("main", "stop")
    /\ UNCHANGED <<sessionVars, threadVars, trackVars, stopRequested, closing>>

\* The service's stop event ends the loop: CheckTraceSessions(true), which stops
\* and no more if playback was to stop anyway.
StopTraceSessions ==
    /\ MainStops
    /\ pc.main = "idle"
    /\ closing' = TRUE
    /\ forced' = ~PlaybackToStop
    /\ Goto("main", "stop")
    /\ UNCHANGED <<sessionVars, threadVars, trackVars, stopRequested>>

MainReturns ==
    /\ pc.main = "finish"
    /\ tracked' = IF forced THEN {} ELSE tracked
    /\ Goto("main", CASE ~closing -> "idle"
                      [] closing /\ pc.action # "gone" -> "destroy"
                      [] OTHER -> "gone")
    /\ UNCHANGED <<sessionVars, threadVars, targets, segment, act, calls, stopVars>>

\* ~ActionServer joins the action thread and drops the clients' sessions with
\* their segments; ~PresentMon then calls CheckTraceSessions(true) once more.
DestroyPresentMon ==
    /\ pc.main = "destroy" /\ pc.action = "idle"
    /\ targets' = [c \in Clients |-> {}]
    /\ segment' = Release(segment, HeldByOutput)
    /\ forced' = ~PlaybackToStop
    /\ pc' = [action |-> "gone", main |-> "stop"]
    /\ UNCHANGED <<sessionVars, threadVars, tracked, act, calls, stopRequested, closing>>

Main == CheckTraceSessions \/ MainReturns \/ DestroyPresentMon \/ StopTraceSession("main")

----
(***************************************************************************)
(* The analysis thread: ProcessTrace calls back for every event of the     *)
(* file.  CompletePresent comes to the ring with the deferrals w and the   *)
(* lost presents l that present n leaves when it has merged.               *)
(***************************************************************************)

Advance == analysis' = [pc |-> "events", next |-> analysis.next + 1]

Store(r, n, w, l) ==
    LET s == Settle(r, w, l, StartOf, n)
    IN /\ ring' = s.ring
       /\ waits' = s.waits
       /\ lost' = s.lost
       /\ Advance

AppendPresent(n, w, l) ==
    /\ ring.count < RingSize
    /\ Store(AppendCompleted(ring, n), n, w, l)
    /\ UNCHANGED gaveUp

\* The ring has presents that can be taken: wait on mCompletedRingCondition.
WaitForRoom(n, w, l) ==
    /\ ring.count = RingSize
    /\ ring.ready # 0
    /\ waits' = w
    /\ lost' = l
    /\ analysis' = [analysis EXCEPT !.pc = "blocked"]
    /\ UNCHANGED <<ring, gaveUp>>

\* The ring is full of deferred presents: a lost one does not drive them out ...
RefusePresent(n, w, l) ==
    /\ ring.count = RingSize
    /\ ring.ready = 0
    /\ n \in l /\ Entry(ring, 0) \notin l
    /\ waits' = w
    /\ lost' = l
    /\ Advance
    /\ UNCHANGED <<ring, gaveUp>>

Overwrite(n, w, l) ==
    LET oldest == Entry(ring, 0)
    IN /\ ring.count = RingSize
       /\ ~(n \in l /\ oldest \notin l)
       /\ Store(OverwriteOldest(ring, n), n, w, l)
       /\ gaveUp' = IF waits[oldest] = {} THEN gaveUp ELSE gaveUp \cup {oldest}

\* Mutant: the ring is overwritten as in a realtime session.
OverwriteAlways(n, w, l) == Overwrite(n, w, l)

\* ... and otherwise the oldest of them goes.
OverwritePresent(n, w, l) == ring.ready = 0 /\ Overwrite(n, w, l)

CompletePresent ==
    /\ analysis.pc = "events"
    /\ analysis.next \in Presents
    /\ LET n == analysis.next
           w == MergeFrameId(ring, [waits EXCEPT ![n] = Trace[n].waits], ProcessOf, n)
           l == IF Trace[n].lost THEN lost \cup {n} ELSE lost
       IN \/ AppendPresent(n, w, l)
          \/ WaitForRoom(n, w, l)
          \/ RefusePresent(n, w, l)
          \/ OverwritePresent(n, w, l)
    /\ UNCHANGED <<sessionActive, consumer, mutex, continueBuffers, quitOutput, output,
                   trackVars, stopVars, pc>>

\* Mutant: the ring is not waited for.
UnblockEarly ==
    /\ analysis.pc = "blocked"
    /\ Store(AppendCompleted(ring, analysis.next), analysis.next, waits, lost)
    /\ UNCHANGED <<sessionActive, consumer, mutex, continueBuffers, gaveUp, quitOutput, output,
                   trackVars, stopVars, pc>>

Unblock ==
    /\ analysis.pc = "blocked"
    /\ ring.count < RingSize
    /\ Store(AppendCompleted(ring, analysis.next), analysis.next, waits, lost)
    /\ UNCHANGED <<sessionActive, consumer, mutex, continueBuffers, gaveUp, quitOutput, output,
                   trackVars, stopVars, pc>>

\* Later events end the deferral of a completed present.
EndDeferral(n, kind) ==
    LET w == [waits EXCEPT ![n] = @ \ {kind}]
    IN /\ analysis.pc = "events"
       /\ kind \in waits[n]
       /\ waits' = w
       /\ ring' = UpdateReadyCount(ring, Deferred(w))
       /\ UNCHANGED <<sessionActive, consumer, mutex, continueBuffers, gaveUp, threadVars,
                      trackVars, stopVars, pc>>

PresentStop(n) == EndDeferral(n, "stop") /\ UNCHANGED lost

\* Of the completed presents only those that wait for their Present_Stop can
\* still be found and lost (ThreadsLead of Completion).
RemoveLostPresent(n) == EndDeferral(n, "stop") /\ lost' = lost \cup {n}

FlipFrameTypesOver(n) == EndDeferral(n, "flip") /\ UNCHANGED lost

\* ProcessTrace returns at the end of the file, or at the end of a buffer once
\* processing is cancelled; buffers end anywhere between events.
ProcessTraceReturns ==
    /\ analysis.pc = "events"
    /\ analysis.next > Len(Trace) \/ ~continueBuffers
    /\ analysis' = [analysis EXCEPT !.pc = "ended"]
    /\ UNCHANGED <<sessionVars, quitOutput, output, trackVars, stopVars, pc>>

Analysis == \/ CompletePresent \/ Unblock \/ ProcessTraceReturns
            \/ \E n \in Presents : PresentStop(n) \/ RemoveLostPresent(n) \/ FlipFrameTypesOver(n)

----
\* The output thread: the loop of Output.

ReadQuit ==
    /\ output.pc = "top"
    /\ output' = [output EXCEPT !.pc = "check", !.quit = quitOutput]
    /\ UNCHANGED <<sessionVars, quitOutput, analysis, trackVars, stopVars, pc>>

\* DequeueAnalyzedInfo takes nothing once the session is not active.
CheckActive ==
    /\ output.pc = "check"
    /\ output' = [output EXCEPT !.pc = IF sessionActive THEN "take" ELSE "add"]
    /\ UNCHANGED <<sessionVars, quitOutput, analysis, trackVars, stopVars, pc>>

\* The ready prefix of the ring
ReadyPresents == [i \in 1 .. ring.ready |-> Entry(ring, i - 1)]

DequeuePresentEvents ==
    /\ output.pc = "take"
    /\ output' = [output EXCEPT !.pc = "add", !.batch = ReadyPresents]
    /\ ring' = TakeReady(ring)
    /\ UNCHANGED <<sessionActive, consumer, mutex, continueBuffers, waits, lost, gaveUp,
                   quitOutput, analysis, trackVars, stopVars, pc>>

\* AddPresents skips lost and failed presents and those of other processes;
\* Broadcast looks the segment up.
AddPresent ==
    /\ output.pc = "add"
    /\ output.batch # <<>>
    /\ LET n == Head(output.batch)
           p == Trace[n].pid
       IN  output' = IF n \notin lost /\ ~Trace[n].failed /\ p \in tracked /\ segment[p].exists
                     THEN [output EXCEPT !.pc = "push"]
                     ELSE [output EXCEPT !.batch = Tail(@)]
    /\ UNCHANGED <<sessionVars, quitOutput, analysis, trackVars, stopVars, pc>>

\* Mutant: one slot less.
HasRoomTight(s) == s.backpressured => Len(s.written) + 1 < s.read + Capacity - ReadBufferSize

HasRoom(s) == s.backpressured => Len(s.written) < s.read + Capacity - ReadBufferSize

\* Push, without a timeout; then the output thread lets go of the segment.
Broadcast ==
    /\ output.pc = "push"
    /\ LET p == Trace[Head(output.batch)].pid
           holders == PidsOf(targets) \cup (IF act.pid \in Pids THEN {act.pid} ELSE {})
       IN  /\ HasRoom(segment[p])
           /\ segment' = Release([segment EXCEPT ![p].written = Append(@, Head(output.batch))],
                                 holders)
    /\ output' = [output EXCEPT !.pc = "add", !.batch = Tail(@)]
    /\ UNCHANGED <<sessionVars, quitOutput, analysis, tracked, targets, act, calls,
                   stopVars, pc>>

EndRound ==
    /\ output.pc = "add"
    /\ output.batch = <<>>
    /\ output' = [output EXCEPT !.pc = IF output.quit THEN "ended" ELSE "top"]
    /\ UNCHANGED <<sessionVars, quitOutput, analysis, trackVars, stopVars, pc>>

Output == ReadQuit \/ CheckActive \/ DequeuePresentEvents \/ AddPresent \/ Broadcast \/ EndRound

----
\* The action thread waits in StopTraceSession like the main thread.
Action == UpdateTracking \/ ReleaseBackpressure \/ StopTraceSession("action")

Report == \E c \in Clients, p \in Pids : ReportFrameReadProgress(c, p)

ClientCall == \/ \E c \in Clients, p \in Pids, bp \in BOOLEAN : StartTracking(c, p, bp)
              \/ \E c \in Clients, p \in Pids : StopTracking(c, p)
              \/ \E c \in Clients : Dispose(c)
              \/ StopPlayback \/ StopTraceSessions

Next == ClientCall \/ Report \/ Action \/ Main \/ Analysis \/ Output

Spec == Init /\ [][Next]_vars

\* The threads keep running and a client that tracks keeps reading.
Fairness ==
    /\ WF_vars(Report) /\ WF_vars(Action) /\ WF_vars(Main)
    /\ WF_vars(Analysis) /\ WF_vars(Output)

FairSpec == Spec /\ Fairness

----
Places == {"idle", "release", "snapshot", "sync", "decide", "start", "startConsumer",
           "startOutput", "finish", "stop", "close", "joinConsumer", "stopOutput",
           "joinOutput", "cleanup", "destroy", "gone"}

\* The variables keep their types, and a ring never holds more than its size nor
\* more ready presents than presents.
TypeOK ==
    /\ sessionActive \in BOOLEAN /\ consumer \in BOOLEAN
    /\ mutex \in {"free", "action"}
    /\ ring.slots \in [0 .. RingSize - 1 -> 0 .. Len(Trace)]
    /\ ring.index \in 0 .. RingSize - 1 /\ ring.count \in 0 .. RingSize
    /\ ring.ready \in 0 .. ring.count
    /\ waits \in [Presents -> SUBSET DeferralKinds]
    /\ lost \subseteq Presents /\ gaveUp \subseteq Presents
    /\ continueBuffers \in BOOLEAN /\ stopRequested \in BOOLEAN /\ quitOutput \in BOOLEAN
    /\ closing \in BOOLEAN /\ forced \in BOOLEAN
    /\ tracked \in SUBSET Pids
    /\ targets \in [Clients -> SUBSET Pids]
    /\ \A p \in Pids : segment[p].written \in Seq(Presents) /\ segment[p].read \in Nat
    /\ pc \in [{"action", "main"} -> Places]
    /\ analysis.pc \in {"none", "events", "blocked", "ended"}
    /\ output.pc \in {"none", "top", "check", "take", "add", "push", "ended"}
    /\ calls \in 0 .. MaxCalls

AnalysisRuns == analysis.pc \in {"events", "blocked"}
OutputRuns == output.pc \notin {"none", "ended"}

\* StopTraceSession, "Safe cleanup after threads have finished": pm_consumer_ is
\* there for as long as the analysis or the output thread, which use it without
\* a lock, is running.
ConsumerOutlivesThreads == AnalysisRuns \/ OutputRuns => consumer

\* A session's threads are only started when those of the one before were
\* joined: assigning to a joinable std::thread terminates the service.
ThreadsJoined ==
    /\ pc.action = "startConsumer" => analysis.pc = "none"
    /\ Starting => output.pc = "none"

\* A session's threads end before what they use, and before the next session begins.
ThreadsEndFirst == ConsumerOutlivesThreads /\ ThreadsJoined

\* A process that some client tracks is tracked by the session whenever no
\* action is under way and the service is not stopping, whatever calls failed and were rolled back.
TargetsTracked == pc.action = "idle" /\ ~closing => PidsOf(targets) \subseteq tracked

\* Completed presents that are still to be pushed or skipped
Underway == {output.batch[i] : i \in 1 .. Len(output.batch)}
                \cup {Entry(ring, i) : i \in 0 .. ring.count - 1}

\* Presents that are not to be frames: lost, failed, or overwritten while waiting
Excused == lost \cup gaveUp \cup {n \in Presents : Trace[n].failed}

\* Frames of segment s since its process is tracked in this session
Fresh(s) == s.since + 1 .. Len(s.written)

\* Backpressured playback loses nothing that it need not lose: while a process is
\* tracked, the frames of its ring are in the order in which they completed, each
\* once, and a present that it completed is there, still on its way, lost, failed, or
\* was driven out of a ring full of deferred presents while deferred itself.
NoGaps ==
    ~closing /\ consumer =>
      \A p \in tracked : segment[p].backpressured =>
        LET s == segment[p]
        IN /\ \A i, j \in Fresh(s) : i < j => s.written[i] < s.written[j]
           /\ \A n \in s.from .. analysis.next - 1 :
                Trace[n].pid = p =>
                    \/ \E i \in Fresh(s) : s.written[i] = n
                    \/ n \in Underway \cup Excused

\* If a session stays up, the file is analysed to its end, whatever presents stay
\* deferred, and every present that could be taken is passed on.
PlaybackCompletes ==
    <>[]sessionActive => <>(/\ analysis = [pc |-> "ended", next |-> Len(Trace) + 1]
                            /\ ring.ready = 0 /\ output.batch = <<>>)

\* Output, "so that all events are included": the output thread does not end with
\* presents of tracked processes left that it could take.  It does: see the README.
AllEventsIncluded ==
    output.pc = "ended" =>
        \A i \in 0 .. ring.ready - 1 : Trace[Entry(ring, i)].pid \notin tracked

InStop(t) == pc[t] \in {"stop", "close", "joinConsumer", "stopOutput", "joinOutput", "cleanup"}

\* The two ways a stop can wait for ever: for the analysis thread, which waits
\* for room in a completed ring that nobody empties once the session is not
\* active, or for the output thread, which waits for room in a frame ring.
AnalysisStuck == analysis.pc = "blocked" /\ ring.count = RingSize /\ ~sessionActive
OutputStuck == output.pc = "push" /\ ~HasRoom(segment[Trace[Head(output.batch)].pid])

\* StopTraceSession returns, or one of those two waits never ends.
StopEndsOrStuck ==
    \A t \in {"action", "main"} :
        InStop(t) ~> (~InStop(t) \/ []AnalysisStuck \/ []OutputStuck)

\* ReleaseBackpressure, "releases any blocked producer": a stop that found the
\* producers waiting for the client ends.
StopEnds == \A t \in {"action", "main"} : InStop(t) ~> ~InStop(t)
====
