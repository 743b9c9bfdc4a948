---- MODULE RealtimeSession ----
(***************************************************************************)
(* The service's realtime session (RealtimePresentMonSession) and the gate *)
(* by which PMTraceConsumer keeps event handlers away while its tables are *)
(* cleared (EventProcessingScope, ResetPresentTrackingData).               *)
(*                                                                         *)
(* Four threads: the action thread runs one client call at a time, which   *)
(* ends in UpdateTracking; the ETW thread handles events; the output thread*)
(* takes what was analysed and notes which processes exited; the main      *)
(* thread stops the session when the service stops and, once the action    *)
(* server is gone, again in ~PresentMon.                                   *)
(*                                                                         *)
(* An event is the exit of a process or, as 0, anything about presents.    *)
(* Whether a present started after some exit is left open.                 *)
(***************************************************************************)
EXTENDS Integers, Sequences

CONSTANTS Pids,       \* processes that may be tracked
          Mortal,     \* those that may exit
          MaxCalls,   \* bound: tracking calls in a behaviour
          MaxEvents   \* bound: present events in a behaviour

ASSUME RealtimeAssumption ==
    /\ 0 \notin Pids
    /\ Mortal \subseteq Pids
    /\ MaxCalls \in Nat
    /\ MaxEvents \in Nat

VARIABLES
    sessionActive,  \* session_active_
    consumer,       \* pm_consumer_ is set
    open,           \* the ETW session and its trace are open
    quitOutput,     \* quit_output_thread_
    mutex,          \* who holds session_mutex_ across steps
    providers,      \* the session's providers are enabled
    streaming,      \* evtStreamingStarted_
    enabled,        \* mEventProcessingEnabled
    inFlight,       \* mEventProcessingInFlight
    dirty,          \* a handler used the tables since they were cleared
    skipped,        \* history: the last reset was given up
    processEvents,  \* mProcessEvents
    presents,       \* mCompletedPresents holds something
    live,           \* tracked_pid_live_
    targets,        \* SessionContext::trackedPids
    running,        \* processes that have not exited
    logged,         \* exit events in the buffers of the ETW session
    pc,             \* places of the action and main threads
    act,            \* locals of the call under way
    etw,            \* the ETW thread: its place and the event it handles
    output,         \* the output thread: its place and locals
    calls, events   \* counts for the bounds

sessionVars == <<sessionActive, consumer, open, quitOutput>>
tableVars == <<dirty, skipped, processEvents, presents>>
osVars == <<running, logged, events>>
vars == <<sessionVars, mutex, providers, streaming, enabled, inFlight, tableVars, live,
          targets, osVars, pc, act, etw, output, calls>>

NoAct == [pid |-> 0, set |-> {}, prev |-> <<>>, active |-> FALSE, failed |-> FALSE]
Untracked == "untracked"
NewEtw == [pc |-> "idle", event |-> 0]
NewOutput == [pc |-> "top", quit |-> FALSE, exits |-> <<>>, presents |-> FALSE,
              terminated |-> <<>>]

\* The constructor has started the session; its providers are off.
Init ==
    /\ sessionActive = TRUE /\ consumer = TRUE /\ open = TRUE
    /\ quitOutput = FALSE
    /\ mutex = "free"
    /\ providers = FALSE /\ streaming = FALSE
    /\ enabled = TRUE /\ inFlight = 0
    /\ dirty = FALSE /\ skipped = FALSE
    /\ processEvents = <<>> /\ presents = FALSE
    /\ live = [p \in Pids |-> Untracked]
    /\ targets = {}
    /\ running = Pids /\ logged = <<>>
    /\ pc = [action |-> "idle", main |-> "idle"]
    /\ act = NoAct
    /\ etw = NewEtw
    /\ output = NewOutput
    /\ calls = 0 /\ events = 0

At(place) == pc.action = place
HasLiveTargets == \E p \in Pids : live[p] = "live"

----
(***************************************************************************)
(* Client calls, on the action thread, until UpdateTracking.  A call that  *)
(* is refused changes nothing and is left out.                             *)
(***************************************************************************)

\* What most steps of the action thread leave alone
ActionStep(place) ==
    /\ pc' = [pc EXCEPT !.action = place]
    /\ UNCHANGED <<sessionVars, inFlight, osVars, etw, output>>

Call ==
    /\ At("idle") /\ calls < MaxCalls
    /\ calls' = calls + 1
    /\ ActionStep("active")
    /\ UNCHANGED <<mutex, providers, streaming, enabled, tableVars, live>>

StartTracking(p) ==
    /\ Call
    /\ p \in running \ targets
    /\ act' = [NoAct EXCEPT !.pid = p, !.set = targets \cup {p}]
    /\ UNCHANGED targets

\* StopTracking of one process, or Dispose of a session with all of them
StopTracking(ps) ==
    /\ Call
    /\ targets' = targets \ ps
    /\ act' = [NoAct EXCEPT !.set = targets \ ps]

----
(***************************************************************************)
(* UpdateTracking.                                                         *)
(***************************************************************************)

CheckActive ==
    /\ At("active")
    /\ ActionStep(IF sessionActive THEN "lock" ELSE "start")
    /\ UNCHANGED <<mutex, providers, streaming, enabled, tableVars, live, targets, act, calls>>

\* StartEtwSession refuses while the consumer of a session that is being
\* stopped is left, and fails if the ETW session cannot be started.
StartFails ==
    /\ At("start")
    /\ mutex = "free"
    /\ act' = NoAct
    /\ ActionStep("idle")
    /\ UNCHANGED <<mutex, providers, streaming, enabled, tableVars, live, targets, calls>>

\* A new consumer, a new ETW session and new threads.  No thread is there to
\* see the steps between: the main thread's stop is over, and its next one
\* waits for the action thread.
StartEtwSession ==
    /\ At("start")
    /\ mutex = "free"
    /\ ~consumer
    /\ sessionActive' = TRUE /\ consumer' = TRUE /\ open' = TRUE
    /\ quitOutput' = FALSE
    /\ enabled' = TRUE /\ inFlight' = 0
    /\ dirty' = FALSE /\ skipped' = FALSE
    /\ processEvents' = <<>> /\ presents' = FALSE
    /\ logged' = <<>>
    /\ etw' = NewEtw
    /\ output' = NewOutput
    /\ pc' = [pc EXCEPT !.action = "lock"]
    /\ UNCHANGED <<mutex, providers, streaming, live, targets, running, events, act, calls>>

\* session_mutex_ is held from here to the end; previousState
Snapshot ==
    /\ At("lock")
    /\ mutex = "free"
    /\ mutex' = "action"
    /\ act' = [act EXCEPT !.prev = live]
    /\ ActionStep("sync")
    /\ UNCHANGED <<providers, streaming, enabled, tableVars, live, targets, calls>>

\* A process that is tracked already keeps its mark.
SyncTrackedPidState ==
    /\ At("sync")
    /\ live' = [p \in Pids |-> IF p \notin act.set THEN Untracked
                               ELSE IF live[p] = Untracked THEN "live" ELSE live[p]]
    /\ ActionStep("decide")
    /\ UNCHANGED <<mutex, providers, streaming, enabled, tableVars, targets, act, calls>>

\* isActive
Decide ==
    /\ At("decide")
    /\ act' = [act EXCEPT !.active = HasLiveTargets]
    /\ ActionStep("branch")
    /\ UNCHANGED <<mutex, providers, streaming, enabled, tableVars, live, targets, calls>>

\* providersEnabled: the event stands for the providers.  The start transition
\* clears the tables first, with the gate closed.
Branch ==
    /\ At("branch")
    /\ ActionStep(CASE ~act.active /\ streaming -> "gate"
                    [] act.active /\ ~streaming -> IF consumer THEN "reset" ELSE "enable"
                    [] OTHER -> "none")
    /\ UNCHANGED <<mutex, providers, streaming, enabled, tableVars, live, targets, act, calls>>

OpenGate ==
    /\ At("open")
    /\ enabled' = TRUE
    /\ ActionStep("enable")
    /\ UNCHANGED <<mutex, providers, streaming, tableVars, live, targets, act, calls>>

\* Mutant: the status is not looked at.
StartProvidersUnchecked ==
    /\ At("enable")
    /\ providers' \in {providers, open}
    /\ ActionStep("signal")
    /\ UNCHANGED <<mutex, streaming, enabled, tableVars, live, targets, act, calls>>

\* All providers are enabled, or an error stops half way.  A closed session
\* refuses.
StartProviders ==
    /\ At("enable")
    /\ \/ /\ open
          /\ providers' = TRUE
          /\ ActionStep("signal")
          /\ UNCHANGED act
       \/ /\ providers' \in {providers, open}
          /\ act' = [act EXCEPT !.failed = TRUE]
          /\ ActionStep("gate")
    /\ UNCHANGED <<mutex, streaming, enabled, tableVars, live, targets, calls>>

\* StopProvidersAndResetConsumer: the gate is closed, ...
CloseGate ==
    /\ At("gate")
    /\ enabled' = (enabled /\ ~consumer)
    /\ ActionStep("providers")
    /\ UNCHANGED <<mutex, providers, streaming, tableVars, live, targets, act, calls>>

\* ... the providers disabled, the tables cleared (below) and the event reset.
StopProviders ==
    /\ At("providers")
    /\ providers' = FALSE
    /\ ActionStep(IF consumer THEN "reset" ELSE "event")
    /\ UNCHANGED <<mutex, streaming, enabled, tableVars, live, targets, act, calls>>

\* UpdateTracking returns; StartTracking keeps its target if it succeeded.
Return(succeeded) ==
    /\ mutex' = "free"
    /\ targets' = IF succeeded /\ act.pid # 0 THEN targets \cup {act.pid} ELSE targets
    /\ act' = NoAct
    /\ ActionStep("idle")
    /\ UNCHANGED <<providers, enabled, tableVars, calls>>

SetStreaming ==
    /\ At("signal")
    /\ streaming' = TRUE
    /\ Return(TRUE)
    /\ UNCHANGED live

\* A start that failed puts the tracked processes back.
ResetStreaming ==
    /\ At("event")
    /\ streaming' = FALSE
    /\ live' = IF act.failed THEN act.prev ELSE live
    /\ Return(~act.failed)

KeepStreaming ==
    /\ At("none")
    /\ Return(TRUE)
    /\ UNCHANGED <<streaming, live>>

UpdateTracking ==
    \/ CheckActive \/ StartFails \/ StartEtwSession \/ Snapshot \/ SyncTrackedPidState
    \/ Decide \/ Branch \/ OpenGate \/ StartProviders \/ CloseGate \/ StopProviders
    \/ SetStreaming \/ ResetStreaming \/ KeepStreaming

----
(***************************************************************************)
(* ResetPresentTrackingData, on the action thread.                         *)
(***************************************************************************)

\* Where UpdateTracking goes on after it
AfterReset == IF act.active /\ ~act.failed THEN "open" ELSE "event"

\* A step that only moves on
Goto(place) ==
    /\ ActionStep(place)
    /\ UNCHANGED <<mutex, providers, streaming, enabled, tableVars, live, targets, act, calls>>

BeginReset ==
    /\ At("reset")
    /\ enabled' = FALSE
    /\ ActionStep("drain")
    /\ UNCHANGED <<mutex, providers, streaming, tableVars, live, targets, act, calls>>

\* Mutant: the handlers under way are not waited for.
DrainNot == At("drain") /\ Goto("clear")

\* The condition of the loop
Drain == At("drain") /\ Goto(IF inFlight = 0 THEN "clear" ELSE "expect")

\* The counter is loaded again.  WaitOnAddress sleeps if it still has the
\* value loaded; with one handler thread a value other than 0 is 1.
LoadExpected == At("expect") /\ Goto(IF inFlight = 0 THEN "drain" ELSE "wait")

WaitOnAddress == At("wait") /\ Goto(IF inFlight = 0 THEN "drain" ELSE "asleep")

\* The wait times out, or ends for no reason.
WaitEnds == At("asleep") /\ Goto("drain")

\* Two seconds are over: nothing is cleared.
DrainTimesOut ==
    /\ At("expect")
    /\ skipped' = TRUE
    /\ ActionStep(AfterReset)
    /\ UNCHANGED <<mutex, providers, streaming, enabled, dirty, processEvents, presents,
                   live, targets, act, calls>>

\* "Now it is safe to clear the state"
Clear ==
    /\ At("clear")
    /\ dirty' = FALSE /\ skipped' = FALSE
    /\ processEvents' = <<>> /\ presents' = FALSE
    /\ ActionStep(AfterReset)
    /\ UNCHANGED <<mutex, providers, streaming, enabled, live, targets, act, calls>>

\* The steps the action thread takes by itself
Action == \/ UpdateTracking
          \/ BeginReset \/ Drain \/ LoadExpected \/ WaitOnAddress \/ Clear

----
(***************************************************************************)
(* Processes, and the ETW thread.                                          *)
(***************************************************************************)

\* The kernel's process provider is one of those that are enabled.
ProcessExits(p) ==
    /\ p \in running
    /\ running' = running \ {p}
    /\ logged' = IF providers THEN Append(logged, p) ELSE logged
    /\ UNCHANGED <<sessionVars, mutex, providers, streaming, enabled, inFlight, tableVars,
                   live, targets, events, pc, act, etw, output, calls>>

\* What the ETW thread leaves alone
EtwStep(place) ==
    /\ etw' = [etw EXCEPT !.pc = place]
    /\ UNCHANGED <<sessionVars, mutex, providers, streaming, enabled, skipped, live, targets,
                   osVars, act, output, calls>>

\* EventRecordCallback is called with a logged exit or with something else; the
\* session delivers what is buffered when its providers are off, too.
NextEvent(place) ==
    /\ etw.pc = "idle"
    /\ \/ /\ logged # <<>>
          /\ etw' = [pc |-> place, event |-> Head(logged)]
          /\ logged' = Tail(logged)
          /\ UNCHANGED events
       \/ /\ open /\ events < MaxEvents
          /\ etw' = [pc |-> place, event |-> 0]
          /\ events' = events + 1
          /\ UNCHANGED logged
    /\ UNCHANGED <<sessionVars, mutex, providers, streaming, enabled, tableVars, live, targets,
                   running, pc, act, output, calls>>

\* Mutant: the flag is read before the counter is incremented.
BeginEventChecksFirst ==
    \/ /\ NextEvent(IF enabled THEN "ended" ELSE "idle")
       /\ UNCHANGED inFlight
    \/ /\ etw.pc = "ended" /\ open
       /\ inFlight' = inFlight + 1
       /\ EtwStep("handling")
       /\ UNCHANGED <<tableVars, pc>>

\* The constructor of EventProcessingScope counts the handler ...
BeginEvent == NextEvent("counted") /\ inFlight' = inFlight + 1

\* Mutant: a handler that is not let in is not counted out.
CheckGateReturns ==
    /\ etw.pc = "counted"
    /\ EtwStep(IF enabled THEN "handling" ELSE "idle")
    /\ UNCHANGED <<inFlight, dirty, processEvents, presents, pc>>

\* ... and then reads the flag.
CheckGate ==
    /\ etw.pc = "counted"
    /\ EtwStep(IF enabled THEN "handling" ELSE "leaving")
    /\ UNCHANGED <<inFlight, dirty, processEvents, presents, pc>>

HandleEvent ==
    /\ etw.pc = "handling"
    /\ dirty' = TRUE
    /\ IF etw.event \in Pids
       THEN processEvents' = Append(processEvents, etw.event) /\ UNCHANGED presents
       ELSE presents' \in {presents, TRUE} /\ UNCHANGED processEvents
    /\ EtwStep("leaving")
    /\ UNCHANGED <<inFlight, pc>>

\* The scope of an event ends, of one that was not let in, too.
EndScope ==
    /\ etw.pc = "leaving"
    /\ inFlight' = inFlight - 1
    /\ EtwStep(IF inFlight = 1 THEN "waking" ELSE "idle")
    /\ UNCHANGED <<dirty, processEvents, presents, pc>>

\* Mutant: nobody is woken.
WakeNobody ==
    /\ etw.pc = "waking"
    /\ EtwStep("idle")
    /\ UNCHANGED <<inFlight, dirty, processEvents, presents, pc>>

WakeAll ==
    /\ etw.pc = "waking"
    /\ pc' = [pc EXCEPT !.action = IF At("asleep") THEN "drain" ELSE @]
    /\ EtwStep("idle")
    /\ UNCHANGED <<inFlight, dirty, processEvents, presents>>

\* A closed trace is processed to the end of its buffers.
ProcessTraceReturns ==
    /\ etw.pc = "idle"
    /\ ~open /\ logged = <<>>
    /\ EtwStep("ended")
    /\ UNCHANGED <<inFlight, dirty, processEvents, presents, pc>>

Etw == BeginEvent \/ CheckGate \/ HandleEvent \/ EndScope \/ WakeAll \/ ProcessTraceReturns

----
(***************************************************************************)
(* The output thread: the loop of Output, as far as it is about processes. *)
(***************************************************************************)

OutputStep(o) ==
    /\ output' = o
    /\ UNCHANGED <<sessionVars, mutex, providers, enabled, inFlight, dirty, skipped, targets,
                   osVars, pc, act, etw, calls>>

\* The next place at the end of a round that read quit
NextRound(quit) == IF quit THEN "ended" ELSE "top"

\* quit is read, and DequeueAnalyzedInfo looks whether the session is active ...
CheckSession ==
    /\ output.pc = "top"
    /\ OutputStep([output EXCEPT !.quit = quitOutput,
          !.pc = IF sessionActive /\ consumer THEN "take" ELSE NextRound(quitOutput)])
    /\ UNCHANGED <<processEvents, presents, live, streaming>>

\* ... before it takes what was analysed.
DequeueAnalyzedInfo ==
    /\ output.pc = "take"
    /\ OutputStep([output EXCEPT !.exits = processEvents, !.presents = presents,
          !.pc = IF processEvents # <<>> \/ presents THEN "update" ELSE NextRound(output.quit)])
    /\ processEvents' = <<>>
    /\ presents' = FALSE
    /\ UNCHANGED <<live, streaming>>

MarkProcessExited(p) == live' = [live EXCEPT ![p] = IF @ = Untracked THEN @ ELSE "exited"]

\* An exit of a process that is not tracked is forgotten.
UpdateProcesses ==
    /\ output.pc = "update"
    /\ output.exits # <<>>
    /\ LET p == Head(output.exits)
       IN  /\ OutputStep([output EXCEPT !.exits = Tail(@),
                 !.terminated = IF live[p] = Untracked THEN @ ELSE Append(@, p)])
           /\ MarkProcessExited(p)
    /\ UNCHANGED <<processEvents, presents, streaming>>

\* A present of the round started after the first exit that is left.
HandleTerminatedProcess ==
    /\ output.pc = "update"
    /\ output.exits = <<>>
    /\ output.presents /\ output.terminated # <<>>
    /\ OutputStep([output EXCEPT !.pc = "handle", !.terminated = Tail(@)])
    /\ MarkProcessExited(Head(output.terminated))
    /\ UNCHANGED <<processEvents, presents, streaming>>

CheckLive ==
    /\ output.pc = "handle"
    /\ OutputStep([output EXCEPT !.pc = IF HasLiveTargets THEN "update" ELSE "reset"])
    /\ UNCHANGED <<processEvents, presents, live, streaming>>

ResetEvent ==
    /\ output.pc = "reset"
    /\ streaming' = FALSE
    /\ OutputStep([output EXCEPT !.pc = "update"])
    /\ UNCHANGED <<processEvents, presents, live>>

\* No such present: the exits that are left wait for another round.
EndRound ==
    /\ output.pc = "update"
    /\ output.exits = <<>>
    /\ OutputStep([output EXCEPT !.pc = NextRound(output.quit), !.presents = FALSE])
    /\ UNCHANGED <<processEvents, presents, live, streaming>>

Output == \/ CheckSession \/ DequeueAnalyzedInfo \/ UpdateProcesses
          \/ HandleTerminatedProcess \/ CheckLive \/ ResetEvent \/ EndRound

----
(***************************************************************************)
(* The main thread.  It stops the session in StopTraceSessions, destroys   *)
(* the action server, and stops the session again in ~PresentMon.          *)
(***************************************************************************)

MainStep(place) ==
    /\ pc' = [pc EXCEPT !.main = place]
    /\ UNCHANGED <<mutex, enabled, inFlight, tableVars, targets, osVars, act>>

\* The service's stop event is set.
StopTraceSessions ==
    /\ pc.main = "idle"
    /\ MainStep("stop")
    /\ UNCHANGED <<sessionVars, providers, streaming, live, etw, output, calls>>

\* session_active_.exchange(false)
StopBegins ==
    /\ pc.main \in {"stop", "stopAgain"}
    /\ sessionActive' = FALSE
    /\ MainStep(IF sessionActive THEN "close" ELSE "forget")
    /\ UNCHANGED <<consumer, open, quitOutput, providers, streaming, live, etw, output, calls>>

\* PMTraceSession::Stop
CloseTrace ==
    /\ pc.main = "close"
    /\ open' = FALSE
    /\ providers' = FALSE
    /\ MainStep("joinConsumer")
    /\ UNCHANGED <<sessionActive, consumer, quitOutput, streaming, live, etw, output, calls>>

\* Mutant: the ETW thread is not waited for.
WaitForConsumerThreadNot ==
    /\ pc.main = "joinConsumer"
    /\ quitOutput' = TRUE
    /\ MainStep("joinOutput")
    /\ UNCHANGED <<sessionActive, consumer, open, providers, streaming, live, etw, output, calls>>

\* WaitForConsumerThreadToExit; then StopOutputThread asks the output thread
WaitForConsumerThreadToExit ==
    /\ pc.main = "joinConsumer"
    /\ etw.pc = "ended"
    /\ etw' = [etw EXCEPT !.pc = "none"]
    /\ quitOutput' = TRUE
    /\ MainStep("joinOutput")
    /\ UNCHANGED <<sessionActive, consumer, open, providers, streaming, live, output, calls>>

\* The output thread is joined, then the mutex is taken.
CleanUp ==
    /\ pc.main = "joinOutput"
    /\ output.pc = "ended"
    /\ mutex = "free"
    /\ output' = [output EXCEPT !.pc = "none"]
    /\ streaming' = FALSE
    /\ consumer' = FALSE
    /\ MainStep("forget")
    /\ UNCHANGED <<sessionActive, open, quitOutput, providers, live, etw, calls>>

\* No call can be made any more
ServerGone == calls > MaxCalls

\* Mutant: the destructor does not stop the session a second time.
ClearTrackedOnce ==
    /\ pc.main = "forget"
    /\ live' = [p \in Pids |-> Untracked]
    /\ MainStep("gone")
    /\ UNCHANGED <<sessionVars, providers, streaming, etw, output, calls>>

ClearTrackedProcesses ==
    /\ pc.main = "forget"
    /\ live' = [p \in Pids |-> Untracked]
    /\ MainStep(IF ServerGone THEN "gone" ELSE "server")
    /\ UNCHANGED <<sessionVars, providers, streaming, etw, output, calls>>

\* The action server ends after the call under way.
ActionServerEnds ==
    /\ pc.main = "server"
    /\ At("idle")
    /\ calls' = MaxCalls + 1
    /\ MainStep("stopAgain")
    /\ UNCHANGED <<sessionVars, providers, streaming, live, etw, output>>

Main == \/ StopBegins \/ CloseTrace \/ WaitForConsumerThreadToExit \/ CleanUp
        \/ ClearTrackedProcesses \/ ActionServerEnds

----
Client == \/ \E p \in Pids : StartTracking(p)
          \/ \E p \in targets : StopTracking({p})
          \/ StopTracking(targets)

Next == \/ Client \/ Action \/ DrainTimesOut \/ WaitEnds
        \/ (\E p \in Mortal : ProcessExits(p)) \/ Etw \/ Output
        \/ StopTraceSessions \/ Main

Spec == Init /\ [][Next]_vars

\* The threads keep running.  The two second limit is not relied on.
Fairness == WF_vars(Action) /\ WF_vars(Etw) /\ WF_vars(Output) /\ WF_vars(Main)

FairSpec == Spec /\ Fairness

----
ResetPlaces == {"reset", "drain", "expect", "wait", "asleep", "clear"}
ActionPlaces == {"idle", "active", "start", "lock", "sync", "decide", "branch", "gate",
                 "providers", "event", "open", "enable", "signal", "none"} \cup ResetPlaces
MainPlaces == {"idle", "stop", "close", "joinConsumer", "joinOutput", "forget",
               "server", "stopAgain", "gone"}
EtwPlaces == {"none", "idle", "counted", "handling", "leaving", "waking", "ended"}
OutputPlaces == {"none", "top", "take", "update", "handle", "reset", "ended"}

\* The event handlers between the increment and the decrement of the counter
InScope == etw.pc \in {"counted", "handling", "leaving"}

\* The variables keep their types; the counter counts the handlers in a scope.
TypeOK ==
    /\ sessionActive \in BOOLEAN /\ consumer \in BOOLEAN /\ open \in BOOLEAN
    /\ providers \in BOOLEAN /\ streaming \in BOOLEAN /\ quitOutput \in BOOLEAN
    /\ mutex \in {"free", "action"}
    /\ enabled \in BOOLEAN /\ dirty \in BOOLEAN /\ skipped \in BOOLEAN
    /\ inFlight = IF InScope THEN 1 ELSE 0
    /\ live \in [Pids -> {Untracked, "live", "exited"}]
    /\ targets \subseteq Pids /\ running \subseteq Pids
    /\ logged \in Seq(Pids) /\ processEvents \in Seq(Pids) /\ presents \in BOOLEAN
    /\ pc \in [action : ActionPlaces, main : MainPlaces]
    /\ etw \in [pc : EtwPlaces, event : Pids \cup {0}]
    /\ output.pc \in OutputPlaces
    /\ calls \in 0 .. MaxCalls + 1 /\ events \in 0 .. MaxEvents

\* "Now it is safe to clear the state": no event handler uses the tables while
\* ResetPresentTrackingData clears them, although neither takes a lock.
ClearedAlone == At("clear") => etw.pc # "handling"

\* Once the tables are cleared they stay so until the gate is opened again: no
\* handler that found it open is still to come.
ClosedStaysClean ==
    ~enabled /\ ~skipped /\ pc.action \notin ResetPlaces \cup {"providers"} => ~dirty

\* "Safe cleanup after threads have finished": pm_consumer_ is there for as long
\* as a thread that uses it without a lock runs.
ConsumerOutlivesThreads ==
    etw.pc \notin {"none", "ended"} \/ output.pc \notin {"none", "ended"} => consumer

\* UpdateTracking takes evtStreamingStarted_ for "providers are enabled": when
\* it is set they are, and their events pass the gate.
StreamingMeansEnabled ==
    streaming /\ mutex = "free" /\ pc.main = "idle" => providers /\ enabled

\* When the PresentMon object is gone nothing runs, also if a client made the
\* session start again while the service was stopping.
StoppedAtEnd ==
    pc.main = "gone" => ~(sessionActive \/ consumer \/ open \/ providers \/ streaming)

\* Every wait ends: a client's call returns, because ResetPresentTrackingData
\* misses no wake-up, and the service stops, because its threads can be joined.
WaitsEnd == /\ ~At("idle") ~> At("idle")
            /\ pc.main = "stop" ~> pc.main = "gone"

\* "No transition: either active with providers enabled, or inactive with
\* providers disabled"
NoTransition == At("none") /\ pc.main = "idle" => act.active = providers
====
