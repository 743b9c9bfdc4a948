---- MODULE RealtimeSessionProofs ----
(***************************************************************************)
(* Proofs about RealtimeSession, for every set of processes and all bounds.*)
(*                                                                         *)
(* The gate.  The counter says whether a handler is in a scope, and from   *)
(* the closing of the gate to the end of a reset it stays closed.  A       *)
(* handler that is counted after the reset saw 0 therefore finds it closed.*)
(*                                                                         *)
(* The stop.  What the main thread has joined stays so until it has let go *)
(* of the consumer, because a session is only started without one; and what*)
(* a client starts after that is stopped when no client is left.           *)
(*                                                                         *)
(* The event.  Only the action thread sets evtStreamingStarted_, under the *)
(* mutex, after it opened the gate and enabled the providers; others only  *)
(* reset it.                                                               *)
(***************************************************************************)
EXTENDS RealtimeSession, TLAPS

\* The records keep their fields.
Shape ==
    /\ pc = [action |-> pc.action, main |-> pc.main]
    /\ etw = [pc |-> etw.pc, event |-> etw.event]
    /\ output = [pc |-> output.pc, quit |-> output.quit, exits |-> output.exits,
                 presents |-> output.presents, terminated |-> output.terminated]
    /\ act = [pid |-> act.pid, set |-> act.set, prev |-> act.prev, active |-> act.active,
              failed |-> act.failed]
    /\ calls \in Int

Draining == pc.action \in {"drain", "expect", "wait", "asleep", "clear"}

\* The counter counts, the gate is closed while it is drained, and nobody is
\* inside once it was empty.
GateInv ==
    /\ inFlight = IF InScope THEN 1 ELSE 0
    /\ Draining => ~enabled
    /\ At("clear") => etw.pc # "handling"

\* Unless a reset is under way (or skipped for want of a consumer), a closed
\* gate has nobody behind it.
Settled ==
    \/ pc.action \notin ResetPlaces \cup {"providers"}
    \/ At("providers") /\ ~consumer
CleanInv == ~enabled /\ ~skipped /\ Settled => ~dirty /\ etw.pc # "handling"

MutexInv == pc.action \notin {"idle", "active", "start", "lock"} => mutex = "action"

Joining == pc.main \in {"close", "joinConsumer", "joinOutput"}
Gone(place) == place \in {"none", "ended"}

\* A session is active or being stopped as long as it has a consumer; its
\* threads end before.
StopInv ==
    /\ sessionActive => consumer /\ ~Joining
    /\ consumer <=> sessionActive \/ Joining
    /\ ~consumer => Gone(etw.pc) /\ Gone(output.pc)
    /\ pc.main = "joinOutput" => etw.pc = "none"
    /\ open => sessionActive \/ pc.main = "close"
    /\ providers => open
    /\ streaming => consumer
    /\ At("signal") => consumer

\* Once the action server is gone no session starts.
EndInv ==
    /\ ServerGone => At("idle")
    /\ ServerGone /\ pc.main # "stopAgain" => ~sessionActive
    /\ pc.main = "gone" => ServerGone

SessionInv == Shape /\ GateInv /\ CleanInv /\ MutexInv /\ StopInv /\ EndInv

LEMMA InvInit == Init => SessionInv
BY RealtimeAssumption DEF SessionInv, Shape, GateInv, Settled, CleanInv, MutexInv, StopInv, EndInv, Joining, Gone,
            Draining, InScope, ResetPlaces, At, NoAct, ServerGone, sessionVars, tableVars, osVars, Init, NewEtw, NewOutput

LEMMA InvUpdateTracking == SessionInv /\ UpdateTracking => SessionInv'
<1> SUFFICES ASSUME SessionInv, UpdateTracking PROVE SessionInv'
  OBVIOUS
<1> USE DEF SessionInv, Shape, GateInv, Settled, CleanInv, MutexInv, StopInv, EndInv, Joining, Gone,
            Draining, InScope, ResetPlaces, At, NoAct, ServerGone, sessionVars, tableVars, osVars
<1>1. CASE CheckActive
  BY <1>1 DEF CheckActive, ActionStep
<1>2. CASE StartFails
  BY <1>2 DEF StartFails, ActionStep
<1>3. CASE StartEtwSession
  BY <1>3 DEF StartEtwSession, NewEtw, NewOutput, ActionStep
<1>4. CASE Snapshot
  BY <1>4 DEF Snapshot, ActionStep
<1>5. CASE SyncTrackedPidState
  BY <1>5 DEF SyncTrackedPidState, ActionStep
<1>6. CASE Decide
  BY <1>6 DEF Decide, ActionStep
<1>7. CASE Branch
  BY <1>7 DEF Branch, ActionStep
<1>8. CASE OpenGate
  BY <1>8 DEF OpenGate, ActionStep
<1>9. CASE StartProviders
  BY <1>9 DEF StartProviders, ActionStep
<1>10. CASE CloseGate
  BY <1>10 DEF CloseGate, ActionStep
<1>11. CASE StopProviders
  BY <1>11 DEF StopProviders, ActionStep
<1>12. CASE SetStreaming
  BY <1>12 DEF SetStreaming, Return, ActionStep
<1>13. CASE ResetStreaming
  BY <1>13 DEF ResetStreaming, Return, ActionStep
<1>14. CASE KeepStreaming
  BY <1>14 DEF KeepStreaming, Return, ActionStep
<1> QED
  BY <1>1, <1>2, <1>3, <1>4, <1>5, <1>6, <1>7, <1>8, <1>9, <1>10, <1>11, <1>12, <1>13, <1>14 DEF UpdateTracking

LEMMA InvAction == SessionInv /\ Action => SessionInv'
<1> SUFFICES ASSUME SessionInv, Action PROVE SessionInv'
  OBVIOUS
<1> USE DEF SessionInv, Shape, GateInv, Settled, CleanInv, MutexInv, StopInv, EndInv, Joining, Gone,
            Draining, InScope, ResetPlaces, At, NoAct, ServerGone, sessionVars, tableVars, osVars
<1>1. CASE UpdateTracking
  BY <1>1, InvUpdateTracking
<1>2. CASE BeginReset
  BY <1>2 DEF BeginReset, ActionStep
<1>3. CASE Drain
  BY <1>3 DEF Drain, Goto, ActionStep
<1>4. CASE LoadExpected
  BY <1>4 DEF LoadExpected, Goto, ActionStep
<1>5. CASE WaitOnAddress
  BY <1>5 DEF WaitOnAddress, Goto, ActionStep
<1>6. CASE Clear
  BY <1>6 DEF Clear, AfterReset, ActionStep
<1> QED
  BY <1>1, <1>2, <1>3, <1>4, <1>5, <1>6 DEF Action

LEMMA InvEtw == SessionInv /\ Etw => SessionInv'
<1> SUFFICES ASSUME SessionInv, Etw PROVE SessionInv'
  OBVIOUS
<1> USE DEF SessionInv, Shape, GateInv, Settled, CleanInv, MutexInv, StopInv, EndInv, Joining, Gone,
            Draining, InScope, ResetPlaces, At, NoAct, ServerGone, sessionVars, tableVars, osVars
<1>1. CASE BeginEvent
  BY <1>1 DEF BeginEvent, NextEvent, EtwStep
<1>2. CASE CheckGate
  BY <1>2 DEF CheckGate, EtwStep
<1>3. CASE HandleEvent
  BY <1>3 DEF HandleEvent, EtwStep
<1>4. CASE EndScope
  BY <1>4 DEF EndScope, EtwStep
<1>5. CASE WakeAll
  BY <1>5 DEF WakeAll, EtwStep
<1>6. CASE ProcessTraceReturns
  BY <1>6 DEF ProcessTraceReturns, EtwStep
<1> QED
  BY <1>1, <1>2, <1>3, <1>4, <1>5, <1>6 DEF Etw

\* The locals of the output thread's round
Round(o) == o = [pc |-> o.pc, quit |-> o.quit, exits |-> o.exits,
                 presents |-> o.presents, terminated |-> o.terminated]

RoundFields == {"pc", "quit", "exits", "presents", "terminated"}

LEMMA RoundIs == ASSUME NEW o PROVE Round(o) <=> o = [f \in RoundFields |-> o[f]]
BY DEF Round, RoundFields

LEMMA RoundKept ==
    ASSUME NEW o, Round(o), NEW x, NEW y, NEW z
    PROVE  /\ Round([o EXCEPT !.quit = x, !.pc = y])
           /\ Round([o EXCEPT !.exits = x, !.presents = y, !.pc = z])
           /\ Round([o EXCEPT !.exits = x, !.terminated = y])
<1>1. \A p, f, w : f \in RoundFields /\ Round(p) => Round([p EXCEPT ![f] = w])
  BY RoundIs DEF RoundFields
<1>2. /\ "quit" \in RoundFields /\ "pc" \in RoundFields /\ "exits" \in RoundFields
      /\ "presents" \in RoundFields /\ "terminated" \in RoundFields
  BY DEF RoundFields
<1>. QED
  BY <1>1, <1>2, Zenon

LEMMA InvOutput == SessionInv /\ Output => SessionInv'
<1> SUFFICES ASSUME SessionInv, Output PROVE SessionInv'
  OBVIOUS
<1> USE DEF SessionInv, Shape, GateInv, Settled, CleanInv, MutexInv, StopInv, EndInv, Joining, Gone,
            Draining, InScope, ResetPlaces, At, NoAct, ServerGone, sessionVars, tableVars, osVars
<1>0. ASSUME NEW o, OutputStep(o), output.pc \in {"top", "take", "update"}, UNCHANGED streaming,
             Round(o)
      PROVE  SessionInv'
  BY <1>0 DEF OutputStep, Round
<1>r. Round(output)
  BY DEF Round
<1>1. CASE CheckSession
  <2> DEFINE o == [output EXCEPT !.quit = quitOutput,
                 !.pc = IF sessionActive /\ consumer THEN "take" ELSE NextRound(quitOutput)]
  <2>1. /\ OutputStep(o) /\ output.pc \in {"top", "take", "update"} /\ UNCHANGED streaming
    BY <1>1, Zenon DEF CheckSession
  <2>2. Round(o)
    BY <1>r, RoundKept, Zenon
  <2> HIDE DEF o
  <2> QED
    BY <1>0, <2>1, <2>2
<1>2. CASE DequeueAnalyzedInfo
  <2> DEFINE o == [output EXCEPT !.exits = processEvents, !.presents = presents,
                 !.pc = IF processEvents # <<>> \/ presents THEN "update" ELSE NextRound(output.quit)]
  <2>1. /\ OutputStep(o) /\ output.pc \in {"top", "take", "update"} /\ UNCHANGED streaming
    BY <1>2, Zenon DEF DequeueAnalyzedInfo
  <2>2. Round(o)
    BY <1>r, RoundKept, Zenon
  <2> HIDE DEF o
  <2> QED
    BY <1>0, <2>1, <2>2
<1>3. CASE UpdateProcesses
  <2> DEFINE o == [output EXCEPT !.exits = Tail(@),
                 !.terminated = IF live[Head(output.exits)] = Untracked THEN @
                                ELSE Append(@, Head(output.exits))]
  <2>1. /\ OutputStep(o) /\ output.pc \in {"top", "take", "update"} /\ UNCHANGED streaming
    BY <1>3, Zenon DEF UpdateProcesses
  <2>2. Round(o)
    BY <1>r, RoundKept, Zenon
  <2> HIDE DEF o
  <2> QED
    BY <1>0, <2>1, <2>2
<1>4. CASE HandleTerminatedProcess
  BY <1>4 DEF HandleTerminatedProcess, MarkProcessExited, OutputStep
<1>5. CASE CheckLive
  BY <1>5 DEF CheckLive, OutputStep
<1>6. CASE ResetEvent
  BY <1>6 DEF ResetEvent, OutputStep
<1>7. CASE EndRound
  BY <1>7 DEF EndRound, NextRound, OutputStep
<1> QED
  BY <1>1, <1>2, <1>3, <1>4, <1>5, <1>6, <1>7 DEF Output

LEMMA InvMain == SessionInv /\ Main => SessionInv'
<1> SUFFICES ASSUME SessionInv, Main PROVE SessionInv'
  OBVIOUS
<1> USE DEF SessionInv, Shape, GateInv, Settled, CleanInv, MutexInv, StopInv, EndInv, Joining, Gone,
            Draining, InScope, ResetPlaces, At, NoAct, ServerGone, sessionVars, tableVars, osVars
<1>1. CASE StopBegins
  BY <1>1 DEF StopBegins, MainStep
<1>2. CASE CloseTrace
  BY <1>2 DEF CloseTrace, MainStep
<1>3. CASE WaitForConsumerThreadToExit
  BY <1>3 DEF WaitForConsumerThreadToExit, MainStep
<1>4. CASE CleanUp
  BY <1>4 DEF CleanUp, MainStep
<1>5. CASE ClearTrackedProcesses
  BY <1>5 DEF ClearTrackedProcesses, MainStep
<1>6. CASE ActionServerEnds
  BY <1>6, RealtimeAssumption DEF ActionServerEnds, MainStep
<1> QED
  BY <1>1, <1>2, <1>3, <1>4, <1>5, <1>6 DEF Main

LEMMA InvCall ==
    ASSUME SessionInv, Call, act' = [pid |-> act'.pid, set |-> act'.set, prev |-> act'.prev,
                                     active |-> act'.active, failed |-> act'.failed]
    PROVE  SessionInv'
<1> USE RealtimeAssumption DEF Call, ActionStep, SessionInv, Shape, GateInv, Settled, CleanInv, MutexInv, StopInv, EndInv, Joining, Gone,
            Draining, InScope, ResetPlaces, At, NoAct, ServerGone, sessionVars, tableVars, osVars
<1>1. Shape'
  OBVIOUS
<1>2. GateInv' /\ CleanInv' /\ MutexInv'
  OBVIOUS
<1>3. StopInv' /\ EndInv'
  OBVIOUS
<1> QED
  BY <1>1, <1>2, <1>3

LEMMA InvNext == SessionInv /\ [Next]_vars => SessionInv'
<1> SUFFICES ASSUME SessionInv, [Next]_vars PROVE SessionInv'
  OBVIOUS
<1>1. CASE Client
  <2>1. ASSUME NEW p, StartTracking(p) PROVE SessionInv'
    BY <2>1, InvCall DEF StartTracking, NoAct
  <2>2. ASSUME NEW ps, StopTracking(ps) PROVE SessionInv'
    BY <2>2, InvCall DEF StopTracking, NoAct
  <2> QED
    BY <1>1, <2>1, <2>2 DEF Client
<1>2. CASE Action
  BY <1>2, InvAction
<1>3. CASE Etw
  BY <1>3, InvEtw
<1>4. CASE Output
  BY <1>4, InvOutput
<1>5. CASE Main
  BY <1>5, InvMain
<1> USE DEF SessionInv, Shape, GateInv, Settled, CleanInv, MutexInv, StopInv, EndInv, Joining, Gone,
            Draining, InScope, ResetPlaces, At, NoAct, ServerGone, sessionVars, tableVars, osVars
<1>6. CASE DrainTimesOut
  BY <1>6 DEF DrainTimesOut, AfterReset, ActionStep
<1>7. CASE WaitEnds
  BY <1>7 DEF WaitEnds, Goto, ActionStep
<1>8. CASE \E p \in Mortal : ProcessExits(p)
  BY <1>8 DEF ProcessExits
<1>9. CASE StopTraceSessions
  BY <1>9 DEF StopTraceSessions, MainStep
<1>10. CASE UNCHANGED vars
  BY <1>10 DEF vars
<1> QED
  BY <1>1, <1>2, <1>3, <1>4, <1>5, <1>6, <1>7, <1>8, <1>9, <1>10 DEF Next

LEMMA SessionSafe == Spec => []SessionInv
BY InvInit, InvNext, PTL DEF Spec

\* ResetPresentTrackingData clears the tables while no event handler uses them,
\* without a lock and whatever events arrive.
THEOREM TablesClearedAlone == Spec => []ClearedAlone
<1>1. SessionInv => ClearedAlone
  BY DEF SessionInv, GateInv, ClearedAlone
<1> QED
  BY <1>1, SessionSafe, PTL

\* After a reset that was not given up no handler uses the tables until the gate
\* is opened again.
THEOREM TablesStayClean == Spec => []ClosedStaysClean
<1>1. SessionInv => ClosedStaysClean
  BY DEF SessionInv, CleanInv, Settled, ClosedStaysClean
<1> QED
  BY <1>1, SessionSafe, PTL

\* StopEtwSession destroys the consumer only when the threads that use it ended,
\* also if a client starts the session again meanwhile.
THEOREM ConsumerOutlives == Spec => []ConsumerOutlivesThreads
<1>1. SessionInv => ConsumerOutlivesThreads
  BY DEF SessionInv, StopInv, Gone, ConsumerOutlivesThreads
<1> QED
  BY <1>1, SessionSafe, PTL

\* The stop in ~PresentMon leaves nothing of a session that a client started
\* after the first stop.
THEOREM NothingLeft == Spec => []StoppedAtEnd
<1>1. SessionInv => StoppedAtEnd
  BY DEF SessionInv, StopInv, EndInv, Joining, StoppedAtEnd
<1> QED
  BY <1>1, SessionSafe, PTL
----
\* Types.

Marks == {Untracked, "live", "exited"}

Flags ==
    /\ sessionActive \in BOOLEAN /\ consumer \in BOOLEAN /\ open \in BOOLEAN
    /\ providers \in BOOLEAN /\ streaming \in BOOLEAN /\ quitOutput \in BOOLEAN
    /\ enabled \in BOOLEAN /\ dirty \in BOOLEAN /\ skipped \in BOOLEAN
    /\ presents \in BOOLEAN

Places ==
    /\ mutex \in {"free", "action"}
    /\ pc.action \in ActionPlaces /\ pc.main \in MainPlaces
    /\ etw.pc \in EtwPlaces
    /\ output.pc \in OutputPlaces

\* The exits that are logged, handled or waiting to be noted
Exits ==
    /\ logged \in Seq(Pids)
    /\ etw.event \in Pids \cup {0}
    /\ processEvents \in Seq(Pids)
    /\ output.exits \in Seq(Pids) /\ output.terminated \in Seq(Pids)

\* previousState is set once the lock is taken.
Tracked ==
    /\ live \in [Pids -> Marks]
    /\ pc.action \notin {"idle", "active", "start", "lock"} => act.prev \in [Pids -> Marks]
    /\ targets \subseteq Pids /\ running \subseteq Pids
    /\ act.pid \in Pids \cup {0}

Counts == calls \in 0 .. MaxCalls + 1 /\ events \in 0 .. MaxEvents

Types == Flags /\ Places /\ Exits /\ Tracked /\ Counts

LEMMA FlagsNext == Flags /\ [Next]_vars => Flags'
<1> SUFFICES ASSUME Flags, [Next]_vars PROVE Flags'
  OBVIOUS
<1> USE DEF Flags, sessionVars, tableVars, osVars
<1>1. CASE UpdateTracking
  <2>1. CASE CheckActive
    BY <2>1 DEF CheckActive, ActionStep, Return
  <2>2. CASE StartFails
    BY <2>2 DEF StartFails, ActionStep, Return
  <2>3. CASE StartEtwSession
    BY <2>3 DEF StartEtwSession, NewEtw, NewOutput, ActionStep, Return
  <2>4. CASE Snapshot
    BY <2>4 DEF Snapshot, ActionStep, Return
  <2>5. CASE SyncTrackedPidState
    BY <2>5 DEF SyncTrackedPidState, ActionStep, Return
  <2>6. CASE Decide
    BY <2>6 DEF Decide, ActionStep, Return
  <2>7. CASE Branch
    BY <2>7 DEF Branch, ActionStep, Return
  <2>8. CASE OpenGate
    BY <2>8 DEF OpenGate, ActionStep, Return
  <2>9. CASE StartProviders
    BY <2>9 DEF StartProviders, ActionStep, Return
  <2>10. CASE CloseGate
    BY <2>10 DEF CloseGate, ActionStep, Return
  <2>11. CASE StopProviders
    BY <2>11 DEF StopProviders, ActionStep, Return
  <2>12. CASE SetStreaming
    BY <2>12 DEF SetStreaming, ActionStep, Return
  <2>13. CASE ResetStreaming
    BY <2>13 DEF ResetStreaming, ActionStep, Return
  <2>14. CASE KeepStreaming
    BY <2>14 DEF KeepStreaming, ActionStep, Return
  <2> QED
    BY <1>1, <2>1, <2>2, <2>3, <2>4, <2>5, <2>6, <2>7, <2>8, <2>9, <2>10, <2>11, <2>12, <2>13,
       <2>14 DEF UpdateTracking
<1>2. CASE Action /\ ~UpdateTracking
  BY <1>2 DEF Action, BeginReset, Drain, LoadExpected, WaitOnAddress, Clear, AfterReset,
     ActionStep, Goto
<1>3. CASE DrainTimesOut \/ WaitEnds
  <2>1. CASE DrainTimesOut
    BY <2>1 DEF DrainTimesOut, AfterReset, ActionStep, Goto
  <2>2. CASE WaitEnds
    BY <2>2 DEF WaitEnds, ActionStep, Goto
  <2> QED
    BY <1>3, <2>1, <2>2
<1>4. CASE Client
  <2>1. ASSUME NEW p \in Pids, StartTracking(p) PROVE Flags'
    BY <2>1 DEF StartTracking, Call, ActionStep
  <2>2. ASSUME NEW ps, StopTracking(ps) PROVE Flags'
    BY <2>2 DEF StopTracking, Call, ActionStep
  <2> HIDE DEF Flags
  <2> QED
    BY <1>4, <2>1, <2>2 DEF Client
<1>5. CASE Etw
  <2>1. CASE BeginEvent
    BY <2>1 DEF BeginEvent, NextEvent, EtwStep
  <2>2. CASE CheckGate
    BY <2>2 DEF CheckGate, EtwStep
  <2>3. CASE HandleEvent
    BY <2>3 DEF HandleEvent, EtwStep
  <2>4. CASE EndScope
    BY <2>4 DEF EndScope, EtwStep
  <2>5. CASE WakeAll
    BY <2>5 DEF WakeAll, EtwStep
  <2>6. CASE ProcessTraceReturns
    BY <2>6 DEF ProcessTraceReturns, EtwStep
  <2> QED
    BY <1>5, <2>1, <2>2, <2>3, <2>4, <2>5, <2>6 DEF Etw
<1>6. CASE Output
  <2>1. CASE CheckSession
    BY <2>1 DEF CheckSession, NextRound, OutputStep
  <2>2. CASE DequeueAnalyzedInfo
    BY <2>2 DEF DequeueAnalyzedInfo, NextRound, OutputStep
  <2>3. CASE UpdateProcesses
    BY <2>3 DEF UpdateProcesses, MarkProcessExited, OutputStep
  <2>4. CASE HandleTerminatedProcess
    BY <2>4 DEF HandleTerminatedProcess, MarkProcessExited, OutputStep
  <2>5. CASE CheckLive
    BY <2>5 DEF CheckLive, OutputStep
  <2>6. CASE ResetEvent
    BY <2>6 DEF ResetEvent, OutputStep
  <2>7. CASE EndRound
    BY <2>7 DEF EndRound, NextRound, OutputStep
  <2> QED
    BY <1>6, <2>1, <2>2, <2>3, <2>4, <2>5, <2>6, <2>7 DEF Output
<1>7. CASE StopTraceSessions \/ Main
  <2>1. CASE StopTraceSessions
    BY <2>1 DEF StopTraceSessions, MainStep
  <2>2. CASE StopBegins
    BY <2>2 DEF StopBegins, MainStep
  <2>3. CASE CloseTrace
    BY <2>3 DEF CloseTrace, MainStep
  <2>4. CASE WaitForConsumerThreadToExit
    BY <2>4 DEF WaitForConsumerThreadToExit, MainStep
  <2>5. CASE CleanUp
    BY <2>5 DEF CleanUp, MainStep
  <2>6. CASE ClearTrackedProcesses
    BY <2>6 DEF ClearTrackedProcesses, MainStep
  <2>7. CASE ActionServerEnds
    BY <2>7 DEF ActionServerEnds, MainStep
  <2> QED
    BY <1>7, <2>1, <2>2, <2>3, <2>4, <2>5, <2>6, <2>7 DEF Main
<1>8. CASE \E p \in Mortal : ProcessExits(p)
  BY <1>8 DEF ProcessExits
<1>9. CASE UNCHANGED vars
  BY <1>9 DEF vars
<1> HIDE DEF Flags
<1> QED
  BY <1>1, <1>2, <1>3, <1>4, <1>5, <1>6, <1>7, <1>8, <1>9 DEF Next

LEMMA PlacesNext == Shape /\ Places /\ [Next]_vars => Places'
<1> SUFFICES ASSUME Shape, Places, [Next]_vars PROVE Places'
  OBVIOUS
<1> USE DEF Places, ActionPlaces, MainPlaces, EtwPlaces, OutputPlaces, ResetPlaces, Shape, At, NoAct, sessionVars, tableVars, osVars
<1>1. CASE UpdateTracking
  BY <1>1 DEF UpdateTracking, CheckActive, StartFails, StartEtwSession, NewEtw, NewOutput,
     Snapshot, SyncTrackedPidState, Decide, Branch, OpenGate, StartProviders, CloseGate,
     StopProviders, SetStreaming, ResetStreaming, KeepStreaming, ActionStep, Return
<1>2. CASE Action /\ ~UpdateTracking
  BY <1>2 DEF Action, BeginReset, Drain, LoadExpected, WaitOnAddress, Clear, AfterReset,
     ActionStep, Goto
<1>3. CASE DrainTimesOut \/ WaitEnds
  BY <1>3 DEF DrainTimesOut, AfterReset, WaitEnds, ActionStep, Goto
<1>4. CASE Client
  BY <1>4 DEF Client, StartTracking, StopTracking, Call, ActionStep
<1>5. CASE Etw
  <2>1. CASE BeginEvent
    BY <2>1 DEF BeginEvent, NextEvent, EtwStep
  <2>2. CASE CheckGate
    BY <2>2 DEF CheckGate, EtwStep
  <2>3. CASE HandleEvent
    BY <2>3 DEF HandleEvent, EtwStep
  <2>4. CASE EndScope
    BY <2>4 DEF EndScope, EtwStep
  <2>5. CASE WakeAll
    BY <2>5 DEF WakeAll, EtwStep
  <2>6. CASE ProcessTraceReturns
    BY <2>6 DEF ProcessTraceReturns, EtwStep
  <2> QED
    BY <1>5, <2>1, <2>2, <2>3, <2>4, <2>5, <2>6 DEF Etw
<1>6. CASE Output
  BY <1>6 DEF Output, CheckSession, NextRound, DequeueAnalyzedInfo, UpdateProcesses,
     MarkProcessExited, HandleTerminatedProcess, CheckLive, ResetEvent, EndRound, OutputStep
<1>7. CASE StopTraceSessions \/ Main
  BY <1>7 DEF Main, StopTraceSessions, StopBegins, CloseTrace, WaitForConsumerThreadToExit,
     CleanUp, ClearTrackedProcesses, ActionServerEnds, MainStep
<1>8. CASE \E p \in Mortal : ProcessExits(p)
  BY <1>8 DEF ProcessExits
<1>9. CASE UNCHANGED vars
  BY <1>9 DEF vars
<1> HIDE DEF Places
<1> QED
  BY <1>1, <1>2, <1>3, <1>4, <1>5, <1>6, <1>7, <1>8, <1>9 DEF Next

LEMMA ExitsNext == Shape /\ Exits /\ [Next]_vars => Exits'
<1> SUFFICES ASSUME Shape, Exits, [Next]_vars PROVE Exits'
  OBVIOUS
<1> USE RealtimeAssumption DEF Exits, Shape, sessionVars, tableVars, osVars
<1>1. CASE UpdateTracking
  <2>1. CASE CheckActive
    BY <2>1 DEF CheckActive, ActionStep, Return
  <2>2. CASE StartFails
    BY <2>2 DEF StartFails, ActionStep, Return
  <2>3. CASE StartEtwSession
    BY <2>3 DEF StartEtwSession, NewEtw, NewOutput, ActionStep, Return
  <2>4. CASE Snapshot
    BY <2>4 DEF Snapshot, ActionStep, Return
  <2>5. CASE SyncTrackedPidState
    BY <2>5 DEF SyncTrackedPidState, ActionStep, Return
  <2>6. CASE Decide
    BY <2>6 DEF Decide, ActionStep, Return
  <2>7. CASE Branch
    BY <2>7 DEF Branch, ActionStep, Return
  <2>8. CASE OpenGate
    BY <2>8 DEF OpenGate, ActionStep, Return
  <2>9. CASE StartProviders
    BY <2>9 DEF StartProviders, ActionStep, Return
  <2>10. CASE CloseGate
    BY <2>10 DEF CloseGate, ActionStep, Return
  <2>11. CASE StopProviders
    BY <2>11 DEF StopProviders, ActionStep, Return
  <2>12. CASE SetStreaming
    BY <2>12 DEF SetStreaming, ActionStep, Return
  <2>13. CASE ResetStreaming
    BY <2>13 DEF ResetStreaming, ActionStep, Return
  <2>14. CASE KeepStreaming
    BY <2>14 DEF KeepStreaming, ActionStep, Return
  <2> QED
    BY <1>1, <2>1, <2>2, <2>3, <2>4, <2>5, <2>6, <2>7, <2>8, <2>9, <2>10, <2>11, <2>12, <2>13,
       <2>14 DEF UpdateTracking
<1>2. CASE Action /\ ~UpdateTracking
  <2>1. CASE BeginReset
    BY <2>1 DEF BeginReset, ActionStep, Goto
  <2>2. CASE Drain
    BY <2>2 DEF Drain, ActionStep, Goto
  <2>3. CASE LoadExpected
    BY <2>3 DEF LoadExpected, ActionStep, Goto
  <2>4. CASE WaitOnAddress
    BY <2>4 DEF WaitOnAddress, ActionStep, Goto
  <2>5. CASE Clear
    BY <2>5 DEF Clear, AfterReset, ActionStep, Goto
  <2> QED
    BY <1>2, <2>1, <2>2, <2>3, <2>4, <2>5 DEF Action
<1>3. CASE DrainTimesOut \/ WaitEnds
  BY <1>3 DEF DrainTimesOut, AfterReset, WaitEnds, ActionStep, Goto
<1>4. CASE Client
  BY <1>4 DEF Client, StartTracking, StopTracking, Call, ActionStep
<1>5. CASE Etw
  <2>1. CASE BeginEvent
    <3>1. UNCHANGED <<processEvents, output>>
      BY <2>1 DEF BeginEvent, NextEvent
    <3>2. CASE logged # <<>> /\ etw' = [pc |-> "counted", event |-> Head(logged)]
               /\ logged' = Tail(logged)
      <4>1. Head(logged) \in Pids /\ Tail(logged) \in Seq(Pids)
        BY <3>2
      <4> QED
        BY <3>1, <3>2, <4>1
    <3>3. CASE etw' = [pc |-> "counted", event |-> 0] /\ logged' = logged
      BY <3>1, <3>3
    <3> QED
      BY <2>1, <3>2, <3>3 DEF BeginEvent, NextEvent
  <2>2. CASE CheckGate
    BY <2>2 DEF CheckGate, EtwStep
  <2>3. CASE HandleEvent
    <3>1. UNCHANGED <<logged, output>> /\ etw'.event = etw.event
      BY <2>3 DEF HandleEvent, EtwStep
    <3>2. processEvents' \in Seq(Pids)
      <4>1. CASE etw.event \in Pids /\ processEvents' = Append(processEvents, etw.event)
        BY <4>1
      <4>2. CASE processEvents' = processEvents
        BY <4>2
      <4> QED
        BY <2>3, <4>1, <4>2 DEF HandleEvent
    <3> QED
      BY <3>1, <3>2
  <2>4. CASE EndScope
    BY <2>4 DEF EndScope, EtwStep
  <2>5. CASE WakeAll
    BY <2>5 DEF WakeAll, EtwStep
  <2>6. CASE ProcessTraceReturns
    BY <2>6 DEF ProcessTraceReturns, EtwStep
  <2> QED
    BY <1>5, <2>1, <2>2, <2>3, <2>4, <2>5, <2>6 DEF Etw
<1>6. CASE Output
  <2>1. CASE CheckSession
    BY <2>1 DEF CheckSession, NextRound, OutputStep
  <2>2. CASE DequeueAnalyzedInfo
    BY <2>2 DEF DequeueAnalyzedInfo, NextRound, OutputStep
  <2>3. CASE UpdateProcesses
    BY <2>3 DEF UpdateProcesses, MarkProcessExited, OutputStep
  <2>4. CASE HandleTerminatedProcess
    <3>1. /\ output.terminated # <<>>
          /\ output' = [output EXCEPT !.pc = "handle", !.terminated = Tail(@)]
          /\ UNCHANGED <<logged, processEvents, etw>>
      BY <2>4 DEF HandleTerminatedProcess, OutputStep
    <3>2. output'.exits = output.exits /\ output'.terminated = Tail(output.terminated)
      BY <3>1
    <3>3. Tail(output.terminated) \in Seq(Pids)
      BY <3>1
    <3> QED
      BY <3>1, <3>2, <3>3
  <2>5. CASE CheckLive
    BY <2>5 DEF CheckLive, OutputStep
  <2>6. CASE ResetEvent
    BY <2>6 DEF ResetEvent, OutputStep
  <2>7. CASE EndRound
    BY <2>7 DEF EndRound, NextRound, OutputStep
  <2> QED
    BY <1>6, <2>1, <2>2, <2>3, <2>4, <2>5, <2>6, <2>7 DEF Output
<1>7. CASE StopTraceSessions \/ Main
  BY <1>7 DEF Main, StopTraceSessions, StopBegins, CloseTrace, WaitForConsumerThreadToExit,
     CleanUp, ClearTrackedProcesses, ActionServerEnds, MainStep
<1>8. CASE \E p \in Mortal : ProcessExits(p)
  BY <1>8 DEF ProcessExits
<1>9. CASE UNCHANGED vars
  BY <1>9 DEF vars
<1> HIDE DEF Exits
<1> QED
  BY <1>1, <1>2, <1>3, <1>4, <1>5, <1>6, <1>7, <1>8, <1>9 DEF Next

LEMMA TrackedNext == Shape /\ Exits /\ Tracked /\ [Next]_vars => Tracked'
<1> SUFFICES ASSUME Shape, Exits, Tracked, [Next]_vars PROVE Tracked'
  OBVIOUS
<1> USE RealtimeAssumption DEF Tracked, Marks, Shape, At, NoAct, sessionVars, tableVars, osVars
<1>1. CASE UpdateTracking
  BY <1>1 DEF UpdateTracking, CheckActive, StartFails, StartEtwSession, NewEtw, NewOutput,
     Snapshot, SyncTrackedPidState, Decide, Branch, OpenGate, StartProviders, CloseGate,
     StopProviders, SetStreaming, ResetStreaming, KeepStreaming, ActionStep, Return
<1>2. CASE Action /\ ~UpdateTracking
  BY <1>2 DEF Action, BeginReset, Drain, LoadExpected, WaitOnAddress, Clear, AfterReset,
     ActionStep, Goto
<1>3. CASE DrainTimesOut \/ WaitEnds
  BY <1>3 DEF DrainTimesOut, AfterReset, WaitEnds, ActionStep, Goto
<1>4. CASE Client
  BY <1>4 DEF Client, StartTracking, StopTracking, Call, ActionStep
<1>5. CASE Etw
  BY <1>5 DEF Etw, BeginEvent, NextEvent, CheckGate, HandleEvent, EndScope, WakeAll,
     ProcessTraceReturns, EtwStep
<1>6. CASE Output
  BY <1>6 DEF Output, CheckSession, NextRound, DequeueAnalyzedInfo, UpdateProcesses,
     MarkProcessExited, HandleTerminatedProcess, CheckLive, ResetEvent, EndRound, OutputStep,
     Exits
<1>7. CASE StopTraceSessions \/ Main
  BY <1>7 DEF Main, StopTraceSessions, StopBegins, CloseTrace, WaitForConsumerThreadToExit,
     CleanUp, ClearTrackedProcesses, ActionServerEnds, MainStep
<1>8. CASE \E p \in Mortal : ProcessExits(p)
  BY <1>8 DEF ProcessExits
<1>9. CASE UNCHANGED vars
  BY <1>9 DEF vars
<1> HIDE DEF Tracked
<1> QED
  BY <1>1, <1>2, <1>3, <1>4, <1>5, <1>6, <1>7, <1>8, <1>9 DEF Next

LEMMA CountsNext == Counts /\ [Next]_vars => Counts'
<1> SUFFICES ASSUME Counts, [Next]_vars PROVE Counts'
  OBVIOUS
<1> USE RealtimeAssumption DEF Counts, sessionVars, tableVars, osVars
<1>1. CASE UpdateTracking
  BY <1>1 DEF UpdateTracking, CheckActive, StartFails, StartEtwSession, NewEtw, NewOutput,
     Snapshot, SyncTrackedPidState, Decide, Branch, OpenGate, StartProviders, CloseGate,
     StopProviders, SetStreaming, ResetStreaming, KeepStreaming, ActionStep, Return
<1>2. CASE Action /\ ~UpdateTracking
  BY <1>2 DEF Action, BeginReset, Drain, LoadExpected, WaitOnAddress, Clear, AfterReset,
     ActionStep, Goto
<1>3. CASE DrainTimesOut \/ WaitEnds
  BY <1>3 DEF DrainTimesOut, AfterReset, WaitEnds, ActionStep, Goto
<1>4. CASE Client
  <2>1. ASSUME NEW p \in Pids, StartTracking(p) PROVE Counts'
    BY <2>1 DEF StartTracking, Call, ActionStep
  <2>2. ASSUME NEW ps, StopTracking(ps) PROVE Counts'
    BY <2>2 DEF StopTracking, Call, ActionStep
  <2> HIDE DEF Counts
  <2> QED
    BY <1>4, <2>1, <2>2 DEF Client
<1>5. CASE Etw
  <2>1. CASE BeginEvent
    BY <2>1 DEF BeginEvent, NextEvent, EtwStep
  <2>2. CASE CheckGate
    BY <2>2 DEF CheckGate, EtwStep
  <2>3. CASE HandleEvent
    BY <2>3 DEF HandleEvent, EtwStep
  <2>4. CASE EndScope
    BY <2>4 DEF EndScope, EtwStep
  <2>5. CASE WakeAll
    BY <2>5 DEF WakeAll, EtwStep
  <2>6. CASE ProcessTraceReturns
    BY <2>6 DEF ProcessTraceReturns, EtwStep
  <2> QED
    BY <1>5, <2>1, <2>2, <2>3, <2>4, <2>5, <2>6 DEF Etw
<1>6. CASE Output
  BY <1>6 DEF Output, CheckSession, NextRound, DequeueAnalyzedInfo, UpdateProcesses,
     MarkProcessExited, HandleTerminatedProcess, CheckLive, ResetEvent, EndRound, OutputStep
<1>7. CASE StopTraceSessions \/ Main
  BY <1>7 DEF Main, StopTraceSessions, StopBegins, CloseTrace, WaitForConsumerThreadToExit,
     CleanUp, ClearTrackedProcesses, ActionServerEnds, MainStep
<1>8. CASE \E p \in Mortal : ProcessExits(p)
  BY <1>8 DEF ProcessExits
<1>9. CASE UNCHANGED vars
  BY <1>9 DEF vars
<1> HIDE DEF Counts
<1> QED
  BY <1>1, <1>2, <1>3, <1>4, <1>5, <1>6, <1>7, <1>8, <1>9 DEF Next

\* The variables keep their types, and mEventProcessingInFlight counts the event
\* handlers between the constructor and the destructor of EventProcessingScope.
THEOREM TypeCorrect == Spec => []TypeOK
<1>1. Init => Types
  <2> USE DEF Init, NoAct, NewEtw, NewOutput
  <2>1. Init => Flags
    BY DEF Flags
  <2>2. Init => Places
    BY DEF Places, ActionPlaces, MainPlaces, EtwPlaces, OutputPlaces
  <2>3. Init => Exits /\ Tracked
    BY DEF Exits, Tracked, Marks
  <2>4. Init => Counts
    BY RealtimeAssumption DEF Counts
  <2> QED
    BY <2>1, <2>2, <2>3, <2>4 DEF Types
<1>2. Types /\ SessionInv /\ [Next]_vars => Types'
  BY FlagsNext, PlacesNext, ExitsNext, TrackedNext, CountsNext DEF Types, SessionInv
<1>3. Types /\ SessionInv => TypeOK
  BY DEF Types, Flags, Places, Exits, Tracked, Counts, Marks, SessionInv, Shape, GateInv, TypeOK
<1> QED
  BY <1>1, <1>2, <1>3, SessionSafe, PTL DEF Spec

----
\* The event that stands for the providers.

\* As long as the service is not stopped the session is there, and from the
\* opening of the gate on nobody closes it before the event is set.
StreamInv ==
    pc.main = "idle" =>
        /\ sessionActive /\ consumer /\ open
        /\ ~At("start")
        /\ At("enable") \/ At("signal") => enabled
        /\ At("signal") => providers
        /\ streaming /\ pc.action \in {"idle", "active", "lock", "sync", "decide", "branch", "none"}
             => providers /\ enabled

LEMMA StreamNext == Shape /\ StreamInv /\ [Next]_vars => StreamInv'
<1> SUFFICES ASSUME Shape, StreamInv, [Next]_vars PROVE StreamInv'
  OBVIOUS
<1> USE DEF Shape, StreamInv, At, NoAct, sessionVars, tableVars, osVars
<1>1. CASE UpdateTracking
  <2>1. CASE CheckActive
    BY <2>1 DEF CheckActive, ActionStep, Return
  <2>2. CASE StartFails
    BY <2>2 DEF StartFails, ActionStep, Return
  <2>3. CASE StartEtwSession
    BY <2>3 DEF StartEtwSession, NewEtw, NewOutput, ActionStep, Return
  <2>4. CASE Snapshot
    BY <2>4 DEF Snapshot, ActionStep, Return
  <2>5. CASE SyncTrackedPidState
    BY <2>5 DEF SyncTrackedPidState, ActionStep, Return
  <2>6. CASE Decide
    BY <2>6 DEF Decide, ActionStep, Return
  <2>7. CASE Branch
    BY <2>7 DEF Branch, ActionStep, Return
  <2>8. CASE OpenGate
    BY <2>8 DEF OpenGate, ActionStep, Return
  <2>9. CASE StartProviders
    BY <2>9 DEF StartProviders, ActionStep, Return
  <2>10. CASE CloseGate
    BY <2>10 DEF CloseGate, ActionStep, Return
  <2>11. CASE StopProviders
    BY <2>11 DEF StopProviders, ActionStep, Return
  <2>12. CASE SetStreaming
    BY <2>12 DEF SetStreaming, ActionStep, Return
  <2>13. CASE ResetStreaming
    BY <2>13 DEF ResetStreaming, ActionStep, Return
  <2>14. CASE KeepStreaming
    BY <2>14 DEF KeepStreaming, ActionStep, Return
  <2> QED
    BY <1>1, <2>1, <2>2, <2>3, <2>4, <2>5, <2>6, <2>7, <2>8, <2>9, <2>10, <2>11, <2>12, <2>13,
       <2>14 DEF UpdateTracking
<1>2. CASE Action /\ ~UpdateTracking
  <2>1. CASE BeginReset
    BY <2>1 DEF BeginReset, ActionStep, Goto
  <2>2. CASE Drain
    BY <2>2 DEF Drain, ActionStep, Goto
  <2>3. CASE LoadExpected
    BY <2>3 DEF LoadExpected, ActionStep, Goto
  <2>4. CASE WaitOnAddress
    BY <2>4 DEF WaitOnAddress, ActionStep, Goto
  <2>5. CASE Clear
    BY <2>5 DEF Clear, AfterReset, ActionStep, Goto
  <2> QED
    BY <1>2, <2>1, <2>2, <2>3, <2>4, <2>5 DEF Action
<1>3. CASE DrainTimesOut \/ WaitEnds
  <2>1. CASE DrainTimesOut
    BY <2>1 DEF DrainTimesOut, AfterReset, ActionStep, Goto
  <2>2. CASE WaitEnds
    BY <2>2 DEF WaitEnds, ActionStep, Goto
  <2> QED
    BY <1>3, <2>1, <2>2
<1>4. CASE Client
  BY <1>4 DEF Client, StartTracking, StopTracking, Call, ActionStep
<1>5. CASE Etw
  <2>1. CASE BeginEvent
    BY <2>1 DEF BeginEvent, NextEvent, EtwStep
  <2>2. CASE CheckGate
    BY <2>2 DEF CheckGate, EtwStep
  <2>3. CASE HandleEvent
    BY <2>3 DEF HandleEvent, EtwStep
  <2>4. CASE EndScope
    BY <2>4 DEF EndScope, EtwStep
  <2>5. CASE WakeAll
    BY <2>5 DEF WakeAll, EtwStep
  <2>6. CASE ProcessTraceReturns
    BY <2>6 DEF ProcessTraceReturns, EtwStep
  <2> QED
    BY <1>5, <2>1, <2>2, <2>3, <2>4, <2>5, <2>6 DEF Etw
<1>6. CASE Output
  <2>1. CASE CheckSession
    BY <2>1 DEF CheckSession, NextRound, OutputStep
  <2>2. CASE DequeueAnalyzedInfo
    BY <2>2 DEF DequeueAnalyzedInfo, NextRound, OutputStep
  <2>3. CASE UpdateProcesses
    BY <2>3 DEF UpdateProcesses, MarkProcessExited, OutputStep
  <2>4. CASE HandleTerminatedProcess
    BY <2>4 DEF HandleTerminatedProcess, MarkProcessExited, OutputStep
  <2>5. CASE CheckLive
    BY <2>5 DEF CheckLive, OutputStep
  <2>6. CASE ResetEvent
    BY <2>6 DEF ResetEvent, OutputStep
  <2>7. CASE EndRound
    BY <2>7 DEF EndRound, NextRound, OutputStep
  <2> QED
    BY <1>6, <2>1, <2>2, <2>3, <2>4, <2>5, <2>6, <2>7 DEF Output
<1>7. CASE StopTraceSessions \/ Main
  <2>1. CASE StopTraceSessions
    BY <2>1 DEF StopTraceSessions, MainStep
  <2>2. CASE StopBegins
    BY <2>2 DEF StopBegins, MainStep
  <2>3. CASE CloseTrace
    BY <2>3 DEF CloseTrace, MainStep
  <2>4. CASE WaitForConsumerThreadToExit
    BY <2>4 DEF WaitForConsumerThreadToExit, MainStep
  <2>5. CASE CleanUp
    BY <2>5 DEF CleanUp, MainStep
  <2>6. CASE ClearTrackedProcesses
    BY <2>6 DEF ClearTrackedProcesses, MainStep
  <2>7. CASE ActionServerEnds
    BY <2>7 DEF ActionServerEnds, MainStep
  <2> QED
    BY <1>7, <2>1, <2>2, <2>3, <2>4, <2>5, <2>6, <2>7 DEF Main
<1>8. CASE \E p \in Mortal : ProcessExits(p)
  BY <1>8 DEF ProcessExits
<1>9. CASE UNCHANGED vars
  BY <1>9 DEF vars
<1> HIDE DEF StreamInv
<1> QED
  BY <1>1, <1>2, <1>3, <1>4, <1>5, <1>6, <1>7, <1>8, <1>9 DEF Next

\* UpdateTracking takes evtStreamingStarted_ for the state of the providers: while
\* no call is changing it and the service is not stopping, a set event means that
\* they are enabled and that the gate lets their events pass.
THEOREM EventMeansProviders == Spec => []StreamingMeansEnabled
<1>1. Init => StreamInv
  BY DEF Init, StreamInv, At
<1>2. SessionInv /\ StreamInv /\ [Next]_vars => StreamInv'
  BY StreamNext DEF SessionInv
<1>3. SessionInv /\ StreamInv => StreamingMeansEnabled
  BY DEF SessionInv, MutexInv, StreamInv, At, StreamingMeansEnabled
<1> QED
  BY <1>1, <1>2, <1>3, SessionSafe, PTL DEF Spec
====
