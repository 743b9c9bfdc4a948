---- MODULE PlaybackSessionProofs ----
(***************************************************************************)
(* Proofs about PlaybackSession, for every trace, number of clients and    *)
(* size of the rings: the consumer outlives its threads and these are      *)
(* joined before the clean-up, as long as the main thread does not stop a  *)
(* session that is half started; the types; and the targets of the clients *)
(* are tracked, also after a start that failed.                            *)
(*                                                                         *)
(* session_active_.exchange makes one thread the stopper of a session, and *)
(* a session is only started when no consumer is left; so from the exchange*)
(* to the clean-up nobody starts a thread, and what the stopper has joined *)
(* stays so.                                                               *)
(***************************************************************************)
EXTENDS PlaybackSession, PresentRingProofs

\* The records keep their fields.
Shape ==
    /\ pc = [action |-> pc.action, main |-> pc.main]
    /\ analysis = [pc |-> analysis.pc, next |-> analysis.next]
    /\ output = [pc |-> output.pc, quit |-> output.quit, batch |-> output.batch]

StopPlaces == {"close", "joinConsumer", "stopOutput", "joinOutput", "cleanup"}
Stopping(t) == pc[t] \in StopPlaces

\* What the stopper has joined
StopperInv(t) ==
    /\ pc[t] \in {"stopOutput", "joinOutput", "cleanup"} => analysis.pc = "none"
    /\ pc[t] = "cleanup" => output.pc = "none"

\* A session has a consumer while it is active or being stopped, by one thread.
StopInv ==
    /\ consumer <=> sessionActive \/ Stopping("action") \/ Stopping("main")
    /\ sessionActive => ~Stopping("action") /\ ~Stopping("main")
    /\ ~(Stopping("action") /\ Stopping("main"))
    /\ StopperInv("action") /\ StopperInv("main")
    /\ ~consumer => analysis.pc = "none" /\ output.pc = "none"
    /\ Starting => sessionActive
    /\ pc.action = "startConsumer" => analysis.pc = "none"
    /\ Starting => output.pc = "none"

SessionInv == Shape /\ StopInv

\* The steps of the analysis thread that change its consumer
CompletionStep ==
    \/ CompletePresent \/ Unblock
    \/ \E n \in Presents : PresentStop(n) \/ RemoveLostPresent(n) \/ FlipFrameTypesOver(n)

LEMMA CompletionIs ==
    ASSUME CompletionStep
    PROVE  /\ UNCHANGED <<sessionActive, consumer, mutex, continueBuffers, quitOutput, output,
                          trackVars, stopVars, pc>>
           /\ analysis.pc \in {"events", "blocked"}
           /\ \/ analysis' = analysis
              \/ /\ analysis.pc = "events" /\ analysis.next \in Presents
                 /\ analysis' = [analysis EXCEPT !.pc = "blocked"]
              \/ /\ analysis.pc = "events" => analysis.next \in Presents
                 /\ analysis' = [pc |-> "events", next |-> analysis.next + 1]
<1>1. CASE CompletePresent
  BY <1>1 DEF CompletePresent, AppendPresent, WaitForRoom, RefusePresent, OverwritePresent,
     Overwrite, Store, Advance
<1>2. CASE Unblock
  BY <1>2 DEF Unblock, Store, Advance
<1>3. CASE \E n \in Presents : PresentStop(n) \/ RemoveLostPresent(n) \/ FlipFrameTypesOver(n)
  BY <1>3 DEF PresentStop, RemoveLostPresent, FlipFrameTypesOver, EndDeferral, threadVars
<1> QED
  BY <1>1, <1>2, <1>3 DEF CompletionStep

LEMMA InvInit == Init => SessionInv
BY DEF Init, SessionInv, Shape, StopInv, StopPlaces, Stopping, StopperInv, Starting, Goto,
            sessionVars, threadVars, trackVars, stopVars

LEMMA InvUpdateTracking ==
    ASSUME ~StopRaces, SessionInv, UpdateTracking PROVE SessionInv'
<1> USE DEF SessionInv, Shape, StopInv, StopPlaces, Stopping, StopperInv, Starting, Goto,
            sessionVars, threadVars, trackVars, stopVars
<1>1. CASE Snapshot
  BY <1>1 DEF Snapshot
<1>2. CASE SyncTrackedPidState
  BY <1>2 DEF SyncTrackedPidState
<1>3. CASE Decide
  BY <1>3 DEF Decide
<1>4. CASE StartFails
  BY <1>4 DEF StartFails
<1>5. CASE StartTraceSession
  BY <1>5 DEF StartTraceSession, OpenSession
<1>6. CASE StartConsumerThread
  BY <1>6 DEF StartConsumerThread
<1>7. CASE StartOutputThread
  BY <1>7 DEF StartOutputThread
<1>8. CASE FinishStart
  BY <1>8 DEF FinishStart
<1>9. CASE FinishStop
  BY <1>9 DEF FinishStop
<1> QED
  BY <1>1, <1>2, <1>3, <1>4, <1>5, <1>6, <1>7, <1>8, <1>9 DEF UpdateTracking

LEMMA InvStop ==
    ASSUME ~StopRaces, SessionInv, NEW t \in {"action", "main"}, StopTraceSession(t)
    PROVE  SessionInv'
<1> USE DEF SessionInv, Shape, StopInv, StopPlaces, Stopping, StopperInv, Starting, Goto,
            sessionVars, threadVars, trackVars, stopVars
<1>1. CASE StopBegins(t)
  BY <1>1 DEF StopBegins
<1>2. CASE CloseTrace(t)
  BY <1>2 DEF CloseTrace
<1>3. CASE WaitForConsumerThreadToExit(t)
  BY <1>3 DEF WaitForConsumerThreadToExit
<1>4. CASE StopOutputThread(t)
  BY <1>4 DEF StopOutputThread
<1>5. CASE JoinOutput(t)
  BY <1>5 DEF JoinOutput
<1>6. CASE CleanUp(t)
  BY <1>6 DEF CleanUp
<1> QED
  BY <1>1, <1>2, <1>3, <1>4, <1>5, <1>6 DEF StopTraceSession

LEMMA InvAnalysis ==
    ASSUME ~StopRaces, SessionInv, Analysis PROVE SessionInv'
<1> USE DEF SessionInv, Shape, StopInv, StopPlaces, Stopping, StopperInv, Starting, Goto,
            sessionVars, threadVars, trackVars, stopVars
<1>1. CASE CompletionStep
  BY <1>1, CompletionIs
<1>2. CASE ProcessTraceReturns
  BY <1>2 DEF ProcessTraceReturns
<1> QED
  BY <1>1, <1>2 DEF Analysis, CompletionStep

LEMMA InvOutput ==
    ASSUME ~StopRaces, SessionInv, Output PROVE SessionInv'
<1> USE DEF SessionInv, Shape, StopInv, StopPlaces, Stopping, StopperInv, Starting, Goto,
            sessionVars, threadVars, trackVars, stopVars
<1>1. CASE ReadQuit
  BY <1>1 DEF ReadQuit
<1>2. CASE CheckActive
  BY <1>2 DEF CheckActive
<1>3. CASE DequeuePresentEvents
  BY <1>3 DEF DequeuePresentEvents
<1>4. CASE AddPresent
  BY <1>4 DEF AddPresent
<1>5. CASE Broadcast
  BY <1>5 DEF Broadcast
<1>6. CASE EndRound
  BY <1>6 DEF EndRound
<1> QED
  BY <1>1, <1>2, <1>3, <1>4, <1>5, <1>6 DEF Output

LEMMA InvNext == ASSUME ~StopRaces, SessionInv, [Next]_vars PROVE SessionInv'
<1>1. CASE Action
  <2>1. CASE UpdateTracking
    BY <2>1, InvUpdateTracking
  <2>2. CASE ReleaseBackpressure
    BY <2>2 DEF ReleaseBackpressure, SessionInv, Shape, StopInv, StopPlaces, Stopping, StopperInv, Starting, Goto,
            sessionVars, threadVars, trackVars, stopVars
  <2>3. CASE StopTraceSession("action")
    BY <2>3, InvStop
  <2> QED
    BY <1>1, <2>1, <2>2, <2>3 DEF Action
<1>2. CASE Main
  <2>1. CASE CheckTraceSessions
    BY <2>1 DEF CheckTraceSessions, SessionInv, Shape, StopInv, StopPlaces, Stopping, StopperInv, Starting, Goto,
            sessionVars, threadVars, trackVars, stopVars
  <2>2. CASE MainReturns
    BY <2>2 DEF MainReturns, SessionInv, Shape, StopInv, StopPlaces, Stopping, StopperInv, Starting, Goto,
            sessionVars, threadVars, trackVars, stopVars
  <2>3. CASE StopTraceSession("main")
    BY <2>3, InvStop
  <2>4. CASE DestroyPresentMon
    BY <2>4 DEF DestroyPresentMon, SessionInv, Shape, StopInv, StopPlaces, Stopping, StopperInv, Starting, Goto,
            sessionVars, threadVars, trackVars, stopVars
  <2> QED
    BY <1>2, <2>1, <2>2, <2>3, <2>4 DEF Main
<1>3. CASE Analysis
  BY <1>3, InvAnalysis
<1>4. CASE Output
  BY <1>4, InvOutput
<1> USE DEF SessionInv, Shape, StopInv, StopPlaces, Stopping, StopperInv, Starting, Goto,
            sessionVars, threadVars, trackVars, stopVars
<1>5. CASE Report
  BY <1>5 DEF Report, ReportFrameReadProgress
<1>6. CASE ClientCall
  <2>1. ASSUME NEW c, NEW p, NEW bp, StartTracking(c, p, bp) PROVE SessionInv'
    BY <2>1 DEF StartTracking, Call
  <2>2. ASSUME NEW c, NEW ps, BeginRelease(c, ps) PROVE SessionInv'
    BY <2>2 DEF BeginRelease, Call
  <2>3. CASE StopPlayback
    BY <2>3 DEF StopPlayback
  <2>4. CASE StopTraceSessions
    BY <2>4 DEF StopTraceSessions
  <2> QED
    BY <1>6, <2>1, <2>2, <2>3, <2>4 DEF ClientCall, StopTracking, Dispose
<1>7. CASE UNCHANGED vars
  BY <1>7 DEF vars
<1> QED
  BY <1>1, <1>2, <1>3, <1>4, <1>5, <1>6, <1>7 DEF Next

LEMMA SessionSafe == ASSUME ~StopRaces PROVE Spec => []SessionInv
<1>1. SessionInv /\ [Next]_vars => SessionInv'
  BY InvNext
<1> QED
  BY <1>1, InvInit, PTL DEF Spec

\* StopTraceSession destroys the consumer only when the analysis and the output
\* thread have ended, whichever thread stops and whatever clients do meanwhile, and
\* StartTraceSession never assigns to a std::thread that is still joinable.
THEOREM ThreadsEndBeforeSession == ASSUME ~StopRaces PROVE Spec => []ThreadsEndFirst
<1>1. SessionInv => ConsumerOutlivesThreads
  BY DEF SessionInv, StopInv, ConsumerOutlivesThreads, AnalysisRuns, OutputRuns
<1>2. SessionInv => ThreadsJoined
  BY DEF SessionInv, StopInv, ThreadsJoined
<1>3. SessionInv => ThreadsEndFirst
  BY <1>1, <1>2 DEF ThreadsEndFirst
<1> QED
  BY <1>3, SessionSafe, PTL
----
\* Types, and the processes that are tracked.

AnalysisPlaces == {"none", "events", "blocked", "ended"}
OutputPlaces == {"none", "top", "check", "take", "add", "push", "ended"}

Flags ==
    /\ sessionActive \in BOOLEAN /\ consumer \in BOOLEAN
    /\ continueBuffers \in BOOLEAN /\ stopRequested \in BOOLEAN /\ quitOutput \in BOOLEAN
    /\ closing \in BOOLEAN /\ forced \in BOOLEAN

ThreadPlaces ==
    /\ mutex \in {"free", "action"}
    /\ pc.action \in Places /\ pc.main \in Places
    /\ analysis.pc \in AnalysisPlaces /\ output.pc \in OutputPlaces

\* The presents of the file that are under way
Queued ==
    /\ output.batch \in Seq(Presents)
    /\ output.pc = "push" => output.batch # <<>>
    /\ analysis.next \in 1 .. Len(Trace) + 1
    /\ analysis.pc = "blocked" => analysis.next \in Presents

WaitsType == [Presents -> SUBSET DeferralKinds]
Numbers == 0 .. Len(Trace)

\* The consumer's ring and what its presents wait for
Stored ==
    /\ RingOK(ring, Numbers)
    /\ \A i \in 0 .. ring.count - 1 : Entry(ring, i) \in Presents
    /\ waits \in WaitsType
    /\ lost \in SUBSET Presents /\ gaveUp \in SUBSET Presents

\* The ready count stops only at a present that waits.
Stuck(r, w) == r.ready = r.count \/ w[Entry(r, r.ready)] # {}

SameEntries(r, s) ==
    s.count = r.count /\ \A i \in 0 .. r.count - 1 : Entry(s, i) = Entry(r, i)

\* Present n came behind those of r ...
Added(r, s, n) ==
    /\ s.count = r.count + 1 /\ Entry(s, r.count) = n
    /\ \A i \in 0 .. r.count - 1 : Entry(s, i) = Entry(r, i)

\* ... and the oldest of them went.
Rolled(r, s, n) ==
    /\ r.count >= 1 /\ s.count = r.count /\ Entry(s, r.count - 1) = n
    /\ \A i \in 0 .. r.count - 2 : Entry(s, i) = Entry(r, i + 1)

InRing(r) == {Entry(r, i) : i \in 0 .. r.count - 1}

LEMMA RingCounts ==
    ASSUME NEW r, RingOK(r, Numbers)
    PROVE  r.count \in Nat /\ r.count <= RingSize /\ r.ready \in Nat /\ r.ready <= r.count
BY RingSizeAssumption DEF RingOK, RingType

\* What Settle leaves behind
Settled(r, w, l, s) ==
    /\ RingOK(s.ring, Numbers) /\ SameEntries(r, s.ring)
    /\ \A i \in 0 .. r.count - 1 : Entry(s.ring, i) \in Presents
    /\ s.waits \in WaitsType /\ \A q \in Presents : s.waits[q] \subseteq w[q]
    /\ l \subseteq s.lost /\ s.lost \subseteq l \cup InRing(r)
    /\ Stuck(s.ring, s.waits)

LEMMA SettleIs ==
    ASSUME NEW r, RingOK(r, Numbers), NEW w \in WaitsType, NEW l \in SUBSET Presents, NEW st,
           NEW p, \A i \in 0 .. r.count - 1 : Entry(r, i) \in Presents
    PROVE  Settled(r, w, l, Settle(r, w, l, st, p))
<1> DEFINE r1 == UpdateReadyCount(r, Deferred(w))
           head == Entry(r1, 0)
           w1 == [w EXCEPT ![head] = w[head] \ {"stop", "flip"}]
           r2 == UpdateReadyCount(r1, Deferred(w1))
           s == Settle(r, w, l, st, p)
<1>1. /\ RingOK(r1, Numbers) /\ r1.count = r.count
      /\ r1.ready = r.count \/ Entry(r, r1.ready) \in Deferred(w)
      /\ \A i : Entry(r1, i) = Entry(r, i)
  BY ReadyCountIs
<1> HIDE DEF r1
<1>2. r.count \in Nat
  BY RingCounts
<1>3. CASE ~Stale(r1, st, p)
  <2>1. s.ring = r1 /\ s.waits = w /\ s.lost = l
    BY <1>3 DEF Settle, r1
  <2>2. Stuck(r1, w)
    BY <1>1 DEF Stuck, Deferred
  <2> HIDE DEF s
  <2> QED
    BY <1>1, <2>1, <2>2 DEF Settled, SameEntries, s
<1>4. CASE Stale(r1, st, p)
  <2>1. /\ s.ring = r2 /\ s.waits = w1
        /\ s.lost = IF "stop" \in w[head] THEN l \cup {head} ELSE l
    BY <1>4 DEF Settle, r1
  <2>2. head \in InRing(r) /\ head \in Presents
    <3>1. 0 \in 0 .. r.count - 1
      BY <1>1, <1>2, <1>4 DEF Stale
    <3> QED
      BY <1>1, <3>1 DEF InRing
  <2> HIDE DEF head
  <2>3. w1 \in WaitsType /\ \A q \in Presents : w1[q] \subseteq w[q]
    BY <2>2 DEF WaitsType
  <2> HIDE DEF w1
  <2>4. /\ RingOK(r2, Numbers) /\ r2.count = r1.count
        /\ r2.ready = r1.count \/ Entry(r1, r2.ready) \in Deferred(w1)
        /\ \A i : Entry(r2, i) = Entry(r1, i)
    BY <1>1, ReadyCountIs DEF r2
  <2> HIDE DEF r2
  <2>5. Stuck(r2, w1)
    BY <2>4 DEF Stuck, Deferred
  <2>6. SameEntries(r, r2) /\ \A i \in 0 .. r.count - 1 : Entry(r2, i) \in Presents
    BY <1>1, <2>4 DEF SameEntries
  <2> HIDE DEF s
  <2>7. l \subseteq s.lost /\ s.lost \subseteq l \cup InRing(r)
    BY <2>1, <2>2
  <2> QED
    BY <2>1, <2>3, <2>4, <2>5, <2>6, <2>7 DEF Settled, s
<1> QED
  BY <1>3, <1>4

LEMMA MergeIs ==
    ASSUME NEW v \in WaitsType, NEW n \in Presents
    PROVE  LET w == MergeFrameId(ring, v, ProcessOf, n)
           IN /\ w \in WaitsType /\ \A q \in Presents : w[q] \subseteq v[q]
              /\ v[n] = {} => w = v
<1> DEFINE w == MergeFrameId(ring, v, ProcessOf, n)
<1>1. DOMAIN v = Presents
  BY DEF WaitsType
<1>2. w = [q \in Presents |-> w[q]]
  BY <1>1 DEF MergeFrameId
<1>3. \A q \in Presents : w[q] = v[q] \/ ("frame" \in v[n] /\ w[q] = v[q] \ {"frame"})
  BY <1>1 DEF MergeFrameId
<1>4. v = [q \in Presents |-> v[q]]
  BY DEF WaitsType
<1> HIDE DEF w
<1>5. w \in WaitsType /\ \A q \in Presents : w[q] \subseteq v[q]
  BY <1>2, <1>3 DEF WaitsType
<1>6. v[n] = {} => w = v
  BY <1>2, <1>3, <1>4
<1> QED
  BY <1>5, <1>6 DEF w

Advanced == analysis'.pc = "events" /\ analysis'.next = analysis.next + 1

\* A step of the analysis thread ends a deferral, waits, gives the present up or stores it.
StoreStep ==
    \/ /\ analysis' = analysis /\ analysis.pc = "events"
       /\ SameEntries(ring, ring') /\ Stuck(ring', waits') /\ gaveUp' = gaveUp
    \/ /\ analysis.pc = "events" /\ analysis' = [analysis EXCEPT !.pc = "blocked"]
       /\ ring' = ring /\ gaveUp' = gaveUp
    \/ /\ Advanced /\ ring' = ring /\ gaveUp' = gaveUp
       /\ analysis.pc = "events" /\ analysis.next \in lost'
       /\ analysis.next \in lost \/ Trace[analysis.next].lost
       /\ Trace[analysis.next].waits = {} =>
            \A q \in Presents : q # analysis.next => waits'[q] = waits[q]
    \/ /\ Advanced /\ Added(ring, ring', analysis.next) /\ Stuck(ring', waits')
       /\ gaveUp' = gaveUp
    \/ /\ Advanced /\ Rolled(ring, ring', analysis.next) /\ Stuck(ring', waits')
       /\ analysis.pc = "events" /\ ring.ready = 0 /\ gaveUp \subseteq gaveUp'
       /\ waits[Entry(ring, 0)] # {} => Entry(ring, 0) \in gaveUp'

\* What neither is in the ring nor waits is left alone.
Untouched ==
    \A q \in Presents \ InRing(ring) :
        waits[q] = {} /\ (q = analysis.next => analysis' = analysis) =>
            waits'[q] = {} /\ (q \in lost' => q \in lost)

StoreFacts == Stored' /\ lost \subseteq lost' /\ StoreStep /\ Untouched

\* The present comes to the ring with the deferrals w and the lost presents l.
Arrives(n, w, l) ==
    /\ n \in Presents /\ n = analysis.next
    /\ w \in WaitsType /\ l \in SUBSET Presents
    /\ \A q \in Presents \ {n} : w[q] \subseteq waits[q]
    /\ lost \subseteq l /\ l \subseteq lost \cup {n}

LEMMA StoreIs ==
    ASSUME Stored, NEW n, NEW w, NEW l, Arrives(n, w, l),
           NEW r, Store(r, n, w, l), RingOK(r, Numbers),
           \A i \in 0 .. r.count - 1 : Entry(r, i) \in Presents,
           InRing(r) \subseteq InRing(ring) \cup {n}
    PROVE  /\ SameEntries(r, ring') /\ Stuck(ring', waits') /\ Advanced
           /\ gaveUp' \in SUBSET Presents => Stored'
           /\ lost \subseteq lost' /\ Untouched
<1> DEFINE s == Settle(r, w, l, StartOf, n)
<1>1. ring' = s.ring /\ waits' = s.waits /\ lost' = s.lost /\ Advanced
  BY DEF Store, Advance, Advanced
<1>2. Settled(r, w, l, s)
  BY SettleIs DEF Arrives
<1> HIDE DEF s
<1>3. SameEntries(r, ring') /\ Stuck(ring', waits') /\ lost \subseteq lost'
  BY <1>1, <1>2 DEF Settled, Arrives
<1>4. lost' \in SUBSET Presents
  <2>1. InRing(r) \subseteq Presents
    BY DEF InRing
  <2> QED
    BY <1>1, <1>2, <2>1 DEF Settled, Arrives
<1>5. gaveUp' \in SUBSET Presents => Stored'
  <2>1. ring'.count = r.count
    BY <1>3 DEF SameEntries
  <2> QED
    BY <1>1, <1>2, <1>4, <2>1 DEF Settled, Stored
<1>6. Untouched
  <2> SUFFICES ASSUME NEW q \in Presents \ InRing(ring), waits[q] = {},
                      q = analysis.next => analysis' = analysis
               PROVE  waits'[q] = {} /\ (q \in lost' => q \in lost)
    BY DEF Untouched
  <2>1. q # n
    <3>1. n \in Int
      BY DEF Arrives, Presents
    <3> QED
      BY <1>1, <3>1 DEF Arrives, Advanced
  <2>2. waits'[q] \subseteq w[q] /\ w[q] \subseteq waits[q]
    BY <1>1, <1>2, <2>1 DEF Settled, Arrives
  <2>3. q \in lost' => q \in lost
    BY <1>1, <1>2, <2>1 DEF Settled, Arrives
  <2> QED
    BY <2>2, <2>3
<1> QED
  BY <1>1, <1>3, <1>5, <1>6

LEMMA AddedIs ==
    ASSUME Stored, ring.count < RingSize, NEW n \in Presents
    PROVE  LET r == AppendCompleted(ring, n)
           IN /\ RingOK(r, Numbers) /\ Added(ring, r, n)
              /\ \A i \in 0 .. r.count - 1 : Entry(r, i) \in Presents
              /\ InRing(r) \subseteq InRing(ring) \cup {n}
<1> DEFINE r == AppendCompleted(ring, n)
<1>1. n \in Numbers /\ RingOK(ring, Numbers)
  BY PlaybackAssumption DEF Stored, Presents, Numbers
<1>2. RingOK(r, Numbers) /\ Added(ring, r, n)
  BY <1>1, AppendIs DEF Added
<1>3. ring.count \in Nat
  BY <1>1, RingCounts
<1> HIDE DEF r
<1>4. \A i \in 0 .. r.count - 1 : i = ring.count \/ i \in 0 .. ring.count - 1
  BY <1>2, <1>3 DEF Added
<1> QED
  BY <1>2, <1>4 DEF Added, Stored, InRing, r

LEMMA RolledIs ==
    ASSUME Stored, ring.count = RingSize, NEW n \in Presents
    PROVE  LET r == OverwriteOldest(ring, n)
           IN /\ RingOK(r, Numbers) /\ Rolled(ring, r, n)
              /\ \A i \in 0 .. r.count - 1 : Entry(r, i) \in Presents
              /\ InRing(r) \subseteq InRing(ring) \cup {n}
<1> DEFINE r == OverwriteOldest(ring, n)
<1>1. n \in Numbers /\ RingOK(ring, Numbers) /\ ring.count \in Nat /\ ring.count >= 1
  BY PlaybackAssumption, RingSizeAssumption DEF Stored, Presents, Numbers
<1>2. RingOK(r, Numbers) /\ Rolled(ring, r, n)
  BY <1>1, OverwriteIs DEF Rolled
<1> HIDE DEF r
<1>3. \A i \in 0 .. r.count - 1 : i = ring.count - 1 \/ (i \in 0 .. ring.count - 2 /\ i + 1 \in 0 .. ring.count - 1)
  BY <1>1, <1>2 DEF Rolled
<1>4. ASSUME NEW i \in 0 .. r.count - 1
      PROVE  Entry(r, i) \in Presents /\ Entry(r, i) \in InRing(ring) \cup {n}
  <2>1. CASE i = ring.count - 1
    BY <1>2, <2>1 DEF Rolled
  <2>2. CASE i \in 0 .. ring.count - 2 /\ i + 1 \in 0 .. ring.count - 1
    <3>1. Entry(r, i) = Entry(ring, i + 1)
      BY <1>2, <2>2 DEF Rolled
    <3> QED
      BY <2>2, <3>1 DEF Stored, InRing
  <2> QED
    BY <1>3, <2>1, <2>2
<1>5. InRing(r) \subseteq InRing(ring) \cup {n}
  BY <1>4 DEF InRing
<1> QED
  BY <1>2, <1>4, <1>5 DEF r

LEMMA SameIsAdded ==
    ASSUME NEW r, NEW s, NEW t, NEW n, r.count \in Nat, Added(r, s, n), SameEntries(s, t)
    PROVE  Added(r, t, n)
BY DEF Added, SameEntries

LEMMA SameIsRolled ==
    ASSUME NEW r, NEW s, NEW t, NEW n, r.count \in Nat, Rolled(r, s, n), SameEntries(s, t)
    PROVE  Rolled(r, t, n)
BY DEF Rolled, SameEntries

LEMMA LenTrace == Len(Trace) \in Nat
BY PlaybackAssumption

LEMMA FieldsOfPresent ==
    \A n \in Presents : Trace[n].waits \in SUBSET DeferralKinds /\ Trace[n].pid \in Pids
<1> DEFINE S == [pid : Pids, start : Nat, waits : SUBSET DeferralKinds,
                 lost : BOOLEAN, failed : BOOLEAN]
<1>1. Trace \in Seq(S)
  BY PlaybackAssumption
<1>2. \A s \in S : s.waits \in SUBSET DeferralKinds /\ s.pid \in Pids
  OBVIOUS
<1> HIDE DEF S
<1>3. \A n \in Presents : Trace[n] \in S
  BY <1>1 DEF Presents
<1> QED
  BY <1>2, <1>3

LEMMA CompleteStores ==
    ASSUME Stored, CompletePresent PROVE StoreFacts
<1> DEFINE n == analysis.next
           v == [waits EXCEPT ![n] = Trace[n].waits]
           w == MergeFrameId(ring, v, ProcessOf, n)
           l == IF Trace[n].lost THEN lost \cup {n} ELSE lost
<1>1. /\ analysis.pc = "events" /\ n \in Presents
      /\ \/ AppendPresent(n, w, l) \/ WaitForRoom(n, w, l)
         \/ RefusePresent(n, w, l) \/ OverwritePresent(n, w, l)
  BY DEF CompletePresent
<1>2. v \in WaitsType /\ v[n] = Trace[n].waits /\ \A q \in Presents \ {n} : v[q] = waits[q]
  <2>1. Trace[n].waits \in SUBSET DeferralKinds
    BY <1>1, FieldsOfPresent
  <2>2. waits \in [Presents -> SUBSET DeferralKinds] /\ n \in Presents
    BY <1>1 DEF Stored, WaitsType
  <2> HIDE DEF n
  <2> QED
    BY <2>1, <2>2 DEF WaitsType
<1> HIDE DEF v
<1>3. /\ w \in WaitsType /\ \A q \in Presents : w[q] \subseteq v[q]
      /\ v[n] = {} => w = v
  <2>1. n \in Presents
    BY <1>1
  <2> HIDE DEF n
  <2> QED
    BY <1>2, <2>1, MergeIs
<1>4. Arrives(n, w, l)
  <2>1. l \in SUBSET Presents /\ lost \subseteq l /\ l \subseteq lost \cup {n}
    BY <1>1 DEF Stored
  <2> QED
    BY <1>1, <1>2, <1>3, <2>1 DEF Arrives
<1>5. n \in l => n \in lost \/ Trace[n].lost
  OBVIOUS
<1>w. \A q \in Presents \ {n} : w[q] \subseteq waits[q] /\ (Trace[n].waits = {} => w[q] = waits[q])
  BY <1>2, <1>3
<1> HIDE DEF w, l
<1>6. gaveUp \in SUBSET Presents /\ ring.count \in Nat
  BY RingCounts DEF Stored
<1>7. CASE AppendPresent(n, w, l)
  <2> DEFINE r == AppendCompleted(ring, n)
  <2>1. ring.count < RingSize /\ Store(r, n, w, l) /\ gaveUp' = gaveUp
    BY <1>7 DEF AppendPresent
  <2>2. /\ RingOK(r, Numbers) /\ Added(ring, r, n)
        /\ \A i \in 0 .. r.count - 1 : Entry(r, i) \in Presents
        /\ InRing(r) \subseteq InRing(ring) \cup {n}
    <3>1. n \in Presents
      BY <1>1
    <3> HIDE DEF n
    <3> QED
      BY <2>1, <3>1, AddedIs
  <2> HIDE DEF r
  <2>3. /\ SameEntries(r, ring') /\ Stuck(ring', waits') /\ Advanced
        /\ gaveUp' \in SUBSET Presents => Stored'
        /\ lost \subseteq lost' /\ Untouched
    <3> HIDE DEF n
    <3> QED
      BY <1>4, <2>1, <2>2, StoreIs
  <2>4. Added(ring, ring', n)
    BY <1>6, <2>2, <2>3, SameIsAdded
  <2> QED
    BY <1>6, <2>1, <2>3, <2>4 DEF StoreFacts, StoreStep
<1>8. CASE WaitForRoom(n, w, l)
  <2>1. /\ ring' = ring /\ gaveUp' = gaveUp /\ waits' = w /\ lost' = l
        /\ analysis' = [analysis EXCEPT !.pc = "blocked"]
    BY <1>8 DEF WaitForRoom
  <2>2. Stored' /\ lost \subseteq lost'
    BY <1>4, <2>1 DEF Stored, Arrives
  <2>3. Untouched
    <3> SUFFICES ASSUME NEW q \in Presents \ InRing(ring), waits[q] = {},
                        q = analysis.next => analysis' = analysis
                 PROVE  waits'[q] = {} /\ (q \in lost' => q \in lost)
      BY DEF Untouched
    <3>1. q # n
      <4>1. analysis'.pc = "blocked" \/ analysis' # analysis
        BY <1>1, <2>1 DEF CompletePresent
      <4>2. analysis' = analysis => analysis'.pc = "events"
        BY <1>1
      <4> QED
        BY <4>1, <4>2
    <3> QED
      BY <1>4, <2>1, <3>1 DEF Arrives
  <2> QED
    BY <1>1, <2>1, <2>2, <2>3 DEF StoreFacts, StoreStep
<1>9. CASE RefusePresent(n, w, l)
  <2>1. /\ ring' = ring /\ gaveUp' = gaveUp /\ waits' = w /\ lost' = l /\ n \in l
        /\ Advanced
    BY <1>9 DEF RefusePresent, Advance, Advanced
  <2>2. Stored' /\ lost \subseteq lost'
    BY <1>4, <2>1 DEF Stored, Arrives
  <2>3. Untouched
    <3> SUFFICES ASSUME NEW q \in Presents \ InRing(ring), waits[q] = {},
                        q = analysis.next => analysis' = analysis
                 PROVE  waits'[q] = {} /\ (q \in lost' => q \in lost)
      BY DEF Untouched
    <3>1. n \in Int
      BY <1>1 DEF Presents
    <3>2. q # n
      BY <2>1, <3>1 DEF Advanced
    <3> QED
      BY <1>4, <2>1, <3>2 DEF Arrives
  <2>4. \A q \in Presents : q # n => w[q] \subseteq waits[q] /\ (Trace[n].waits = {} => w[q] = waits[q])
    BY <1>w
  <2> QED
    BY <1>1, <1>5, <2>1, <2>2, <2>3, <2>4 DEF StoreFacts, StoreStep
<1>10. CASE OverwritePresent(n, w, l)
  <2> DEFINE r == OverwriteOldest(ring, n)
             oldest == Entry(ring, 0)
  <2>1. /\ ring.count = RingSize /\ ring.ready = 0 /\ Store(r, n, w, l)
        /\ gaveUp' = IF waits[oldest] = {} THEN gaveUp ELSE gaveUp \cup {oldest}
    BY <1>10 DEF OverwritePresent, Overwrite
  <2>2. /\ RingOK(r, Numbers) /\ Rolled(ring, r, n)
        /\ \A i \in 0 .. r.count - 1 : Entry(r, i) \in Presents
        /\ InRing(r) \subseteq InRing(ring) \cup {n}
    <3>1. n \in Presents
      BY <1>1
    <3> HIDE DEF n
    <3> QED
      BY <2>1, <3>1, RolledIs
  <2> HIDE DEF r
  <2>3. /\ SameEntries(r, ring') /\ Stuck(ring', waits') /\ Advanced
        /\ gaveUp' \in SUBSET Presents => Stored'
        /\ lost \subseteq lost' /\ Untouched
    <3> HIDE DEF n
    <3> QED
      BY <1>4, <2>1, <2>2, StoreIs
  <2>4. Rolled(ring, ring', n)
    BY <1>6, <2>2, <2>3, SameIsRolled
  <2>5. oldest \in Presents
    <3>1. 0 \in 0 .. ring.count - 1
      BY <1>6, <2>1, RingSizeAssumption
    <3> QED
      BY <3>1 DEF Stored
  <2> HIDE DEF oldest
  <2>6. /\ gaveUp' \in SUBSET Presents /\ gaveUp \subseteq gaveUp'
        /\ waits[oldest] # {} => oldest \in gaveUp'
    BY <1>6, <2>1, <2>5
  <2> QED
    BY <1>1, <2>1, <2>3, <2>4, <2>6 DEF StoreFacts, StoreStep, oldest
<1> QED
  BY <1>1, <1>7, <1>8, <1>9, <1>10

LEMMA UnblockStores ==
    ASSUME Stored, Queued, Unblock PROVE StoreFacts
<1> DEFINE n == analysis.next
           r == AppendCompleted(ring, n)
<1>1. ring.count < RingSize /\ n \in Presents /\ Store(r, n, waits, lost) /\ gaveUp' = gaveUp
  BY DEF Unblock, Queued
<1>2. ring.count \in Nat /\ gaveUp \in SUBSET Presents
  BY RingCounts DEF Stored
<1>3. Arrives(n, waits, lost)
  BY <1>1 DEF Arrives, Stored
<1>4. /\ RingOK(r, Numbers) /\ Added(ring, r, n)
      /\ \A i \in 0 .. r.count - 1 : Entry(r, i) \in Presents
      /\ InRing(r) \subseteq InRing(ring) \cup {n}
  <2> HIDE DEF n
  <2> QED
    BY <1>1, AddedIs
<1> HIDE DEF r
<1>5. /\ SameEntries(r, ring') /\ Stuck(ring', waits') /\ Advanced
      /\ gaveUp' \in SUBSET Presents => Stored'
      /\ lost \subseteq lost' /\ Untouched
  <2> HIDE DEF n
  <2> QED
    BY <1>1, <1>3, <1>4, StoreIs
<1>6. Added(ring, ring', n)
  BY <1>2, <1>4, <1>5, SameIsAdded
<1> QED
  BY <1>1, <1>2, <1>5, <1>6 DEF StoreFacts, StoreStep

LEMMA EndDeferralStores ==
    ASSUME Stored, NEW n \in Presents, NEW kind, EndDeferral(n, kind),
           lost' = lost \/ lost' = lost \cup {n}
    PROVE  StoreFacts
<1> DEFINE w == [waits EXCEPT ![n] = @ \ {kind}]
<1>1. /\ analysis.pc = "events" /\ kind \in waits[n] /\ waits' = w /\ gaveUp' = gaveUp
      /\ ring' = UpdateReadyCount(ring, Deferred(w)) /\ analysis' = analysis
  BY DEF EndDeferral, threadVars
<1>2. w \in WaitsType /\ \A q \in Presents : w[q] \subseteq waits[q]
  BY DEF Stored, WaitsType
<1> HIDE DEF w
<1>3. /\ RingOK(ring', Numbers) /\ ring'.count = ring.count
      /\ ring'.ready = ring.count \/ Entry(ring, ring'.ready) \in Deferred(w)
      /\ \A i : Entry(ring', i) = Entry(ring, i)
  <2> DEFINE s == UpdateReadyCount(ring, Deferred(w))
  <2>1. /\ RingOK(s, Numbers) /\ s.count = ring.count
        /\ s.ready = ring.count \/ Entry(ring, s.ready) \in Deferred(w)
        /\ \A i : Entry(s, i) = Entry(ring, i)
    BY ReadyCountIs DEF Stored
  <2> HIDE DEF s
  <2>2. s = ring'
    BY <1>1 DEF s
  <2> QED
    BY <2>1, <2>2 DEF Entry
<1>4. Stuck(ring', waits')
  <2>1. Stuck(ring', w)
    BY <1>3 DEF Stuck, Deferred
  <2> QED
    BY <1>1, <2>1
<1>5. SameEntries(ring, ring') /\ lost \subseteq lost'
  BY <1>3 DEF SameEntries
<1>6. Stored'
  BY <1>1, <1>2, <1>3 DEF Stored
<1>7. Untouched
  BY <1>1, <1>2 DEF Untouched
<1> QED
  BY <1>1, <1>4, <1>5, <1>6, <1>7 DEF StoreFacts, StoreStep

LEMMA CompletionStores ==
    ASSUME Stored, Queued, CompletionStep PROVE StoreFacts
<1>1. CASE \E n \in Presents : PresentStop(n) \/ RemoveLostPresent(n) \/ FlipFrameTypesOver(n)
  <2>1. PICK n \in Presents : PresentStop(n) \/ RemoveLostPresent(n) \/ FlipFrameTypesOver(n)
    BY <1>1
  <2>2. \E kind : EndDeferral(n, kind) /\ (lost' = lost \/ lost' = lost \cup {n})
    BY <2>1 DEF PresentStop, RemoveLostPresent, FlipFrameTypesOver
  <2> QED
    BY <2>2, EndDeferralStores
<1> QED
  BY <1>1, CompleteStores, UnblockStores DEF CompletionStep

LEMMA TakenIs ==
    ASSUME Stored
    PROVE  LET s == TakeReady(ring)
           IN /\ RingOK(s, Numbers)
              /\ s.count = ring.count - ring.ready /\ s.ready = 0
              /\ \A i \in 0 .. s.count - 1 :
                    /\ i + ring.ready \in 0 .. ring.count - 1
                    /\ Entry(s, i) = Entry(ring, i + ring.ready)
<1> DEFINE s == TakeReady(ring)
<1>1. NoPresent \in Numbers
  BY PlaybackAssumption DEF NoPresent, Numbers
<1>2. /\ RingOK(s, Numbers)
      /\ s.count = ring.count - ring.ready /\ s.ready = 0
      /\ \A i \in 0 .. ring.count - ring.ready - 1 : Entry(s, i) = Entry(ring, i + ring.ready)
  BY <1>1, TakeIs DEF Stored
<1>3. ring.count \in Nat /\ ring.ready \in Nat
  BY RingCounts DEF Stored
<1> HIDE DEF s
<1> QED
  BY <1>2, <1>3 DEF s

LEMMA ResetStores == ASSUME ResetConsumer PROVE Stored' /\ ring'.count = 0 /\ ring'.ready = 0
<1>1. ring' = EmptyRing /\ waits' = [n \in Presents |-> {}] /\ lost' = {} /\ gaveUp' = {}
  BY DEF ResetConsumer
<1>2. EmptyRing \in RingType(Numbers) /\ EmptyRing.count = 0 /\ EmptyRing.ready = 0
  BY RingSizeAssumption, PlaybackAssumption DEF EmptyRing, RingType, NoPresent, Numbers
<1>3. RingOK(EmptyRing, Numbers)
  BY <1>2 DEF RingOK
<1> QED
  BY <1>1, <1>2, <1>3 DEF Stored, WaitsType

\* The steps that change what the consumer stores
LEMMA StoredSteps ==
    ASSUME [Next]_vars
    PROVE  CompletionStep \/ DequeuePresentEvents \/ ResetConsumer \/ UNCHANGED consumerVars
<1> USE DEF sessionVars, threadVars, trackVars, stopVars, consumerVars
<1>1. CASE UpdateTracking
  BY <1>1 DEF UpdateTracking, Snapshot, SyncTrackedPidState, Decide, StartFails,
     StartTraceSession, OpenSession, StartConsumerThread, StartOutputThread, FinishStart,
     FinishStop
<1>2. ASSUME NEW t, StopTraceSession(t) PROVE ResetConsumer \/ UNCHANGED consumerVars
  BY <1>2 DEF StopTraceSession, StopBegins, CloseTrace, WaitForConsumerThreadToExit,
     StopOutputThread, JoinOutput, CleanUp
<1>3. CASE ReleaseBackpressure \/ CheckTraceSessions \/ MainReturns \/ DestroyPresentMon
  BY <1>3 DEF ReleaseBackpressure, CheckTraceSessions, MainReturns, DestroyPresentMon
<1>4. CASE ProcessTraceReturns
  BY <1>4 DEF ProcessTraceReturns
<1>5. CASE Output
  BY <1>5 DEF Output, ReadQuit, CheckActive, AddPresent, Broadcast, EndRound
<1>6. CASE ClientCall \/ Report
  BY <1>6 DEF ClientCall, Report, StartTracking, StopTracking, Dispose, BeginRelease,
     StopPlayback, StopTraceSessions, ReportFrameReadProgress
<1>7. CASE UNCHANGED vars
  BY <1>7 DEF vars
<1> QED
  BY <1>1, <1>2, <1>3, <1>4, <1>5, <1>6, <1>7 DEF Next, Action, Main, Analysis, CompletionStep

LEMMA StoredNext == Stored /\ Queued /\ [Next]_vars => Stored'
<1> SUFFICES ASSUME Stored, Queued, [Next]_vars PROVE Stored'
  OBVIOUS
<1>1. CASE CompletionStep
  BY <1>1, CompletionStores DEF StoreFacts
<1>2. CASE DequeuePresentEvents
  <2> DEFINE s == TakeReady(ring)
  <2>1. ring' = s /\ UNCHANGED <<waits, lost, gaveUp>>
    BY <1>2 DEF DequeuePresentEvents
  <2>2. /\ RingOK(s, Numbers)
        /\ \A i \in 0 .. s.count - 1 : i + ring.ready \in 0 .. ring.count - 1
                                      /\ Entry(s, i) = Entry(ring, i + ring.ready)
    BY TakenIs
  <2> HIDE DEF s
  <2>3. \A i \in 0 .. s.count - 1 : Entry(s, i) \in Presents
    BY <2>2 DEF Stored
  <2> QED
    BY <2>1, <2>2, <2>3 DEF Stored
<1>3. CASE ResetConsumer
  BY <1>3, ResetStores
<1>4. CASE UNCHANGED consumerVars
  BY <1>4 DEF Stored, consumerVars
<1> QED
  BY <1>1, <1>2, <1>3, <1>4, StoredSteps

LEMMA FlagsNext == Flags /\ [Next]_vars => Flags'
<1> SUFFICES ASSUME Flags, [Next]_vars PROVE Flags'
  OBVIOUS
<1> USE DEF Flags, sessionVars, threadVars, trackVars, stopVars
<1>1. CASE Snapshot
  BY <1>1 DEF Snapshot, Goto
<1>2. CASE SyncTrackedPidState
  BY <1>2 DEF SyncTrackedPidState, Goto
<1>3. CASE Decide
  BY <1>3 DEF Decide, Goto
<1>4. CASE StartFails
  BY <1>4 DEF StartFails, Goto
<1>5. CASE StartTraceSession
  BY <1>5 DEF StartTraceSession, OpenSession, ResetConsumer, Goto
<1>6. CASE StartConsumerThread
  BY <1>6 DEF StartConsumerThread, Goto
<1>7. CASE StartOutputThread
  BY <1>7 DEF StartOutputThread, Goto
<1>8. CASE FinishStart
  BY <1>8 DEF FinishStart, Goto
<1>9. CASE FinishStop
  BY <1>9 DEF FinishStop, Goto
<1>10. ASSUME NEW t \in {"action", "main"}, StopTraceSession(t) PROVE Flags'
  <2>1. CASE StopBegins(t)
    BY <1>10, <2>1 DEF StopBegins, Goto
  <2>2. CASE CloseTrace(t)
    BY <1>10, <2>2 DEF CloseTrace, Goto
  <2>3. CASE WaitForConsumerThreadToExit(t)
    BY <1>10, <2>3 DEF WaitForConsumerThreadToExit, Goto
  <2>4. CASE StopOutputThread(t)
    BY <1>10, <2>4 DEF StopOutputThread, Goto
  <2>5. CASE JoinOutput(t)
    BY <1>10, <2>5 DEF JoinOutput, Goto
  <2>6. CASE CleanUp(t)
    BY <1>10, <2>6 DEF CleanUp, Goto
  <2> QED
    BY <1>10, <2>1, <2>2, <2>3, <2>4, <2>5, <2>6 DEF StopTraceSession
<1>11. CASE ReleaseBackpressure
  BY <1>11 DEF ReleaseBackpressure, Goto
<1>12. CASE CheckTraceSessions
  BY <1>12 DEF CheckTraceSessions, Goto
<1>13. CASE MainReturns
  BY <1>13 DEF MainReturns, Goto
<1>14. CASE CompletionStep
  BY <1>14, CompletionIs
<1>15. CASE DestroyPresentMon
  BY <1>15 DEF DestroyPresentMon
<1>16. CASE ProcessTraceReturns
  BY <1>16 DEF ProcessTraceReturns
<1>17. CASE ReadQuit
  BY <1>17 DEF ReadQuit
<1>18. CASE CheckActive
  BY <1>18 DEF CheckActive
<1>19. CASE DequeuePresentEvents
  BY <1>19 DEF DequeuePresentEvents
<1>20. CASE AddPresent
  BY <1>20 DEF AddPresent
<1>21. CASE Broadcast
  BY <1>21 DEF Broadcast
<1>22. CASE EndRound
  BY <1>22 DEF EndRound
<1>23. ASSUME NEW c \in Clients, NEW p \in Pids, ReportFrameReadProgress(c, p) PROVE Flags'
  BY <1>23 DEF ReportFrameReadProgress
<1>24. ASSUME NEW c \in Clients, NEW p \in Pids, NEW bp \in BOOLEAN, StartTracking(c, p, bp) PROVE Flags'
  BY <1>24 DEF StartTracking, Call, Goto
<1>25. ASSUME NEW c \in Clients, NEW ps, BeginRelease(c, ps) PROVE Flags'
  BY <1>25 DEF BeginRelease, Call, Goto
<1>26. CASE StopPlayback
  BY <1>26 DEF StopPlayback
<1>27. CASE StopTraceSessions
  BY <1>27 DEF StopTraceSessions, Goto
<1>28. CASE UNCHANGED vars
  BY <1>28 DEF vars
<1> HIDE DEF Flags
<1> QED
  BY <1>1, <1>2, <1>3, <1>4, <1>5, <1>6, <1>7, <1>8, <1>9, <1>10, <1>11, <1>12, <1>13, <1>14,
     <1>15, <1>16, <1>17, <1>18, <1>19, <1>20, <1>21, <1>22, <1>23, <1>24, <1>25, <1>26, <1>27,
     <1>28 DEF Next, Action, UpdateTracking, Main, Analysis, CompletionStep, Output, Report,
     ClientCall, StopTracking, Dispose

LEMMA ThreadPlacesNext == Shape /\ ThreadPlaces /\ [Next]_vars => ThreadPlaces'
<1> SUFFICES ASSUME Shape, ThreadPlaces, [Next]_vars PROVE ThreadPlaces'
  OBVIOUS
<1> USE DEF Shape, ThreadPlaces, Places, AnalysisPlaces, OutputPlaces, sessionVars, threadVars,
            trackVars, stopVars
<1>1. CASE Snapshot
  BY <1>1 DEF Snapshot, Goto
<1>2. CASE SyncTrackedPidState
  BY <1>2 DEF SyncTrackedPidState, Goto
<1>3. CASE Decide
  BY <1>3 DEF Decide, Goto
<1>4. CASE StartFails
  BY <1>4 DEF StartFails, Goto
<1>5. CASE StartTraceSession
  BY <1>5 DEF StartTraceSession, OpenSession, ResetConsumer, Goto
<1>6. CASE StartConsumerThread
  BY <1>6 DEF StartConsumerThread, Goto
<1>7. CASE StartOutputThread
  BY <1>7 DEF StartOutputThread, Goto
<1>8. CASE FinishStart
  BY <1>8 DEF FinishStart, Goto
<1>9. CASE FinishStop
  BY <1>9 DEF FinishStop, Goto
<1>10. ASSUME NEW t \in {"action", "main"}, StopTraceSession(t) PROVE ThreadPlaces'
  <2>1. CASE StopBegins(t)
    BY <1>10, <2>1 DEF StopBegins, Goto
  <2>2. CASE CloseTrace(t)
    BY <1>10, <2>2 DEF CloseTrace, Goto
  <2>3. CASE WaitForConsumerThreadToExit(t)
    BY <1>10, <2>3 DEF WaitForConsumerThreadToExit, Goto
  <2>4. CASE StopOutputThread(t)
    BY <1>10, <2>4 DEF StopOutputThread, Goto
  <2>5. CASE JoinOutput(t)
    BY <1>10, <2>5 DEF JoinOutput, Goto
  <2>6. CASE CleanUp(t)
    BY <1>10, <2>6 DEF CleanUp, Goto
  <2> QED
    BY <1>10, <2>1, <2>2, <2>3, <2>4, <2>5, <2>6 DEF StopTraceSession
<1>11. CASE ReleaseBackpressure
  BY <1>11 DEF ReleaseBackpressure, Goto
<1>12. CASE CheckTraceSessions
  BY <1>12 DEF CheckTraceSessions, Goto
<1>13. CASE MainReturns
  BY <1>13 DEF MainReturns, Goto
<1>14. CASE CompletionStep
  BY <1>14, CompletionIs
<1>15. CASE DestroyPresentMon
  BY <1>15 DEF DestroyPresentMon
<1>16. CASE ProcessTraceReturns
  BY <1>16 DEF ProcessTraceReturns
<1>17. CASE ReadQuit
  BY <1>17 DEF ReadQuit
<1>18. CASE CheckActive
  BY <1>18 DEF CheckActive
<1>19. CASE DequeuePresentEvents
  BY <1>19 DEF DequeuePresentEvents
<1>20. CASE AddPresent
  BY <1>20 DEF AddPresent
<1>21. CASE Broadcast
  BY <1>21 DEF Broadcast
<1>22. CASE EndRound
  BY <1>22 DEF EndRound
<1>23. ASSUME NEW c \in Clients, NEW p \in Pids, ReportFrameReadProgress(c, p) PROVE ThreadPlaces'
  BY <1>23 DEF ReportFrameReadProgress
<1>24. ASSUME NEW c \in Clients, NEW p \in Pids, NEW bp \in BOOLEAN, StartTracking(c, p, bp) PROVE ThreadPlaces'
  BY <1>24 DEF StartTracking, Call, Goto
<1>25. ASSUME NEW c \in Clients, NEW ps, BeginRelease(c, ps) PROVE ThreadPlaces'
  BY <1>25 DEF BeginRelease, Call, Goto
<1>26. CASE StopPlayback
  BY <1>26 DEF StopPlayback
<1>27. CASE StopTraceSessions
  BY <1>27 DEF StopTraceSessions, Goto
<1>28. CASE UNCHANGED vars
  BY <1>28 DEF vars
<1> HIDE DEF ThreadPlaces
<1> QED
  BY <1>1, <1>2, <1>3, <1>4, <1>5, <1>6, <1>7, <1>8, <1>9, <1>10, <1>11, <1>12, <1>13, <1>14,
     <1>15, <1>16, <1>17, <1>18, <1>19, <1>20, <1>21, <1>22, <1>23, <1>24, <1>25, <1>26, <1>27,
     <1>28 DEF Next, Action, UpdateTracking, Main, Analysis, CompletionStep, Output, Report,
     ClientCall, StopTracking, Dispose

LEMMA ReadyPresentsIs ==
    ASSUME Stored
    PROVE  /\ ReadyPresents \in Seq(Presents)
           /\ Len(ReadyPresents) = ring.ready /\ ring.ready \in Nat
           /\ \A i \in 1 .. ring.ready : ReadyPresents[i] = Entry(ring, i - 1)
<1>1. ring.ready \in Nat /\ ring.count \in Nat /\ ring.ready <= ring.count
  BY RingSizeAssumption DEF Stored, RingOK, RingType
<1>2. ASSUME NEW i \in 1 .. ring.ready PROVE Entry(ring, i - 1) \in Presents
  <2>1. i - 1 \in 0 .. ring.count - 1
    BY <1>1
  <2> QED
    BY <2>1 DEF Stored
<1> QED
  BY <1>1, <1>2 DEF ReadyPresents

LEMMA QueuedNext == Shape /\ Queued /\ Stored /\ [Next]_vars => Queued'
<1> SUFFICES ASSUME Shape, Queued, Stored, [Next]_vars PROVE Queued'
  OBVIOUS
<1> USE LenTrace DEF Shape, Queued, Presents, sessionVars, threadVars, trackVars, stopVars
<1>1. CASE Snapshot
  BY <1>1 DEF Snapshot, Goto
<1>2. CASE SyncTrackedPidState
  BY <1>2 DEF SyncTrackedPidState, Goto
<1>3. CASE Decide
  BY <1>3 DEF Decide, Goto
<1>4. CASE StartFails
  BY <1>4 DEF StartFails, Goto
<1>5. CASE StartTraceSession
  <2>1. output' = output /\ analysis' = [pc |-> analysis.pc, next |-> 1]
    BY <1>5 DEF StartTraceSession, OpenSession
  <2>2. analysis'.pc = analysis.pc /\ analysis'.next = 1
    BY <2>1
  <2> QED
    BY <2>1, <2>2
<1>6. CASE StartConsumerThread
  BY <1>6 DEF StartConsumerThread, Goto
<1>7. CASE StartOutputThread
  BY <1>7 DEF StartOutputThread, Goto
<1>8. CASE FinishStart
  BY <1>8 DEF FinishStart, Goto
<1>9. CASE FinishStop
  BY <1>9 DEF FinishStop, Goto
<1>10. ASSUME NEW t \in {"action", "main"}, StopTraceSession(t) PROVE Queued'
  <2>1. CASE StopBegins(t)
    BY <1>10, <2>1 DEF StopBegins, Goto
  <2>2. CASE CloseTrace(t)
    BY <1>10, <2>2 DEF CloseTrace, Goto
  <2>3. CASE WaitForConsumerThreadToExit(t)
    BY <1>10, <2>3 DEF WaitForConsumerThreadToExit, Goto
  <2>4. CASE StopOutputThread(t)
    BY <1>10, <2>4 DEF StopOutputThread, Goto
  <2>5. CASE JoinOutput(t)
    BY <1>10, <2>5 DEF JoinOutput, Goto
  <2>6. CASE CleanUp(t)
    BY <1>10, <2>6 DEF CleanUp, Goto
  <2> QED
    BY <1>10, <2>1, <2>2, <2>3, <2>4, <2>5, <2>6 DEF StopTraceSession
<1>11. CASE ReleaseBackpressure
  BY <1>11 DEF ReleaseBackpressure, Goto
<1>12. CASE CheckTraceSessions
  BY <1>12 DEF CheckTraceSessions, Goto
<1>13. CASE MainReturns
  BY <1>13 DEF MainReturns, Goto
<1>14. CASE CompletionStep
  BY <1>14, CompletionIs
<1>15. CASE DestroyPresentMon
  BY <1>15 DEF DestroyPresentMon
<1>16. CASE ProcessTraceReturns
  BY <1>16 DEF ProcessTraceReturns
<1>17. CASE ReadQuit
  BY <1>17 DEF ReadQuit
<1>18. CASE CheckActive
  BY <1>18 DEF CheckActive
<1>19. CASE DequeuePresentEvents
  <2>1. /\ UNCHANGED analysis
        /\ output'.batch = ReadyPresents /\ output'.pc = "add"
    BY <1>19 DEF DequeuePresentEvents
  <2> QED
    BY <2>1, ReadyPresentsIs
<1>20. CASE AddPresent
  <2>1. UNCHANGED <<analysis>> /\ output.batch # <<>>
    BY <1>20 DEF AddPresent
  <2>2. \/ output'.batch = output.batch /\ output'.pc = "push"
        \/ output'.batch = Tail(output.batch) /\ output'.pc = "add"
    BY <1>20 DEF AddPresent
  <2>3. Tail(output.batch) \in Seq(Presents)
    BY <2>1
  <2> QED
    BY <2>1, <2>2, <2>3
<1>21. CASE Broadcast
  <2>1. UNCHANGED <<analysis>> /\ output.batch # <<>>
    BY <1>21 DEF Broadcast
  <2>2. output'.batch = Tail(output.batch) /\ output'.pc = "add"
    BY <1>21 DEF Broadcast
  <2>3. Tail(output.batch) \in Seq(Presents)
    BY <2>1
  <2> QED
    BY <2>1, <2>2, <2>3
<1>22. CASE EndRound
  BY <1>22 DEF EndRound
<1>23. ASSUME NEW c \in Clients, NEW p \in Pids, ReportFrameReadProgress(c, p) PROVE Queued'
  BY <1>23 DEF ReportFrameReadProgress
<1>24. ASSUME NEW c \in Clients, NEW p \in Pids, NEW bp \in BOOLEAN, StartTracking(c, p, bp) PROVE Queued'
  BY <1>24 DEF StartTracking, Call, Goto
<1>25. ASSUME NEW c \in Clients, NEW ps, BeginRelease(c, ps) PROVE Queued'
  BY <1>25 DEF BeginRelease, Call, Goto
<1>26. CASE StopPlayback
  BY <1>26 DEF StopPlayback
<1>27. CASE StopTraceSessions
  BY <1>27 DEF StopTraceSessions, Goto
<1>28. CASE UNCHANGED vars
  BY <1>28 DEF vars
<1> HIDE DEF Queued
<1> QED
  BY <1>1, <1>2, <1>3, <1>4, <1>5, <1>6, <1>7, <1>8, <1>9, <1>10, <1>11, <1>12, <1>13, <1>14,
     <1>15, <1>16, <1>17, <1>18, <1>19, <1>20, <1>21, <1>22, <1>23, <1>24, <1>25, <1>26, <1>27,
     <1>28 DEF Next, Action, UpdateTracking, Main, Analysis, CompletionStep, Output, Report,
     ClientCall, StopTracking, Dispose

\* What the sets of processes are made of
Tracking ==
    /\ act = [client |-> act.client, pid |-> act.pid, backpressured |-> act.backpressured,
              drop |-> act.drop, set |-> act.set, serial |-> act.serial, was |-> act.was,
              prev |-> act.prev]
    /\ act.set \in SUBSET Pids /\ act.prev \in SUBSET Pids
    /\ tracked \in SUBSET Pids
    /\ targets \in [Clients -> SUBSET Pids]
    /\ calls \in 0 .. MaxCalls

LEMMA PidsOfMember ==
    ASSUME NEW t, NEW p PROVE p \in PidsOf(t) <=> \E c \in Clients : p \in t[c]
BY DEF PidsOf

LEMMA PidsOfType ==
    ASSUME NEW t \in [Clients -> SUBSET Pids] PROVE PidsOf(t) \in SUBSET Pids
BY DEF PidsOf

LEMMA TrackingNext == Tracking /\ [Next]_vars => Tracking'
<1> SUFFICES ASSUME Tracking, [Next]_vars PROVE Tracking'
  OBVIOUS
<1> USE PlaybackAssumption DEF Tracking, NoAct, sessionVars, threadVars, trackVars, stopVars
<1>1. CASE Snapshot
  BY <1>1 DEF Snapshot, Goto
<1>2. CASE SyncTrackedPidState
  BY <1>2 DEF SyncTrackedPidState, Goto
<1>3. CASE Decide
  BY <1>3 DEF Decide, Goto
<1>4. CASE StartFails
  BY <1>4 DEF StartFails, Goto
<1>5. CASE StartTraceSession
  BY <1>5 DEF StartTraceSession, OpenSession, ResetConsumer, Goto
<1>6. CASE StartConsumerThread
  BY <1>6 DEF StartConsumerThread, Goto
<1>7. CASE StartOutputThread
  BY <1>7 DEF StartOutputThread, Goto
<1>8. CASE FinishStart
  BY <1>8 DEF FinishStart, Goto
<1>9. CASE FinishStop
  BY <1>9 DEF FinishStop, Goto
<1>10. ASSUME NEW t \in {"action", "main"}, StopTraceSession(t) PROVE Tracking'
  <2>1. CASE StopBegins(t)
    BY <1>10, <2>1 DEF StopBegins, Goto
  <2>2. CASE CloseTrace(t)
    BY <1>10, <2>2 DEF CloseTrace, Goto
  <2>3. CASE WaitForConsumerThreadToExit(t)
    BY <1>10, <2>3 DEF WaitForConsumerThreadToExit, Goto
  <2>4. CASE StopOutputThread(t)
    BY <1>10, <2>4 DEF StopOutputThread, Goto
  <2>5. CASE JoinOutput(t)
    BY <1>10, <2>5 DEF JoinOutput, Goto
  <2>6. CASE CleanUp(t)
    BY <1>10, <2>6 DEF CleanUp, Goto
  <2> QED
    BY <1>10, <2>1, <2>2, <2>3, <2>4, <2>5, <2>6 DEF StopTraceSession
<1>11. CASE ReleaseBackpressure
  <2>1. UNCHANGED <<tracked, calls>>
    BY <1>11 DEF ReleaseBackpressure
  <2>2. /\ targets' = [targets EXCEPT ![act.client] = @ \ act.drop]
        /\ act' = [act EXCEPT !.set = PidsOf(targets'), !.serial = <<>>]
    BY <1>11 DEF ReleaseBackpressure
  <2>3. targets' \in [Clients -> SUBSET Pids]
    BY <2>2
  <2>4. PidsOf(targets') \in SUBSET Pids
    BY <2>3, PidsOfType
  <2> QED
    BY <2>1, <2>2, <2>3, <2>4
<1>12. CASE CheckTraceSessions
  BY <1>12 DEF CheckTraceSessions, Goto
<1>13. CASE MainReturns
  BY <1>13 DEF MainReturns, Goto
<1>14. CASE CompletionStep
  BY <1>14, CompletionIs
<1>15. CASE DestroyPresentMon
  BY <1>15 DEF DestroyPresentMon
<1>16. CASE ProcessTraceReturns
  BY <1>16 DEF ProcessTraceReturns
<1>17. CASE ReadQuit
  BY <1>17 DEF ReadQuit
<1>18. CASE CheckActive
  BY <1>18 DEF CheckActive
<1>19. CASE DequeuePresentEvents
  BY <1>19 DEF DequeuePresentEvents
<1>20. CASE AddPresent
  BY <1>20 DEF AddPresent
<1>21. CASE Broadcast
  BY <1>21 DEF Broadcast
<1>22. CASE EndRound
  BY <1>22 DEF EndRound
<1>23. ASSUME NEW c \in Clients, NEW p \in Pids, ReportFrameReadProgress(c, p) PROVE Tracking'
  BY <1>23 DEF ReportFrameReadProgress
<1>24. ASSUME NEW c \in Clients, NEW p \in Pids, NEW bp \in BOOLEAN, StartTracking(c, p, bp) PROVE Tracking'
  <2>1. UNCHANGED <<tracked, targets>> /\ calls' \in 0 .. MaxCalls
    BY <1>24 DEF StartTracking, Call
  <2>2. act' = [client |-> c, pid |-> p, backpressured |-> bp, drop |-> {},
                set |-> PidsOf(targets) \cup {p}, serial |-> <<>>, was |-> FALSE, prev |-> {}]
    BY <1>24 DEF StartTracking
  <2>3. PidsOf(targets) \in SUBSET Pids
    BY PidsOfType
  <2> QED
    BY <2>1, <2>2, <2>3
<1>25. ASSUME NEW c \in Clients, NEW ps, BeginRelease(c, ps) PROVE Tracking'
  <2>1. UNCHANGED <<tracked, targets>> /\ calls' \in 0 .. MaxCalls
    BY <1>25 DEF BeginRelease, Call
  <2>2. act' = [client |-> c, pid |-> 0, backpressured |-> FALSE, drop |-> ps, set |-> {},
                serial |-> [p \in ps |-> Len(segment[p].written)], was |-> FALSE, prev |-> {}]
    BY <1>25 DEF BeginRelease
  <2> QED
    BY <2>1, <2>2
<1>26. CASE StopPlayback
  BY <1>26 DEF StopPlayback
<1>27. CASE StopTraceSessions
  BY <1>27 DEF StopTraceSessions, Goto
<1>28. CASE UNCHANGED vars
  BY <1>28 DEF vars
<1> HIDE DEF Tracking
<1> QED
  BY <1>1, <1>2, <1>3, <1>4, <1>5, <1>6, <1>7, <1>8, <1>9, <1>10, <1>11, <1>12, <1>13, <1>14,
     <1>15, <1>16, <1>17, <1>18, <1>19, <1>20, <1>21, <1>22, <1>23, <1>24, <1>25, <1>26, <1>27,
     <1>28 DEF Next, Action, UpdateTracking, Main, Analysis, CompletionStep, Output, Report,
     ClientCall, StopTracking, Dispose

\* Until the service stops, what clients track is tracked by the session, in the
\* set that UpdateTracking is to install and in the one it would put back, too.
TargetsKept ==
    /\ forced \/ pc.main = "destroy" => closing
    /\ ~closing =>
        /\ PidsOf(targets) \subseteq tracked
        /\ pc.action = "release" => act.pid \notin Pids
        /\ pc.action \in {"snapshot", "sync"} =>
             PidsOf(targets) \subseteq act.set /\ (act.pid \in Pids => act.pid \in act.set)
        /\ pc.action \in {"sync", "decide", "start"} => PidsOf(targets) \subseteq act.prev
        /\ pc.action = "sync" => act.prev = tracked
        /\ pc.action \notin {"idle", "snapshot", "sync", "gone"} => (act.pid \in Pids => act.pid \in tracked)

LEMMA TargetsKeptNext == Shape /\ Tracking /\ TargetsKept /\ [Next]_vars => TargetsKept'
<1> SUFFICES ASSUME Shape, Tracking, TargetsKept, [Next]_vars PROVE TargetsKept'
  OBVIOUS
<1> USE PlaybackAssumption DEF Shape, Tracking, TargetsKept, NoAct, sessionVars, threadVars,
            trackVars, stopVars
<1>1. CASE Snapshot
  BY <1>1 DEF Snapshot, Goto
<1>2. CASE SyncTrackedPidState
  BY <1>2 DEF SyncTrackedPidState, Goto
<1>3. CASE Decide
  BY <1>3 DEF Decide, Goto
<1>4. CASE StartFails
  BY <1>4 DEF StartFails, Goto
<1>5. CASE StartTraceSession
  BY <1>5 DEF StartTraceSession, OpenSession, ResetConsumer, Goto
<1>6. CASE StartConsumerThread
  BY <1>6 DEF StartConsumerThread, Goto
<1>7. CASE StartOutputThread
  BY <1>7 DEF StartOutputThread, Goto
<1>8. CASE FinishStart
  <2>1. /\ targets' = [targets EXCEPT ![act.client] = @ \cup {act.pid}]
        /\ pc.action = "finish" /\ pc'.action = "idle" /\ act.pid \in Pids
        /\ pc'.main = pc.main /\ UNCHANGED <<tracked, closing, forced>>
    BY <1>8 DEF FinishStart, Goto
  <2>2. ASSUME NEW p \in PidsOf(targets') PROVE p \in PidsOf(targets) \cup {act.pid}
    <3>1. PICK c \in Clients : p \in targets'[c]
      BY PidsOfMember
    <3>2. p \in targets[c] \/ p = act.pid
      BY <2>1, <3>1
    <3> QED
      BY <3>1, <3>2, PidsOfMember
  <2> QED
    BY <2>1, <2>2
<1>9. CASE FinishStop
  BY <1>9 DEF FinishStop, Goto
<1>10. ASSUME NEW t \in {"action", "main"}, StopTraceSession(t) PROVE TargetsKept'
  <2>1. CASE StopBegins(t)
    BY <1>10, <2>1 DEF StopBegins, Goto
  <2>2. CASE CloseTrace(t)
    BY <1>10, <2>2 DEF CloseTrace, Goto
  <2>3. CASE WaitForConsumerThreadToExit(t)
    BY <1>10, <2>3 DEF WaitForConsumerThreadToExit, Goto
  <2>4. CASE StopOutputThread(t)
    BY <1>10, <2>4 DEF StopOutputThread, Goto
  <2>5. CASE JoinOutput(t)
    BY <1>10, <2>5 DEF JoinOutput, Goto
  <2>6. CASE CleanUp(t)
    BY <1>10, <2>6 DEF CleanUp, Goto
  <2> QED
    BY <1>10, <2>1, <2>2, <2>3, <2>4, <2>5, <2>6 DEF StopTraceSession
<1>11. CASE ReleaseBackpressure
  <2>1. /\ targets' = [targets EXCEPT ![act.client] = @ \ act.drop]
        /\ act'.set = PidsOf(targets') /\ act'.pid = act.pid
        /\ pc.action = "release" /\ pc'.action = "snapshot"
        /\ pc'.main = pc.main /\ UNCHANGED <<tracked, closing, forced>>
    BY <1>11 DEF ReleaseBackpressure, Goto
  <2>2. ASSUME NEW p \in PidsOf(targets') PROVE p \in PidsOf(targets)
    <3>1. PICK c \in Clients : p \in targets'[c]
      BY PidsOfMember
    <3>2. p \in targets[c]
      BY <2>1, <3>1
    <3> QED
      BY <3>1, <3>2, PidsOfMember
  <2> QED
    BY <2>1, <2>2
<1>12. CASE CheckTraceSessions
  BY <1>12 DEF CheckTraceSessions, Goto
<1>13. CASE MainReturns
  BY <1>13 DEF MainReturns, Goto
<1>14. CASE CompletionStep
  BY <1>14, CompletionIs
<1>15. CASE DestroyPresentMon
  BY <1>15 DEF DestroyPresentMon
<1>16. CASE ProcessTraceReturns
  BY <1>16 DEF ProcessTraceReturns
<1>17. CASE ReadQuit
  BY <1>17 DEF ReadQuit
<1>18. CASE CheckActive
  BY <1>18 DEF CheckActive
<1>19. CASE DequeuePresentEvents
  BY <1>19 DEF DequeuePresentEvents
<1>20. CASE AddPresent
  BY <1>20 DEF AddPresent
<1>21. CASE Broadcast
  BY <1>21 DEF Broadcast
<1>22. CASE EndRound
  BY <1>22 DEF EndRound
<1>23. ASSUME NEW c \in Clients, NEW p \in Pids, ReportFrameReadProgress(c, p) PROVE TargetsKept'
  BY <1>23 DEF ReportFrameReadProgress
<1>24. ASSUME NEW c \in Clients, NEW p \in Pids, NEW bp \in BOOLEAN, StartTracking(c, p, bp) PROVE TargetsKept'
  BY <1>24 DEF StartTracking, Call, Goto
<1>25. ASSUME NEW c \in Clients, NEW ps, BeginRelease(c, ps) PROVE TargetsKept'
  BY <1>25 DEF BeginRelease, Call, Goto
<1>26. CASE StopPlayback
  BY <1>26 DEF StopPlayback
<1>27. CASE StopTraceSessions
  BY <1>27 DEF StopTraceSessions, Goto
<1>28. CASE UNCHANGED vars
  BY <1>28 DEF vars
<1> HIDE DEF TargetsKept
<1> QED
  BY <1>1, <1>2, <1>3, <1>4, <1>5, <1>6, <1>7, <1>8, <1>9, <1>10, <1>11, <1>12, <1>13, <1>14,
     <1>15, <1>16, <1>17, <1>18, <1>19, <1>20, <1>21, <1>22, <1>23, <1>24, <1>25, <1>26, <1>27,
     <1>28 DEF Next, Action, UpdateTracking, Main, Analysis, CompletionStep, Output, Report,
     ClientCall, StopTracking, Dispose

----
\* The frame rings.

Segments == [exists : BOOLEAN, backpressured : BOOLEAN, written : Seq(Presents),
             read : Nat, since : Nat, from : Nat]

Rings == segment \in [Pids -> Segments]

\* The write serials a release loaded
Serials == pc.action = "release" => \A p \in act.drop : act.serial[p] \in Nat

\* r differs from s in the read cursor at most.
SameFrames(s, r) ==
    /\ r.exists = s.exists /\ r.backpressured = s.backpressured
    /\ r.written = s.written /\ r.since = s.since /\ r.from = s.from

LEMMA SegmentFields ==
    ASSUME NEW s \in Segments
    PROVE  /\ s.exists \in BOOLEAN /\ s.backpressured \in BOOLEAN
           /\ s.written \in Seq(Presents) /\ Len(s.written) \in Nat
           /\ s.read \in Nat /\ s.since \in Nat /\ s.from \in Nat
BY DEF Segments

LEMMA NoSegmentFields ==
    /\ NoSegment \in Segments
    /\ NoSegment.exists = FALSE /\ NoSegment.backpressured = FALSE
    /\ NoSegment.written = <<>> /\ NoSegment.since = 0
BY DEF NoSegment, Segments

LEMMA NewSegmentFields ==
    ASSUME NEW bp \in BOOLEAN, analysis.next \in Nat
    PROVE  /\ NewSegment(bp) \in Segments
           /\ NewSegment(bp).exists = TRUE /\ NewSegment(bp).backpressured = bp
           /\ NewSegment(bp).written = <<>> /\ NewSegment(bp).since = 0
           /\ NewSegment(bp).from = analysis.next
<1> DEFINE t == TRUE
           s == NoSegment
           n == analysis.next
           r == NewSegment(bp)
<1>1. /\ t = TRUE /\ s \in Segments
      /\ r = [s EXCEPT !.exists = t, !.backpressured = bp, !.from = n]
  BY NoSegmentFields DEF NewSegment
<1>2. s.written = <<>> /\ s.since = 0 /\ n \in Nat
  BY NoSegmentFields
<1> HIDE DEF t, s, r, n
<1>3. r \in Segments
  BY <1>1, <1>2 DEF Segments
<1>4. r.exists = t /\ r.backpressured = bp /\ r.from = n
  BY <1>1 DEF Segments
<1>5. r.written = <<>> /\ r.since = 0
  BY <1>1, <1>2 DEF Segments
<1> QED
  BY <1>1, <1>3, <1>4, <1>5, Zenon DEF r, n

LEMMA ReadFields ==
    ASSUME NEW s \in Segments, NEW n \in Nat
    PROVE  [s EXCEPT !.read = n] \in Segments /\ SameFrames(s, [s EXCEPT !.read = n])
BY DEF Segments, SameFrames

LEMMA AppendFields ==
    ASSUME NEW s \in Segments, NEW k \in Presents, NEW r,
           r = [s EXCEPT !.written = Append(@, k)]
    PROVE  /\ r \in Segments
           /\ r.exists = s.exists /\ r.backpressured = s.backpressured
           /\ r.written = Append(s.written, k) /\ r.since = s.since /\ r.from = s.from
<1>1. Append(s.written, k) \in Seq(Presents)
  BY SegmentFields
<1> QED
  BY <1>1 DEF Segments

LEMMA StartTrackingRings ==
    ASSUME Rings, Queued, NEW c \in Clients, NEW q \in Pids, NEW bp \in BOOLEAN,
           StartTracking(c, q, bp)
    PROVE  /\ segment' \in [Pids -> Segments]
           /\ \A p \in Pids : segment'[p] = segment[p] \/ (p = q /\ segment'[p] = NewSegment(bp))
<1>1. segment' = [segment EXCEPT ![q] = IF @.exists THEN @ ELSE NewSegment(bp)]
  BY DEF StartTracking
<1>2. NewSegment(bp) \in Segments
  <2>1. analysis.next \in Nat
    BY LenTrace DEF Queued
  <2> QED
    BY <2>1, NewSegmentFields
<1>3. segment \in [Pids -> Segments]
  BY DEF Rings
<1> DEFINE r == IF segment[q].exists THEN segment[q] ELSE NewSegment(bp)
<1>4. segment' = [segment EXCEPT ![q] = r]
  BY <1>1
<1>5. r = segment[q] \/ r = NewSegment(bp)
  OBVIOUS
<1> HIDE DEF r
<1>6. r \in Segments
  BY <1>2, <1>3, <1>5
<1>7. \A p \in Pids : segment'[p] = IF p = q THEN r ELSE segment[p]
  BY <1>3, <1>4
<1>8. segment' \in [Pids -> Segments]
  BY <1>3, <1>4, <1>6
<1>9. ASSUME NEW p \in Pids
      PROVE  segment'[p] = segment[p] \/ (p = q /\ segment'[p] = NewSegment(bp))
  <2>1. CASE p = q
    BY <1>5, <1>7, <2>1, Zenon
  <2>2. CASE p # q
    BY <1>7, <2>2
  <2> QED
    BY <2>1, <2>2
<1> QED
  BY <1>8, <1>9

LEMMA ReportRings ==
    ASSUME Rings, NEW c \in Clients, NEW q \in Pids, ReportFrameReadProgress(c, q)
    PROVE  /\ segment' \in [Pids -> Segments]
           /\ \A p \in Pids : SameFrames(segment[p], segment'[p])
<1>1. PICK n \in segment[q].read + 1 .. Len(segment[q].written) :
         segment' = [segment EXCEPT ![q].read = n]
  BY DEF ReportFrameReadProgress
<1>2. segment \in [Pids -> Segments]
  BY DEF Rings
<1>3. n \in Nat
  BY <1>2, SegmentFields
<1>4. /\ [segment[q] EXCEPT !.read = n] \in Segments
      /\ SameFrames(segment[q], [segment[q] EXCEPT !.read = n])
  BY <1>2, <1>3, ReadFields
<1>5. segment' = [segment EXCEPT ![q] = [segment[q] EXCEPT !.read = n]]
  BY <1>1
<1> QED
  BY <1>2, <1>4, <1>5 DEF SameFrames

LEMMA FinishStartRings ==
    ASSUME Rings, FinishStart
    PROVE  /\ segment' \in [Pids -> Segments]
           /\ \A p \in Pids : SameFrames(segment[p], segment'[p])
<1> DEFINE n == FirstSerial(Len(segment[act.pid].written))
<1>1. segment \in [Pids -> Segments] /\ act.pid \in Pids
  BY DEF Rings, FinishStart
<1>2. n \in Nat
  <2>1. Len(segment[act.pid].written) \in Nat
    BY <1>1, SegmentFields
  <2> QED
    BY <2>1, PlaybackAssumption DEF FirstSerial
<1>3. CASE segment' = segment
  BY <1>1, <1>3 DEF SameFrames
<1>4. CASE segment' = [segment EXCEPT ![act.pid].read = n]
  <2> HIDE DEF n
  <2>1. /\ [segment[act.pid] EXCEPT !.read = n] \in Segments
        /\ SameFrames(segment[act.pid], [segment[act.pid] EXCEPT !.read = n])
    BY <1>1, <1>2, ReadFields
  <2>2. segment' = [segment EXCEPT ![act.pid] = [segment[act.pid] EXCEPT !.read = n]]
    BY <1>4
  <2> QED
    BY <1>1, <2>1, <2>2 DEF SameFrames
<1> QED
  BY <1>3, <1>4 DEF FinishStart

\* r is s with the frames of a process that is tracked from present n on.
FreshFrom(s, r, n) ==
    /\ r \in Segments
    /\ r.exists = s.exists /\ r.backpressured = s.backpressured
    /\ r.written = s.written /\ r.since = Len(s.written) /\ r.from = n

LEMMA FreshFields ==
    ASSUME NEW s \in Segments, NEW n \in Nat, NEW r,
           r = [s EXCEPT !.since = Len(s.written), !.from = n]
    PROVE  FreshFrom(s, r, n)
<1> DEFINE k == Len(s.written)
<1>1. k \in Nat
  BY SegmentFields
<1>2. r = [s EXCEPT !.since = k, !.from = n]
  OBVIOUS
<1> HIDE DEF k
<1>3. /\ r \in Segments
      /\ r.exists = s.exists /\ r.backpressured = s.backpressured
      /\ r.written = s.written /\ r.since = k /\ r.from = n
  BY <1>1, <1>2 DEF Segments
<1> QED
  BY <1>3 DEF FreshFrom, k

LEMMA SyncRings ==
    ASSUME Rings, Queued, SyncTrackedPidState
    PROVE  /\ segment' \in [Pids -> Segments]
           /\ \A p \in Pids : IF p \in act.set \ tracked
                             THEN FreshFrom(segment[p], segment'[p], analysis.next)
                             ELSE segment'[p] = segment[p]
<1> DEFINE Since(p) == [segment[p] EXCEPT !.since = Len(segment[p].written),
                                          !.from = analysis.next]
<1>1. segment' = [p \in Pids |-> IF p \in act.set \ tracked THEN Since(p) ELSE segment[p]]
  BY DEF SyncTrackedPidState
<1>2. \A p \in Pids : segment[p] \in Segments
  BY DEF Rings
<1>3. analysis.next \in Nat
  BY DEF Queued
<1>4. \A p \in Pids : FreshFrom(segment[p], Since(p), analysis.next)
  BY <1>2, <1>3, FreshFields
<1> HIDE DEF Since
<1>5. \A p \in Pids : Since(p) \in Segments
  BY <1>4 DEF FreshFrom
<1> QED
  BY <1>1, <1>2, <1>4, <1>5

LEMMA OpenRings ==
    ASSUME Rings, StartTraceSession
    PROVE  /\ segment' \in [Pids -> Segments]
           /\ \A p \in Pids : FreshFrom(segment[p], segment'[p], 1)
<1> DEFINE Since(p) == [segment[p] EXCEPT !.since = Len(segment[p].written), !.from = 1]
<1>1. segment' = [p \in Pids |-> Since(p)]
  BY DEF StartTraceSession, OpenSession
<1>2. \A p \in Pids : segment[p] \in Segments
  BY DEF Rings
<1>3. \A p \in Pids : FreshFrom(segment[p], Since(p), 1)
  BY <1>2, FreshFields
<1> HIDE DEF Since
<1>4. \A p \in Pids : Since(p) \in Segments
  BY <1>3 DEF FreshFrom
<1> QED
  BY <1>1, <1>3, <1>4

LEMMA DestroyRings ==
    ASSUME Rings, DestroyPresentMon
    PROVE  /\ segment' \in [Pids -> Segments]
           /\ \A p \in Pids : segment'[p] = IF p \in HeldByOutput THEN segment[p] ELSE NoSegment
BY NoSegmentFields DEF Rings, DestroyPresentMon, Release

LEMMA StartFailsRings ==
    ASSUME Rings, StartFails
    PROVE  /\ segment' \in [Pids -> Segments]
           /\ \A p \in Pids : segment'[p] = IF p \in PidsOf(targets) \cup HeldByOutput
                                           THEN segment[p] ELSE NoSegment
BY NoSegmentFields DEF Rings, StartFails, Release

LEMMA ReleaseRings ==
    ASSUME Rings, Serials, ReleaseBackpressure
    PROVE  /\ segment' \in [Pids -> Segments]
           /\ \A p \in Pids : IF p \in PidsOf(targets') \cup HeldByOutput
                             THEN SameFrames(segment[p], segment'[p])
                             ELSE segment'[p] = NoSegment
<1> DEFINE Freed(p) == IF p \in act.drop /\ segment[p].backpressured
                       THEN [segment[p] EXCEPT !.read = act.serial[p]]
                       ELSE segment[p]
<1>1. segment' = [p \in Pids |-> IF p \in PidsOf(targets') \cup HeldByOutput
                                 THEN Freed(p) ELSE NoSegment]
  BY DEF ReleaseBackpressure, Release
<1>2. ASSUME NEW p \in Pids PROVE Freed(p) \in Segments /\ SameFrames(segment[p], Freed(p))
  <2>1. segment[p] \in Segments
    BY DEF Rings
  <2>2. CASE Freed(p) = segment[p]
    BY <2>1, <2>2 DEF SameFrames
  <2>3. CASE p \in act.drop /\ Freed(p) = [segment[p] EXCEPT !.read = act.serial[p]]
    <3>1. act.serial[p] \in Nat
      BY <2>3 DEF Serials, ReleaseBackpressure
    <3> QED
      BY <2>1, <2>3, <3>1, ReadFields
  <2> QED
    BY <2>2, <2>3
<1> HIDE DEF Freed
<1> QED
  BY <1>1, <1>2, NoSegmentFields

LEMMA BroadcastRings ==
    ASSUME Rings, Queued, Broadcast
    PROVE  LET q == Trace[Head(output.batch)].pid
               holders == PidsOf(targets) \cup (IF act.pid \in Pids THEN {act.pid} ELSE {})
           IN  /\ segment' \in [Pids -> Segments]
               /\ q \in Pids
               /\ \A p \in Pids :
                    IF p \notin holders THEN segment'[p] = NoSegment
                    ELSE IF p # q THEN segment'[p] = segment[p]
                    ELSE /\ segment'[p].exists = segment[p].exists
                         /\ segment'[p].backpressured = segment[p].backpressured
                         /\ segment'[p].written = Append(segment[p].written, Head(output.batch))
                         /\ segment'[p].since = segment[p].since /\ segment'[p].from = segment[p].from
<1> DEFINE k == Head(output.batch)
           q == Trace[k].pid
           holders == PidsOf(targets) \cup (IF act.pid \in Pids THEN {act.pid} ELSE {})
           pushed == [segment[q] EXCEPT !.written = Append(@, k)]
<1>1. k \in Presents
  <2>1. output.batch # <<>> /\ output.batch \in Seq(Presents)
    BY DEF Queued, Broadcast
  <2> QED
    BY <2>1
<1>2. q \in Pids /\ segment[q] \in Segments
  BY <1>1, FieldsOfPresent DEF Rings
<1>3. segment' = [p \in Pids |-> IF p \notin holders THEN NoSegment
                                 ELSE IF p # q THEN segment[p] ELSE pushed]
  <2>1. segment' = Release([segment EXCEPT ![q] = pushed], holders)
    BY DEF Broadcast
  <2> HIDE DEF pushed, q, holders
  <2> QED
    BY <1>2, <2>1 DEF Release, Rings
<1>4. /\ pushed \in Segments
      /\ pushed.exists = segment[q].exists
      /\ pushed.backpressured = segment[q].backpressured
      /\ pushed.written = Append(segment[q].written, k) /\ pushed.since = segment[q].since
      /\ pushed.from = segment[q].from
  <2> HIDE DEF k, q
  <2> QED
    BY <1>1, <1>2, AppendFields
<1> HIDE DEF k, q, holders, pushed
<1>5. segment' \in [Pids -> Segments]
  BY <1>3, <1>4, NoSegmentFields DEF Rings
<1>6. \A p \in Pids :
        IF p \notin holders THEN segment'[p] = NoSegment
        ELSE IF p # q THEN segment'[p] = segment[p]
        ELSE /\ segment'[p].exists = segment[p].exists
             /\ segment'[p].backpressured = segment[p].backpressured
             /\ segment'[p].written = Append(segment[p].written, k)
             /\ segment'[p].since = segment[p].since /\ segment'[p].from = segment[p].from
  BY <1>3, <1>4
<1> QED
  BY <1>2, <1>5, <1>6 DEF k, q, holders

\* The steps that change a ring
LEMMA RingSteps ==
    [Next]_vars =>
        \/ \E c \in Clients, p \in Pids, bp \in BOOLEAN : StartTracking(c, p, bp)
        \/ \E c \in Clients, p \in Pids : ReportFrameReadProgress(c, p)
        \/ ReleaseBackpressure \/ SyncTrackedPidState \/ StartFails \/ StartTraceSession
        \/ FinishStart \/ Broadcast \/ DestroyPresentMon
        \/ UNCHANGED segment
<1> SUFFICES ASSUME [Next]_vars
             PROVE  \/ \E c \in Clients, p \in Pids, bp \in BOOLEAN : StartTracking(c, p, bp)
                    \/ \E c \in Clients, p \in Pids : ReportFrameReadProgress(c, p)
                    \/ ReleaseBackpressure \/ SyncTrackedPidState \/ StartFails
                    \/ StartTraceSession \/ FinishStart \/ Broadcast \/ DestroyPresentMon
                    \/ UNCHANGED segment
  OBVIOUS
<1> USE DEF sessionVars, threadVars, trackVars, stopVars
<1>1. CASE UpdateTracking
  BY <1>1 DEF UpdateTracking, Snapshot, Decide, StartConsumerThread, StartOutputThread, FinishStop
<1>2. ASSUME NEW t, StopTraceSession(t) PROVE UNCHANGED segment
  BY <1>2 DEF StopTraceSession, StopBegins, CloseTrace, WaitForConsumerThreadToExit,
     StopOutputThread, JoinOutput, CleanUp
<1>3. CASE CheckTraceSessions \/ MainReturns
  BY <1>3 DEF CheckTraceSessions, MainReturns
<1>4. CASE Analysis
  BY <1>4, CompletionIs DEF Analysis, CompletionStep, ProcessTraceReturns
<1>5. CASE Output
  BY <1>5 DEF Output, ReadQuit, CheckActive, DequeuePresentEvents, AddPresent, EndRound
<1>6. ASSUME NEW c, NEW ps, BeginRelease(c, ps) PROVE UNCHANGED segment
  BY <1>6 DEF BeginRelease
<1>7. CASE StopPlayback \/ StopTraceSessions
  BY <1>7 DEF StopPlayback, StopTraceSessions
<1>8. CASE UNCHANGED vars
  BY <1>8 DEF vars
<1> QED
  BY <1>1, <1>2, <1>3, <1>4, <1>5, <1>6, <1>7, <1>8
     DEF Next, Action, Main, Report, ClientCall, StopTracking, Dispose

LEMMA RingsNext == Rings /\ Serials /\ Queued /\ [Next]_vars => Rings'
<1> SUFFICES ASSUME Rings, Serials, Queued, [Next]_vars PROVE Rings'
  OBVIOUS
<1>1. ASSUME NEW c \in Clients, NEW p \in Pids, NEW bp \in BOOLEAN, StartTracking(c, p, bp)
      PROVE  Rings'
  BY <1>1, StartTrackingRings DEF Rings
<1>2. ASSUME NEW c \in Clients, NEW p \in Pids, ReportFrameReadProgress(c, p) PROVE Rings'
  BY <1>2, ReportRings DEF Rings
<1>3. CASE ReleaseBackpressure
  BY <1>3, ReleaseRings DEF Rings
<1>4. CASE SyncTrackedPidState
  BY <1>4, SyncRings DEF Rings
<1>9. CASE StartTraceSession
  BY <1>9, OpenRings DEF Rings
<1>10. CASE DestroyPresentMon
  BY <1>10, DestroyRings DEF Rings
<1>5. CASE StartFails
  BY <1>5, StartFailsRings DEF Rings
<1>6. CASE FinishStart
  BY <1>6, FinishStartRings DEF Rings
<1>7. CASE Broadcast
  BY <1>7, BroadcastRings DEF Rings
<1>8. CASE UNCHANGED segment
  BY <1>8 DEF Rings
<1> QED
  BY <1>1, <1>2, <1>3, <1>4, <1>5, <1>6, <1>7, <1>8, <1>9, <1>10, RingSteps

LEMMA SerialsNext == Shape /\ Rings /\ Tracking /\ Serials /\ [Next]_vars => Serials'
<1> SUFFICES ASSUME Shape, Rings, Tracking, Serials, [Next]_vars PROVE Serials'
  OBVIOUS
<1> USE DEF Shape, Serials, NoAct, sessionVars, threadVars, trackVars, stopVars
<1>1. CASE Snapshot
  BY <1>1 DEF Snapshot, Goto
<1>2. CASE SyncTrackedPidState
  BY <1>2 DEF SyncTrackedPidState, Goto
<1>3. CASE Decide
  BY <1>3 DEF Decide, Goto
<1>4. CASE StartFails
  BY <1>4 DEF StartFails, Goto
<1>5. CASE StartTraceSession
  BY <1>5 DEF StartTraceSession, OpenSession, ResetConsumer, Goto
<1>6. CASE StartConsumerThread
  BY <1>6 DEF StartConsumerThread, Goto
<1>7. CASE StartOutputThread
  BY <1>7 DEF StartOutputThread, Goto
<1>8. CASE FinishStart
  BY <1>8 DEF FinishStart, Goto
<1>9. CASE FinishStop
  BY <1>9 DEF FinishStop, Goto
<1>10. ASSUME NEW t \in {"action", "main"}, StopTraceSession(t) PROVE Serials'
  <2>1. CASE StopBegins(t)
    BY <1>10, <2>1 DEF StopBegins, Goto
  <2>2. CASE CloseTrace(t)
    BY <1>10, <2>2 DEF CloseTrace, Goto
  <2>3. CASE WaitForConsumerThreadToExit(t)
    BY <1>10, <2>3 DEF WaitForConsumerThreadToExit, Goto
  <2>4. CASE StopOutputThread(t)
    BY <1>10, <2>4 DEF StopOutputThread, Goto
  <2>5. CASE JoinOutput(t)
    BY <1>10, <2>5 DEF JoinOutput, Goto
  <2>6. CASE CleanUp(t)
    BY <1>10, <2>6 DEF CleanUp, Goto
  <2> QED
    BY <1>10, <2>1, <2>2, <2>3, <2>4, <2>5, <2>6 DEF StopTraceSession
<1>11. CASE ReleaseBackpressure
  BY <1>11 DEF ReleaseBackpressure, Goto
<1>12. CASE CheckTraceSessions
  BY <1>12 DEF CheckTraceSessions, Goto
<1>13. CASE MainReturns
  BY <1>13 DEF MainReturns, Goto
<1>14. CASE CompletionStep
  BY <1>14, CompletionIs
<1>15. CASE DestroyPresentMon
  BY <1>15 DEF DestroyPresentMon
<1>16. CASE ProcessTraceReturns
  BY <1>16 DEF ProcessTraceReturns
<1>17. CASE ReadQuit
  BY <1>17 DEF ReadQuit
<1>18. CASE CheckActive
  BY <1>18 DEF CheckActive
<1>19. CASE DequeuePresentEvents
  BY <1>19 DEF DequeuePresentEvents
<1>20. CASE AddPresent
  BY <1>20 DEF AddPresent
<1>21. CASE Broadcast
  BY <1>21 DEF Broadcast
<1>22. CASE EndRound
  BY <1>22 DEF EndRound
<1>23. ASSUME NEW c \in Clients, NEW p \in Pids, ReportFrameReadProgress(c, p) PROVE Serials'
  BY <1>23 DEF ReportFrameReadProgress
<1>24. ASSUME NEW c \in Clients, NEW p \in Pids, NEW bp \in BOOLEAN, StartTracking(c, p, bp) PROVE Serials'
  BY <1>24 DEF StartTracking, Call, Goto
<1>25. ASSUME NEW c \in Clients, NEW ps \in SUBSET Pids, BeginRelease(c, ps) PROVE Serials'
  <2>1. act'.drop = ps /\ act'.serial = [p \in ps |-> Len(segment[p].written)]
    BY <1>25 DEF BeginRelease
  <2>2. \A p \in ps : Len(segment[p].written) \in Nat
    BY SegmentFields DEF Rings
  <2> QED
    BY <2>1, <2>2
<1>26. CASE StopPlayback
  BY <1>26 DEF StopPlayback
<1>27. CASE StopTraceSessions
  BY <1>27 DEF StopTraceSessions, Goto
<1>28. CASE UNCHANGED vars
  BY <1>28 DEF vars
<1> HIDE DEF Serials
<1>h. \A c \in Clients : targets[c] \in SUBSET Pids
  BY DEF Tracking
<1> QED
  BY <1>h, <1>1, <1>2, <1>3, <1>4, <1>5, <1>6, <1>7, <1>8, <1>9, <1>10, <1>11, <1>12, <1>13, <1>14,
     <1>15, <1>16, <1>17, <1>18, <1>19, <1>20, <1>21, <1>22, <1>23, <1>24, <1>25, <1>26, <1>27,
     <1>28 DEF Next, Action, UpdateTracking, Main, Analysis, CompletionStep, Output, Report,
     ClientCall, StopTracking, Dispose

----
\* What holds of every run, also of those whose start is raced by a stop.
PlaybackTypes ==
    /\ Shape /\ Flags /\ ThreadPlaces /\ Queued /\ Stored /\ Tracking /\ Rings /\ Serials

LEMMA ShapeNext == Shape /\ [Next]_vars => Shape'
<1> SUFFICES ASSUME Shape, [Next]_vars PROVE Shape'
  OBVIOUS
<1> USE DEF Shape, sessionVars, threadVars, trackVars, stopVars
<1>1. CASE Snapshot
  BY <1>1 DEF Snapshot, Goto
<1>2. CASE SyncTrackedPidState
  BY <1>2 DEF SyncTrackedPidState, Goto
<1>3. CASE Decide
  BY <1>3 DEF Decide, Goto
<1>4. CASE StartFails
  BY <1>4 DEF StartFails, Goto
<1>5. CASE StartTraceSession
  BY <1>5 DEF StartTraceSession, OpenSession, ResetConsumer, Goto
<1>6. CASE StartConsumerThread
  BY <1>6 DEF StartConsumerThread, Goto
<1>7. CASE StartOutputThread
  BY <1>7 DEF StartOutputThread, Goto
<1>8. CASE FinishStart
  BY <1>8 DEF FinishStart, Goto
<1>9. CASE FinishStop
  BY <1>9 DEF FinishStop, Goto
<1>10. ASSUME NEW t \in {"action", "main"}, StopTraceSession(t) PROVE Shape'
  <2>1. CASE StopBegins(t)
    BY <1>10, <2>1 DEF StopBegins, Goto
  <2>2. CASE CloseTrace(t)
    BY <1>10, <2>2 DEF CloseTrace, Goto
  <2>3. CASE WaitForConsumerThreadToExit(t)
    BY <1>10, <2>3 DEF WaitForConsumerThreadToExit, Goto
  <2>4. CASE StopOutputThread(t)
    BY <1>10, <2>4 DEF StopOutputThread, Goto
  <2>5. CASE JoinOutput(t)
    BY <1>10, <2>5 DEF JoinOutput, Goto
  <2>6. CASE CleanUp(t)
    BY <1>10, <2>6 DEF CleanUp, Goto
  <2> QED
    BY <1>10, <2>1, <2>2, <2>3, <2>4, <2>5, <2>6 DEF StopTraceSession
<1>11. CASE ReleaseBackpressure
  BY <1>11 DEF ReleaseBackpressure, Goto
<1>12. CASE CheckTraceSessions
  BY <1>12 DEF CheckTraceSessions, Goto
<1>13. CASE MainReturns
  BY <1>13 DEF MainReturns, Goto
<1>14. CASE CompletionStep
  BY <1>14, CompletionIs
<1>15. CASE DestroyPresentMon
  BY <1>15 DEF DestroyPresentMon
<1>16. CASE ProcessTraceReturns
  BY <1>16 DEF ProcessTraceReturns
<1>17. CASE ReadQuit
  BY <1>17 DEF ReadQuit
<1>18. CASE CheckActive
  BY <1>18 DEF CheckActive
<1>19. CASE DequeuePresentEvents
  BY <1>19 DEF DequeuePresentEvents
<1>20. CASE AddPresent
  BY <1>20 DEF AddPresent
<1>21. CASE Broadcast
  BY <1>21 DEF Broadcast
<1>22. CASE EndRound
  BY <1>22 DEF EndRound
<1>23. ASSUME NEW c \in Clients, NEW p \in Pids, ReportFrameReadProgress(c, p) PROVE Shape'
  BY <1>23 DEF ReportFrameReadProgress
<1>24. ASSUME NEW c \in Clients, NEW p \in Pids, NEW bp \in BOOLEAN, StartTracking(c, p, bp) PROVE Shape'
  BY <1>24 DEF StartTracking, Call, Goto
<1>25. ASSUME NEW c \in Clients, NEW ps, BeginRelease(c, ps) PROVE Shape'
  BY <1>25 DEF BeginRelease, Call, Goto
<1>26. CASE StopPlayback
  BY <1>26 DEF StopPlayback
<1>27. CASE StopTraceSessions
  BY <1>27 DEF StopTraceSessions, Goto
<1>28. CASE UNCHANGED vars
  BY <1>28 DEF vars
<1> HIDE DEF Shape
<1> QED
  BY <1>1, <1>2, <1>3, <1>4, <1>5, <1>6, <1>7, <1>8, <1>9, <1>10, <1>11, <1>12, <1>13, <1>14,
     <1>15, <1>16, <1>17, <1>18, <1>19, <1>20, <1>21, <1>22, <1>23, <1>24, <1>25, <1>26, <1>27,
     <1>28 DEF Next, Action, UpdateTracking, Main, Analysis, CompletionStep, Output, Report,
     ClientCall, StopTracking, Dispose

LEMMA TypesInit == Init => PlaybackTypes
<1> SUFFICES ASSUME Init PROVE PlaybackTypes
  OBVIOUS
<1>1. Shape /\ Flags /\ ThreadPlaces
  BY DEF Init, Shape, Flags, ThreadPlaces, Places, AnalysisPlaces, OutputPlaces
<1>2. Queued /\ Stored
  <2>1. Queued
    BY PlaybackAssumption DEF Init, Queued
  <2>2. EmptyRing \in RingType(Numbers) /\ EmptyRing.count = 0 /\ EmptyRing.ready = 0
    BY RingSizeAssumption, PlaybackAssumption DEF EmptyRing, RingType, NoPresent, Numbers
  <2>3. Stored
    BY <2>2 DEF Init, Stored, WaitsType, RingOK
  <2> QED
    BY <2>1, <2>3
<1>3. Tracking
  BY PlaybackAssumption DEF Init, Tracking, NoAct
<1>4. Rings /\ Serials
  BY NoSegmentFields DEF Init, Rings, Serials
<1> QED
  BY <1>1, <1>2, <1>3, <1>4 DEF PlaybackTypes

LEMMA TypesNext == PlaybackTypes /\ [Next]_vars => PlaybackTypes'
BY ShapeNext, FlagsNext, ThreadPlacesNext, QueuedNext, StoredNext, TrackingNext, RingsNext, SerialsNext
   DEF PlaybackTypes

LEMMA TypesSafe == Spec => []PlaybackTypes
BY TypesInit, TypesNext, PTL DEF Spec

\* The variables keep their types, and the completed ring holds no more presents
\* than CompletePresent waits for room for.
THEOREM TypeCorrect == Spec => []TypeOK
<1>1. PlaybackTypes => TypeOK
  <2> SUFFICES ASSUME PlaybackTypes PROVE TypeOK
    OBVIOUS
  <2>1. Flags /\ ThreadPlaces /\ Shape
    BY DEF PlaybackTypes
  <2>2. Queued /\ Stored /\ Tracking
    BY DEF PlaybackTypes
  <2>3. \A p \in Pids : segment[p].written \in Seq(Presents) /\ segment[p].read \in Nat
    BY SegmentFields DEF PlaybackTypes, Rings
  <2>4. pc \in [{"action", "main"} -> Places]
    BY <2>1 DEF Shape, ThreadPlaces
  <2>5. /\ ring.slots \in [0 .. RingSize - 1 -> 0 .. Len(Trace)]
        /\ ring.index \in 0 .. RingSize - 1 /\ ring.count \in 0 .. RingSize
        /\ ring.ready \in 0 .. ring.count
    BY <2>2, RingSizeAssumption DEF Stored, RingOK, RingType, Numbers
  <2>6. /\ waits \in [Presents -> SUBSET DeferralKinds]
        /\ lost \subseteq Presents /\ gaveUp \subseteq Presents
    BY <2>2 DEF Stored, WaitsType
  <2> QED
    BY <2>1, <2>2, <2>3, <2>4, <2>5, <2>6
       DEF TypeOK, Flags, ThreadPlaces, Queued, Tracking, AnalysisPlaces, OutputPlaces
<1> QED
  BY <1>1, TypesSafe, PTL

\* Whatever calls failed and were rolled back, a process that a client tracks is
\* one that the session tracks, until the service stops.
THEOREM TargetsAreTracked == Spec => []TargetsTracked
<1>1. Init => TargetsKept
  BY DEF Init, TargetsKept, PidsOf
<1>2. PlaybackTypes /\ TargetsKept /\ [Next]_vars => TargetsKept'
  BY TargetsKeptNext DEF PlaybackTypes
<1>3. TargetsKept => TargetsTracked
  BY DEF TargetsKept, TargetsTracked
<1> QED
  BY <1>1, <1>2, <1>3, TypesSafe, PTL DEF Spec
====
