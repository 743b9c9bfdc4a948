---- MODULE CompletedPresents ----
(***************************************************************************)
(* The hand-over of completed presents from the thread that analyses ETW   *)
(* events to the thread that dequeues them: the last part of               *)
(* PMTraceConsumer::CompletePresent, which runs under mPresentEventMutex,  *)
(* UpdateReadyCount and DequeuePresentEvents.                              *)
(*                                                                         *)
(* A present is known by the order of its completion: 1, 2, ...  It may be *)
(* completed and yet deferred.  The timing data a merged frame passes on   *)
(* is left out.                                                            *)
(***************************************************************************)
EXTENDS DeferredPresents

CONSTANTS Backpressure,        \* !mIsRealtimeSession && !mDisableOfflineBackpressure
          Processes,
          Deferrals,           \* the kinds of deferral that occur
          Times,               \* the values of PresentStartTime
          MaxPresents          \* bound: presents completed in a behaviour

ASSUME CompletedAssumption ==
    /\ Backpressure \in BOOLEAN
    /\ Processes # {}
    /\ Deferrals \subseteq DeferralKinds
    /\ Times \subseteq Nat
    /\ Times # {}
    /\ MaxPresents \in Nat

VARIABLES
    ring,        \* the completed presents
    completed,   \* presents completed so far
    waits,       \* the deferrals of each present
    lost,        \* the presents with IsLost
    start,       \* PresentStartTime of each present
    process,     \* ProcessId of each present
    blocked,     \* the present the analysis thread waits to store, or none
    overflowed,  \* mNumOverflowedPresents
    refused,     \* lost presents that a full ring turned away
    handed,      \* presents handed over by DequeuePresentEvents
    last         \* the latest of them

outVars == <<handed, last>>
vars == <<ring, completed, waits, lost, start, process,
          blocked, overflowed, refused, outVars>>

Presents == 1 .. MaxPresents

Init ==
    /\ ring = EmptyRing
    /\ completed = 0
    /\ waits = [p \in Presents |-> {}]
    /\ lost = {}
    /\ start = [p \in Presents |-> CHOOSE t \in Times : TRUE]
    /\ process = [p \in Presents |-> CHOOSE x \in Processes : TRUE]
    /\ blocked = NoPresent
    /\ overflowed = 0
    /\ refused = 0
    /\ handed = 0
    /\ last = NoPresent

----
\* CompletePresent on the analysis thread, from where it takes the mutex.

Become(s) ==
    /\ ring' = s.ring
    /\ waits' = s.waits
    /\ lost' = s.lost

\* There is room.
Append(w, l, st, p) ==
    /\ ring.count < RingSize
    /\ Become(Settle(AppendCompleted(ring, p), w, l, st, p))
    /\ UNCHANGED <<blocked, overflowed, refused>>

\* Offline analysis waits for room on mCompletedRingCondition.
Block(w, l, st, p) ==
    /\ ring.count = RingSize
    /\ Backpressure
    /\ ring.ready # 0
    /\ blocked' = p
    /\ waits' = w
    /\ lost' = l
    /\ UNCHANGED <<ring, overflowed, refused>>

\* The ring overflows: this present goes, if it is lost and the oldest is not ...
Refuse(w, l, st, p) ==
    /\ ring.count = RingSize
    /\ ~(Backpressure /\ ring.ready # 0)
    /\ Entry(ring, 0) \notin l
    /\ p \in l
    /\ refused' = refused + 1
    /\ waits' = w
    /\ lost' = l
    /\ UNCHANGED <<ring, blocked, overflowed>>

\* The bug that overwrites in offline sessions too.
OverflowAlways(w, l, st, p) ==
    /\ ring.count = RingSize
    /\ ~(Entry(ring, 0) \notin l /\ p \in l)
    /\ Become(Settle(OverwriteOldest(ring, p), w, l, st, p))
    /\ overflowed' = overflowed + 1
    /\ UNCHANGED <<blocked, refused>>

\* ... and otherwise the oldest.
Overflow(w, l, st, p) ==
    /\ ring.count = RingSize
    /\ ~(Backpressure /\ ring.ready # 0)
    /\ ~(Entry(ring, 0) \notin l /\ p \in l)
    /\ Become(Settle(OverwriteOldest(ring, p), w, l, st, p))
    /\ overflowed' = overflowed + 1
    /\ UNCHANGED <<blocked, refused>>

\* A lost present waits for neither its Present_Stop nor FlipFrameType events.
CompletePresent ==
    /\ blocked = NoPresent
    /\ completed < MaxPresents
    /\ \E x \in Processes, t \in Times, d \in SUBSET Deferrals, isLost \in BOOLEAN :
         LET p  == completed + 1
             st == [start EXCEPT ![p] = t]
             pr == [process EXCEPT ![p] = x]
             w  == MergeFrameId(ring, [waits EXCEPT ![p] = d], pr, p)
             l  == IF isLost THEN lost \cup {p} ELSE lost
         IN /\ isLost => d \subseteq {"frame"}
            /\ completed' = p
            /\ start' = st
            /\ process' = pr
            /\ \/ Append(w, l, st, p)
               \/ Block(w, l, st, p)
               \/ Refuse(w, l, st, p)
               \/ Overflow(w, l, st, p)
    /\ UNCHANGED outVars

\* The wait is over: the present is stored where there is room now.
Unblock ==
    /\ blocked # NoPresent
    /\ ring.count < RingSize
    /\ Become(Settle(AppendCompleted(ring, blocked), waits, lost, start, blocked))
    /\ blocked' = NoPresent
    /\ UNCHANGED <<completed, start, process, overflowed, refused, outVars>>

----
\* Later events of the analysis thread that end a deferral.

EndDeferral(p, kind) ==
    LET w == [waits EXCEPT ![p] = waits[p] \ {kind}]
    IN /\ blocked = NoPresent
       /\ kind \in waits[p]
       /\ waits' = w
       /\ ring' = UpdateReadyCount(ring, Deferred(w))
       /\ UNCHANGED <<completed, start, process, blocked, overflowed, refused, outVars>>

\* RuntimePresentStop of a present that completed early.
PresentStop(p) == EndDeferral(p, "stop") /\ UNCHANGED lost

\* RemoveLostPresent of a completed present, whose Present_Stop will not come.
RemoveLostPresent(p) ==
    /\ p <= completed
    /\ lost' = lost \cup {p}
    /\ \/ EndDeferral(p, "stop")
       \/ /\ blocked = NoPresent
          /\ "stop" \notin waits[p]
          /\ UNCHANGED <<ring, completed, waits, start, process, blocked, overflowed, refused,
                         outVars>>

\* MMIOFlipMultiPlaneOverlay3_Info for the layer the present was flipped on.
FlipFrameTypesOver(p) == EndDeferral(p, "flip") /\ UNCHANGED lost

----
\* DequeuePresentEvents, on the thread that consumes presents.

DequeuePresentEvents ==
    /\ ring' = TakeReady(ring)
    /\ handed' = handed + ring.ready
    /\ last' = IF ring.ready > 0 THEN Entry(ring, ring.ready - 1) ELSE last
    /\ UNCHANGED <<completed, waits, lost, start, process, blocked, overflowed, refused>>

Next ==
    \/ CompletePresent
    \/ Unblock
    \/ \E p \in Presents : \/ PresentStop(p)
                           \/ RemoveLostPresent(p)
                           \/ FlipFrameTypesOver(p)
    \/ DequeuePresentEvents

Spec == Init /\ [][Next]_vars

\* The output thread calls DequeuePresentEvents for as long as the session runs
\* (OutputThread.cpp, MockPresentMonSession::Output); a notified waiter wakes.
FairSpec == Spec /\ WF_vars(DequeuePresentEvents) /\ WF_vars(Unblock)

----
\* Properties.

Held == IF blocked = NoPresent THEN 0 ELSE 1

\* Every variable has its type, and the counters of the ring are ordered.
TypeOK ==
    /\ ring \in [slots : [0 .. RingSize - 1 -> 0 .. MaxPresents],
                 index : 0 .. RingSize - 1,
                 count : 0 .. RingSize,
                 ready : 0 .. RingSize]
    /\ ring.ready <= ring.count
    /\ completed \in 0 .. MaxPresents
    /\ waits \in [Presents -> SUBSET Deferrals]
    /\ lost \subseteq Presents
    /\ start \in [Presents -> Times]
    /\ process \in [Presents -> Processes]
    /\ blocked \in 0 .. MaxPresents
    /\ overflowed \in Nat
    /\ refused \in Nat
    /\ handed \in Nat
    /\ last \in 0 .. MaxPresents

\* What DequeuePresentEvents may take is final: no present of the ready prefix
\* still waits for an event that would change it.
ReadySettled == \A i \in 0 .. ring.ready - 1 : waits[Entry(ring, i)] = {}

\* However the ring wraps, overflows and drains, presents are handed over in
\* the order they were completed, and none twice.
HandedInOrder ==
    /\ \A i \in 0 .. ring.count - 1 :
         /\ last < Entry(ring, i)
         /\ \A j \in 0 .. i - 1 : Entry(ring, j) < Entry(ring, i)
    /\ blocked # NoPresent =>
         /\ last < blocked
         /\ \A i \in 0 .. ring.count - 1 : Entry(ring, i) < blocked

\* Every completed present is handed over, stored, about to be stored, counted
\* in mNumOverflowedPresents, or was lost and refused by a full ring.
Accounted ==
    completed = handed + ring.count + Held + overflowed + refused

\* Offline analysis blocks "instead of overwriting events" unless "the buffer is
\* full of non-ready events": what it overwrites was still deferred.
OfflineKeepsSettled ==
    [][Backpressure /\ overflowed' # overflowed => waits[Entry(ring, 0)] # {}]_vars

\* "we check here if there is a stuck deferred present and clear the deferral if
\* it gets too old": a completion leaves no head older than the limit.
NoStaleHead ==
    [][completed' # completed /\ ring' # ring => ~Stale(ring', start', completed')]_vars

\* An analysis thread that waits for room gets it: the thread that dequeues
\* always finds something to take.
BlockedResumes == blocked # NoPresent ~> blocked = NoPresent
====
