---- MODULE DeferredPresents ----
(***************************************************************************)
(* Completed presents that are not ready yet: what the last part of        *)
(* PMTraceConsumer::CompletePresent, under mPresentEventMutex, does to the *)
(* deferrals of the presents in the completed ring.                        *)
(*                                                                         *)
(* w gives the deferrals of every present, l the presents with IsLost, and *)
(* st and proc their PresentStartTime and ProcessId.                       *)
(***************************************************************************)
EXTENDS PresentRing

CONSTANT DeferralTimeLimit   \* mDeferralTimeLimit

ASSUME DeferralAssumption == DeferralTimeLimit \in Nat

\* A present waits for its Present_Stop, until FlipFrameType events are over, or
\* until another frame-typed present of its process completes (WaitingForFrameId).
DeferralKinds == {"stop", "flip", "frame"}

Deferred(w) == {p \in DOMAIN w : w[p] # {}}

\* A frame-typed present ends the wait of the deferred ones of its process.
MergeFrameId(r, w, proc, p) ==
    [q \in DOMAIN w |->
        IF /\ "frame" \in w[p]
           /\ proc[q] = proc[p]
           /\ \E i \in r.ready .. r.count - 1 : Entry(r, i) = q
        THEN w[q] \ {"frame"} ELSE w[q]]

\* The present at the head is stuck and too old at the time of present p.
Stale(r, st, p) ==
    /\ r.ready = 0
    /\ r.count > 0
    /\ st[p] >= st[Entry(r, 0)]
    /\ st[p] - st[Entry(r, 0)] > DeferralTimeLimit

\* The bug that never gives up on a stuck present.
SettlePatiently(r, w, l, st, p) ==
    [ring |-> UpdateReadyCount(r, Deferred(w)), waits |-> w, lost |-> l]

\* Count the ready presents; give up on a stuck one that is too old.
Settle(r, w, l, st, p) ==
    LET r1 == UpdateReadyCount(r, Deferred(w))
        head == Entry(r1, 0)
        w1 == [w EXCEPT ![head] = w[head] \ {"stop", "flip"}]
    IN IF Stale(r1, st, p)
       THEN [ring  |-> UpdateReadyCount(r1, Deferred(w1)),
             waits |-> w1,
             lost  |-> IF "stop" \in w[head] THEN l \cup {head} ELSE l]
       ELSE [ring |-> r1, waits |-> w, lost |-> l]
====
