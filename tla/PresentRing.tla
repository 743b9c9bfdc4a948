---- MODULE PresentRing ----
(***************************************************************************)
(* The ring of completed presents of PMTraceConsumer                       *)
(* (PresentMonTraceConsumer.cpp): mCompletedPresents with mCompletedIndex, *)
(* mCompletedCount and mReadyCount, as a record with the fields slots,     *)
(* index, count and ready, and what the code does to it while it holds     *)
(* mPresentEventMutex.  A present is a positive number.                    *)
(***************************************************************************)
EXTENDS Integers

CONSTANT RingSize     \* mCircularBufferSize

ASSUME RingSizeAssumption == RingSize \in Nat \ {0}

NoPresent == 0        \* a null shared_ptr

GetRingIndex(i) == i % RingSize

EmptyRing == [slots |-> [i \in 0 .. RingSize - 1 |-> NoPresent],
              index |-> 0, count |-> 0, ready |-> 0]

\* The i-th oldest completed present, counting from 0.
Entry(r, i) == r.slots[GetRingIndex(r.index + i)]

\* The bug that stops the scan one present late.
UpdateReadyCountPastDeferred(r, deferred) ==
    [r EXCEPT !.ready =
        CHOOSE n \in r.ready .. r.count :
            /\ \A i \in r.ready .. n - 2 : Entry(r, i) \notin deferred
            /\ n = r.count \/ (n > r.ready /\ Entry(r, n - 1) \in deferred)]

\* The ready prefix grows up to the first present still deferred.
UpdateReadyCount(r, deferred) ==
    [r EXCEPT !.ready =
        CHOOSE n \in r.ready .. r.count :
            /\ \A i \in r.ready .. n - 1 : Entry(r, i) \notin deferred
            /\ n = r.count \/ Entry(r, n) \in deferred]

AppendCompleted(r, p) ==
    [r EXCEPT !.slots = [r.slots EXCEPT ![GetRingIndex(r.index + r.count)] = p],
              !.count = r.count + 1]

\* The bug that forgets to move the oldest index.
OverwriteOldestInPlace(r, p) ==
    [r EXCEPT !.slots = [r.slots EXCEPT ![r.index] = p],
              !.ready = IF r.ready > 0 THEN r.ready - 1 ELSE 0]

\* The bug that counts one ready present less when there is none.
OverwriteOldestUnderflows(r, p) ==
    [r EXCEPT !.slots = [r.slots EXCEPT ![r.index] = p],
              !.index = GetRingIndex(r.index + 1),
              !.ready = r.ready - 1]

\* A full ring: the slot of the oldest present becomes that of the newest.
OverwriteOldest(r, p) ==
    [r EXCEPT !.slots = [r.slots EXCEPT ![r.index] = p],
              !.index = GetRingIndex(r.index + 1),
              !.ready = IF r.ready > 0 THEN r.ready - 1 ELSE 0]

\* The bug that leaves the count of stored presents alone.
TakeReadyKeepsCount(r) ==
    [r EXCEPT !.index = GetRingIndex(r.index + r.ready),
              !.ready = 0]

\* DequeuePresentEvents: the ready prefix is swapped out of its slots.
TakeReady(r) ==
    [slots |-> [j \in 0 .. RingSize - 1 |->
                  IF \E i \in 0 .. r.ready - 1 : j = GetRingIndex(r.index + i)
                  THEN NoPresent ELSE r.slots[j]],
     index |-> GetRingIndex(r.index + r.ready),
     count |-> r.count - r.ready,
     ready |-> 0]
====
