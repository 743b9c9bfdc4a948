---- MODULE Completion ----
(***************************************************************************)
(* The completion of presents in PMTraceConsumer                           *)
(* (PresentMonTraceConsumer.cpp) step by step: CompletePresent calls       *)
(* itself for what DWM's present displays and for the earlier presents of  *)
(* a swap chain, from within loops over the tables that it changes, while  *)
(* another thread dequeues what is stored.                                 *)
(*                                                                         *)
(* The activations of CompletePresent are on a stack; each is known by its *)
(* present.  A present is its number, in the order of PresentStartTime.    *)
(* The event handlers are what they do to a present they looked up; which  *)
(* one they look up is left open.  Times are left out: whether a deferral  *)
(* is too old and whether FlipFrameType events are awaited is open, too.   *)
(***************************************************************************)
EXTENDS PresentRing, Sequences, SequencesExt

CONSTANTS ProcessOf,      \* the process of each thread that presents
          DwmProcess,     \* DwmProcessId
          SwapChains,
          Backpressure,   \* !mIsRealtimeSession && !mDisableOfflineBackpressure
          Starts,         \* bound: the threads, swap chains and runtime-or-not
                          \* of the first, second, ... present
          Composed,       \* the presents that DWM composes
          Surfaces,       \* those of them that are of composition surfaces
          MaxDependents   \* bound: presents that wait for DWM at once

Threads == DOMAIN ProcessOf
MaxPresents == Len(Starts)
Presents == 1 .. MaxPresents
None == 0                 \* no thread, no swap chain
Discarding == 0           \* on the stack: the first completion

ASSUME CompletionAssumption ==
    /\ None \notin Threads
    /\ Backpressure \in BOOLEAN
    /\ Starts \in Seq(SUBSET (Threads \X SwapChains \X BOOLEAN))
    /\ MaxDependents \in Nat

VARIABLES
    created,       \* presents started so far
    tid,           \* ThreadId of each present
    driver,        \* DriverThreadId
    swap,          \* SwapChainAddress
    final,         \* FinalState
    running,       \* the runtime's presents whose Present_Stop is yet to come
    lost,          \* IsLost
    completed,     \* IsCompleted
    waitStop,      \* WaitingForPresentStop
    waitType,      \* WaitingForFlipFrameType
    deps,          \* DependentPresents
    ordered,       \* mOrderedPresentsByProcessId
    tracked,       \* mTrackedPresents
    waitingForDWM, \* mPresentsWaitingForDWM
    inDwm,         \* PresentInDwmWaitingStruct
    index,         \* RingIndex + 1 of each present
    next,          \* mNextFreeRingIndex
    byThread,      \* mPresentByThreadId
    hasCompleted,  \* mHasCompletedAPresent
    ring,          \* the completed presents
    handed,        \* presents handed over by DequeuePresentEvents
    dropped,       \* presents a full ring overwrote or refused
    stack,         \* the activations of CompletePresent
    at,            \* where each of them is
    iter,          \* the iterator of its loop
    placing        \* where TrackPresent is

newVars == <<created, tid, swap, next, placing>>
dwmVars == <<waitingForDWM, inDwm>>
tableVars == <<ordered, tracked, index, dwmVars>>
outVars == <<handed, dropped>>
flagVars == <<lost, completed, waitStop, waitType>>
callVars == <<stack, at, iter>>
vars == <<newVars, driver, final, running, flagVars, deps, tableVars, byThread, hasCompleted,
          ring, outVars, callVars>>

Created == 1 .. created
Process(p) == ProcessOf[tid[p]]
MembersOf(s) == {s[i] : i \in DOMAIN s}
Finals == {"Unknown", "Presented", "Discarded"}

Init ==
    /\ created = 0
    /\ tid = [p \in Presents |-> None]
    /\ driver = [p \in Presents |-> None]
    /\ swap = [p \in Presents |-> None]
    /\ final = [p \in Presents |-> "Unknown"]
    /\ running = {} /\ lost = {} /\ completed = {} /\ waitStop = {} /\ waitType = {}
    /\ deps = [p \in Presents |-> <<>>]
    /\ ordered = {}
    /\ tracked = [i \in 0 .. RingSize - 1 |-> NoPresent]
    /\ index = [p \in Presents |-> None]
    /\ waitingForDWM = <<>> /\ inDwm = {}
    /\ next = 0
    /\ byThread = [t \in Threads |-> NoPresent]
    /\ hasCompleted \in BOOLEAN     \* by a present before these
    /\ ring = EmptyRing
    /\ handed = {} /\ dropped = {}
    /\ stack = <<>>
    /\ at = [p \in Presents |-> "none"]
    /\ iter = [p \in Presents |-> 0]
    /\ placing = "no"

----
\* CompletePresent begins.

\* Present p, now lost or not as in l, shares the fate of its dependents: those
\* of a window that a later one replaces are superseded.  One that is in the list
\* twice replaces itself, after it was given the fate of p.
SettleDependents(p, l, f, wt) ==
    LET open == MembersOf(deps[p]) \ completed
        kept == {q \in open : f[q] # "Discarded"}
    IN IF p \in l
       THEN lost' = l \cup MembersOf(deps[p]) /\ final' = f /\ waitType' = wt
       ELSE /\ lost' = l
            /\ \E superseded \in SUBSET open, alike \in SUBSET kept :
                 /\ kept \subseteq superseded \cup alike
                 /\ final' = [q \in Presents |-> IF q \in superseded THEN "Discarded"
                                                 ELSE IF q \in alike THEN f[p] ELSE f[q]]
                 /\ waitType' = IF p \in wt THEN wt \cup alike ELSE wt \ alike

\* A present displayed or discarded before its Present_Stop waits for it, and a
\* displayed one for FlipFrameType events.
MarkCompleted(p, l, f, it) ==
    /\ completed' = completed \cup {p}
    /\ waitStop' = IF p \in running' \ l THEN waitStop \cup {p} ELSE waitStop
    /\ \E wait \in IF p \notin l /\ f[p] = "Presented" THEN {{}, {p}} ELSE {{}} :
         SettleDependents(p, l, f, waitType \cup wait)
    /\ stack' = Append(stack, p)
    /\ at' = [at EXCEPT ![p] = "deps"]
    /\ iter' = [it EXCEPT ![p] = Len(deps[p])]

\* The bug that completes a present again.
Unprotected(p) == FALSE

\* "Protect against CompletePresent() being called twice for the same present."
IsCompleted(p) == p \in completed

\* The call of CompletePresent for p, with IsLost as in l, FinalState as in f and
\* the caller's iterator advanced as in it.
CompletePresent(p, l, f, it) ==
    \/ /\ ~hasCompleted /\ p \notin l
       /\ stack' = Append(stack, Discarding)
       /\ lost' = l /\ final' = f /\ iter' = it
       /\ UNCHANGED <<completed, waitStop, waitType, at>>
    \/ /\ hasCompleted \/ p \in l
       /\ IsCompleted(p)
       /\ lost' = l /\ final' = f /\ iter' = it
       /\ UNCHANGED <<completed, waitStop, waitType, stack, at>>
    \/ /\ hasCompleted \/ p \in l
       /\ ~IsCompleted(p)
       /\ MarkCompleted(p, l, f, it)

Deferred == waitStop \cup waitType

\* The bug that clears a thread that leads to another present by now.
OffWhatever(threads, p) ==
    [t \in Threads |-> IF t \in threads THEN NoPresent ELSE byThread[t]]

\* Thread t of p does not lead to it any more, for the threads of the given set.
Off(threads, p) ==
    [t \in Threads |-> IF t \in threads /\ byThread[t] = p THEN NoPresent ELSE byThread[t]]

\* A present whose tracking went wrong.
RemoveLostPresent(p) ==
    \/ /\ p \notin completed
       /\ CompletePresent(p, lost \cup {p}, final, iter)
       /\ UNCHANGED <<byThread, ring>>
    \/ /\ p \in completed
       /\ lost' = lost \cup {p}
       /\ waitStop' = waitStop \ {p}
       /\ IF p \in waitStop
          THEN /\ byThread' = Off({tid[p], driver[p]}, p)
               /\ ring' = UpdateReadyCount(ring, (waitStop \ {p}) \cup waitType)
          ELSE UNCHANGED <<byThread, ring>>
       /\ UNCHANGED <<final, completed, waitType, callVars>>

----
\* CompletePresent goes on, for the present on top of the stack.

Top == stack[Len(stack)]
At(place) == stack # <<>> /\ Top # Discarding /\ at[Top] = place
Pop == SubSeq(stack, 1, Len(stack) - 1)

\* The bug that begins at the wrong end of the map.
IsLast(n, S) == IF S = {} THEN n = NoPresent ELSE n \in S /\ \A m \in S : m <= n

\* n is the first of the presents in S, or none.
IsFirst(n, S) == IF S = {} THEN n = NoPresent ELSE n \in S /\ \A m \in S : n <= m

OrderedOf(pid) == {q \in ordered : Process(q) = pid}

\* The first completion throws away all that was tracked until then, one process
\* after the other in an order of the map's own.
DiscardNext ==
    /\ UNCHANGED running
    /\ stack # <<>> /\ Top = Discarding
    /\ \E p \in ordered : /\ IsFirst(p, OrderedOf(Process(p)))
                          /\ RemoveLostPresent(p)
    /\ UNCHANGED <<newVars, driver, deps, tableVars, hasCompleted, outVars>>

\* The bug that does not throw away all.
DiscardEndsEarly ==
    /\ stack # <<>> /\ Top = Discarding
    /\ hasCompleted' = TRUE
    /\ stack' = Pop
    /\ UNCHANGED <<newVars, driver, final, running, flagVars, deps, tableVars, byThread, ring,
                   outVars, at, iter>>

DiscardEnds ==
    /\ stack # <<>> /\ Top = Discarding
    /\ ordered = {}
    /\ hasCompleted' = TRUE
    /\ stack' = Pop
    /\ UNCHANGED <<newVars, driver, final, running, flagVars, deps, tableVars, byThread, ring,
                   outVars, at, iter>>

\* The last dependent present that was not met yet
CompleteDependent ==
    /\ UNCHANGED running
    /\ At("deps") /\ iter[Top] > 0
    /\ LET q == deps[Top][iter[Top]]
           it == [iter EXCEPT ![Top] = @ - 1]
       IN IF q \in completed
          THEN iter' = it /\ UNCHANGED <<final, flagVars, stack, at>>
          ELSE CompletePresent(q, lost, final, it)
    /\ UNCHANGED <<newVars, driver, deps, tableVars, byThread, hasCompleted, ring, outVars>>

\* FlipFrameType events to come need the dependents of a present that waits.
DependentsCompleted ==
    /\ At("deps") /\ iter[Top] = 0
    /\ deps' = IF Top \in waitType THEN deps ELSE [deps EXCEPT ![Top] = <<>>]
    /\ IF final[Top] = "Presented"
       THEN \E n \in 0 .. created : /\ IsFirst(n, OrderedOf(Process(Top)))
                                    /\ at' = [at EXCEPT ![Top] = "earlier"]
                                    /\ iter' = [iter EXCEPT ![Top] = n]
       ELSE at' = [at EXCEPT ![Top] = "stop"] /\ UNCHANGED iter
    /\ UNCHANGED <<newVars, driver, final, running, flagVars, tableVars, byThread, hasCompleted,
                   ring, outVars, stack>>

\* The bug that moves the iterator too late.
NotBefore(q, S) == {r \in S : r >= q}

After(q, S) == {r \in S : r > q}

\* A displayed present ends the earlier ones of its swap chain.  The iterator goes
\* on before the present it stood on is completed.
CompleteEarlier ==
    /\ UNCHANGED running
    /\ At("earlier") /\ iter[Top] \in 1 .. Top - 1
    /\ \E n \in 0 .. created :
         LET q == iter[Top]
             it == [iter EXCEPT ![Top] = n]
         IN /\ IsFirst(n, After(q, OrderedOf(Process(Top))))
            /\ IF swap[q] = swap[Top]
               THEN CompletePresent(q, IF Top \in lost THEN lost \cup {q} ELSE lost, final, it)
               ELSE iter' = it /\ UNCHANGED <<final, flagVars, stack, at>>
    /\ UNCHANGED <<newVars, driver, deps, tableVars, byThread, hasCompleted, ring, outVars>>

EarlierCompleted ==
    /\ At("earlier") /\ iter[Top] \notin 1 .. Top - 1
    /\ at' = [at EXCEPT ![Top] = "stop"]
    /\ iter' = [iter EXCEPT ![Top] = 0]
    /\ UNCHANGED <<newVars, driver, final, running, flagVars, deps, tableVars, byThread,
                   hasCompleted, ring, outVars, stack>>

\* The bug that leaves the present in the list of those waiting for DWM.
StaysForDwm(p) == waitingForDWM

\* A present that the flag tells is waiting for DWM waits no more.
LeavesDwm(p) == IF p \in inDwm THEN RemoveFirst(waitingForDWM, p) ELSE waitingForDWM

\* Present p leaves the tables; Present_Stop must still find one that waits for it.
StopTrackingPresent(p, waits) ==
    /\ tracked' = IF index[p] = None THEN tracked ELSE [tracked EXCEPT ![index[p] - 1] = NoPresent]
    /\ index' = [index EXCEPT ![p] = None]
    /\ byThread' = Off(IF waits THEN {driver[p]} ELSE {tid[p], driver[p]}, p)
    /\ ordered' = ordered \ {p}
    /\ waitingForDWM' = LeavesDwm(p)
    /\ inDwm' = inDwm \ {p}

StopTracking ==
    /\ At("stop")
    /\ StopTrackingPresent(Top, Top \in waitStop)
    /\ at' = [at EXCEPT ![Top] = "store"]
    /\ UNCHANGED <<newVars, driver, final, running, flagVars, deps, hasCompleted, ring, outVars,
                   stack, iter>>

\* A head of the ring that is deferred for too long is given up.
ClearStaleDeferral(r) ==
    LET head == Entry(r, 0)
    IN /\ r.ready = 0 /\ r.count > 0 /\ Top > head
       /\ waitStop' = waitStop \ {head}
       /\ lost' = IF head \in waitStop THEN lost \cup {head} ELSE lost
       /\ waitType' = waitType \ {head}
       /\ StopTrackingPresent(head, FALSE)
       /\ ring' = UpdateReadyCount(r, Deferred \ {head})

Settle(r) ==
    \/ ring' = r /\ UNCHANGED <<lost, waitStop, waitType, tableVars, byThread>>
    \/ ClearStaleDeferral(r)

AppendPresent ==
    /\ ring.count < RingSize
    /\ Settle(UpdateReadyCount(AppendCompleted(ring, Top), Deferred))
    /\ UNCHANGED outVars

\* A full ring: offline analysis waits for room as long as there is a present to
\* dequeue; otherwise this present goes, if it is lost and the oldest is not ...
Overflows == ring.count = RingSize /\ ~(Backpressure /\ ring.ready # 0)

Refuse ==
    /\ Overflows
    /\ Entry(ring, 0) \notin lost /\ Top \in lost
    /\ dropped' = dropped \cup {Top}
    /\ UNCHANGED <<lost, waitStop, waitType, tableVars, byThread, ring, handed>>

\* ... and otherwise the oldest.
Overflow ==
    /\ Overflows
    /\ ~(Entry(ring, 0) \notin lost /\ Top \in lost)
    /\ Settle(UpdateReadyCount(OverwriteOldest(ring, Top), Deferred))
    /\ dropped' = dropped \cup {Entry(ring, 0)}
    /\ UNCHANGED handed

\* The part of CompletePresent that holds mPresentEventMutex, and its return.
StoreCompleted ==
    /\ At("store")
    /\ AppendPresent \/ Refuse \/ Overflow
    /\ at' = [at EXCEPT ![Top] = "none"]
    /\ stack' = Pop
    /\ UNCHANGED <<newVars, driver, final, running, completed, deps, hasCompleted, iter>>

----
\* TrackPresent.

Idle == stack = <<>> /\ placing = "no"

\* The bug that leaves the present found in the way alone.
LeaveAlone(p) == UNCHANGED <<final, flagVars, byThread, ring, callVars>>

RemoveIfPresent(p) ==
    IF p = NoPresent THEN UNCHANGED <<final, flagVars, byThread, ring, callVars>>
                     ELSE RemoveLostPresent(p)

\* A new present of thread t, of the runtime or not; its swap chain is the runtime's
\* or, for a flip of a plane, the plane.
TrackPresent(t, chain, runtime) ==
    /\ Idle
    /\ created < MaxPresents
    /\ <<t, chain, runtime>> \in Starts[created + 1]
    /\ created' = created + 1
    /\ tid' = [tid EXCEPT ![created + 1] = t]
    /\ swap' = [swap EXCEPT ![created + 1] = chain]
    /\ running' = IF runtime THEN running \cup {created + 1} ELSE running
    /\ placing' = "evict"
    /\ UNCHANGED <<next, driver, final, flagVars, deps, tableVars, byThread, hasCompleted, ring,
                   outVars, callVars>>

\* A present that has not completed when the ring of tracked presents comes around
\* to it is lost ...
EvictTracked ==
    /\ UNCHANGED running
    /\ stack = <<>> /\ placing = "evict"
    /\ placing' = "place"
    /\ RemoveIfPresent(tracked[next])
    /\ UNCHANGED <<created, tid, swap, next, driver, deps, tableVars, hasCompleted, outVars>>

PlaceTracked ==
    /\ stack = <<>> /\ placing = "place"
    /\ index' = [index EXCEPT ![created] = next + 1]
    /\ tracked' = [tracked EXCEPT ![next] = created]
    /\ next' = GetRingIndex(next + 1)
    /\ ordered' = ordered \cup {created}
    /\ placing' = "clear"
    /\ UNCHANGED <<created, tid, swap, driver, final, running, flagVars, deps, dwmVars, byThread,
                   hasCompleted, ring, outVars, callVars>>

\* ... and so is the one that its thread leads to: SetThreadPresent.
EvictFromThread ==
    /\ UNCHANGED running
    /\ stack = <<>> /\ placing = "clear"
    /\ placing' = "emplace"
    /\ RemoveIfPresent(byThread[tid[created]])
    /\ UNCHANGED <<created, tid, swap, next, driver, deps, tableVars, hasCompleted, outVars>>

EmplaceOnThread ==
    /\ stack = <<>> /\ placing = "emplace"
    /\ byThread' = [byThread EXCEPT ![tid[created]] = IF @ = NoPresent THEN created ELSE @]
    /\ placing' = "no"
    /\ UNCHANGED <<created, tid, swap, next, driver, final, running, flagVars, deps, tableVars,
                   hasCompleted, ring, outVars, callVars>>

----
\* What the event handlers do with a present.

\* FindOrCreatePresent: the driver submits on its thread t what the runtime started.
SubmitOnDriverThread(t, p) ==
    /\ Idle
    /\ byThread[t] = NoPresent
    /\ p \in OrderedOf(ProcessOf[t])
    /\ driver[p] = None
    /\ driver' = [driver EXCEPT ![p] = t]
    /\ byThread' = [byThread EXCEPT ![t] = p]
    /\ UNCHANGED <<newVars, final, running, flagVars, deps, tableVars, hasCompleted, ring, outVars,
                   callVars>>

\* HandleDxgkFlip and Present_Info take a present off a thread on which no
\* Present_Stop is to come.
LeaveThread(t) ==
    /\ Idle
    /\ byThread[t] # NoPresent
    /\ byThread[t] \notin running \/ tid[byThread[t]] # t
    /\ byThread' = [byThread EXCEPT ![t] = NoPresent]
    /\ UNCHANGED <<newVars, driver, final, running, flagVars, deps, tableVars, hasCompleted, ring,
                   outVars, callVars>>

\* RuntimePresentStop, of a present that completed early ...
PresentStopSettles(t) ==
    LET p == byThread[t]
    IN /\ Idle
       /\ p \in waitStop
       /\ running' = running \ {p}
       /\ waitStop' = waitStop \ {p}
       /\ byThread' = [byThread EXCEPT ![t] = NoPresent]
       /\ ring' = UpdateReadyCount(ring, (waitStop \ {p}) \cup waitType)
       /\ UNCHANGED <<newVars, driver, final, lost, completed, waitType, deps, tableVars,
                      hasCompleted, outVars, callVars>>

\* ... of one that is on its way to the display ...
PresentStopLeaves(t) ==
    LET p == byThread[t]
    IN /\ Idle
       /\ p \notin waitStop \cup {NoPresent}
       /\ running' = running \ {p}
       /\ byThread' = [byThread EXCEPT ![t] = NoPresent]
       /\ UNCHANGED <<newVars, driver, final, flagVars, deps, tableVars, hasCompleted, ring, outVars,
                      callVars>>

\* ... and of one that failed, is not visible, or is not tracked to the display.
PresentStopCompletes(t, f) ==
    LET p == byThread[t]
    IN /\ Idle
       /\ p \notin waitStop \cup {NoPresent}
       /\ running' = running \ {p}
       /\ CompletePresent(p, lost, [final EXCEPT ![p] = f], iter)
       /\ UNCHANGED <<newVars, driver, deps, tableVars, byThread, hasCompleted, ring, outVars>>

\* The events that end a present: its screen time, a discarded token and others.
\* What they change in one that is completed already is left out.
EventCompletes(p, f) ==
    /\ UNCHANGED running
    /\ Idle
    /\ p \in completed => f = final[p]
    /\ CompletePresent(p, lost, [final EXCEPT ![p] = f], iter)
    /\ UNCHANGED <<newVars, driver, deps, tableVars, byThread, hasCompleted, ring, outVars>>

\* A lookup that finds a present that it should not.
EventLoses(p) ==
    /\ UNCHANGED running
    /\ Idle
    /\ RemoveLostPresent(p)
    /\ UNCHANGED <<newVars, driver, deps, tableVars, hasCompleted, outVars>>

\* A present is displayed or discarded, and completes later.
EventDisplays(p, f) ==
    /\ Idle
    /\ p \notin completed
    /\ final' = [final EXCEPT ![p] = f]
    /\ UNCHANGED <<newVars, driver, running, flagVars, deps, tableVars, byThread, hasCompleted, ring,
                   outVars, callVars>>

\* A present of another process is handed to DWM.  A token is handed over once;
\* DWM may schedule the update of a surface again before it presents.
WaitForDwm(p) ==
    /\ Idle
    /\ p \in Composed /\ Process(p) # DwmProcess
    /\ p \in MembersOf(waitingForDWM) => p \in Surfaces
    /\ Len(waitingForDWM) < MaxDependents
    /\ waitingForDWM' = Append(waitingForDWM, p)
    /\ inDwm' = inDwm \cup {p}
    /\ UNCHANGED <<newVars, driver, final, running, flagVars, deps, ordered, tracked, index, byThread,
                   hasCompleted, ring, outVars, callVars>>

\* HandleDxgkFlip on DWM's thread: the presents waiting for DWM depend on what it
\* flips for the first time.
AttachDependents(p) ==
    /\ Idle
    /\ Process(p) = DwmProcess
    /\ deps[p] = <<>>
    /\ deps' = [deps EXCEPT ![p] = waitingForDWM]
    /\ waitingForDWM' = <<>>
    /\ inDwm' = inDwm \ MembersOf(waitingForDWM)
    /\ UNCHANGED <<newVars, driver, final, running, flagVars, ordered, tracked, index, byThread,
                   hasCompleted, ring, outVars, callVars>>

\* MMIOFlipMultiPlaneOverlay3_Info for the layer that p was flipped on.
EndFlipFrameTypes(p) ==
    LET over == {p} \cup MembersOf(deps[p])
    IN /\ Idle
       /\ p \in waitType
       /\ waitType' = waitType \ over
       /\ StopTrackingPresent(p, p \in waitStop)
       /\ ring' = UpdateReadyCount(ring, waitStop \cup (waitType \ over))
       /\ UNCHANGED <<newVars, driver, final, running, lost, completed, waitStop, deps, hasCompleted,
                      outVars, callVars>>

\* The thread that dequeues comes between any two steps.
DequeuePresentEvents ==
    /\ ring' = TakeReady(ring)
    /\ handed' = handed \cup {Entry(ring, i) : i \in 0 .. ring.ready - 1}
    /\ UNCHANGED <<newVars, driver, final, running, flagVars, deps, tableVars, byThread, hasCompleted,
                   dropped, callVars>>

Completing ==
    \/ DiscardNext \/ DiscardEnds
    \/ CompleteDependent \/ DependentsCompleted
    \/ CompleteEarlier \/ EarlierCompleted
    \/ StopTracking \/ StoreCompleted

Placing == EvictTracked \/ PlaceTracked \/ EvictFromThread \/ EmplaceOnThread

ThreadEvent ==
    \E t \in Threads :
        \/ \E chain \in SwapChains, runtime \in BOOLEAN : TrackPresent(t, chain, runtime)
        \/ \E p \in Created : SubmitOnDriverThread(t, p)
        \/ LeaveThread(t)
        \/ PresentStopSettles(t)
        \/ PresentStopLeaves(t)
        \/ \E f \in Finals : PresentStopCompletes(t, f)

PresentEvent ==
    \E p \in Created :
        \/ \E f \in Finals : EventCompletes(p, f) \/ EventDisplays(p, f)
        \/ EventLoses(p)
        \/ WaitForDwm(p) \/ AttachDependents(p) \/ EndFlipFrameTypes(p)

Next == Completing \/ Placing \/ ThreadEvent \/ PresentEvent \/ DequeuePresentEvents

Spec == Init /\ [][Next]_vars

----
\* Properties.

TypeOK ==
    /\ created \in 0 .. MaxPresents
    /\ tid \in [Presents -> Threads \cup {None}]
    /\ driver \in [Presents -> Threads \cup {None}]
    /\ swap \in [Presents -> SwapChains \cup {None}]
    /\ final \in [Presents -> Finals]
    /\ running \subseteq Created /\ lost \subseteq Created /\ completed \subseteq Created
    /\ waitStop \subseteq Created /\ waitType \subseteq Created
    /\ deps \in [Presents -> Seq(Presents)]
    /\ ordered \subseteq Created
    /\ tracked \in [0 .. RingSize - 1 -> 0 .. MaxPresents]
    /\ index \in [Presents -> 0 .. RingSize]
    /\ waitingForDWM \in Seq(Presents) /\ inDwm \subseteq Created
    /\ next \in 0 .. RingSize - 1
    /\ byThread \in [Threads -> 0 .. MaxPresents]
    /\ hasCompleted \in BOOLEAN
    /\ ring \in [slots : [0 .. RingSize - 1 -> 0 .. MaxPresents], index : 0 .. RingSize - 1,
                count : 0 .. RingSize, ready : 0 .. RingSize]
    /\ handed \subseteq Created /\ dropped \subseteq Created
    /\ stack \in Seq(0 .. MaxPresents)
    /\ at \in [Presents -> {"none", "deps", "earlier", "stop", "store"}]
    /\ iter \in [Presents -> Nat]
    /\ placing \in {"no", "evict", "place", "clear", "emplace"}

Placed == Created \ (IF placing \in {"evict", "place"} THEN {created} ELSE {})
OnStack == {stack[i] : i \in DOMAIN stack}

\* A present is in mOrderedPresentsByProcessId, and in one slot of
\* mTrackedPresents, until its completion takes it off.
TrackedUntilCompleted ==
    \A p \in Placed :
        /\ p \in ordered <=> p \notin completed \/ at[p] \in {"deps", "earlier", "stop"}
        /\ p \in ordered <=> \E i \in 0 .. RingSize - 1 : tracked[i] = p

Stored == {Entry(ring, i) : i \in 0 .. ring.count - 1}

\* A present whose completion has come to its end is in the ring, handed over or
\* dropped: one of the three, and once; before, in none.
CompletedOnce ==
    /\ \A i, j \in 0 .. ring.count - 1 : Entry(ring, i) = Entry(ring, j) => i = j
    /\ Stored \cup handed \cup dropped = completed \ OnStack
    /\ Stored \cap handed = {} /\ Stored \cap dropped = {} /\ handed \cap dropped = {}

\* No present is forgotten, and none is there twice.
InOnePlace == TrackedUntilCompleted /\ CompletedOnce

\* Of two presents of a swap chain, the later is not stored as displayed while the
\* earlier is still on its way.
DisplayedInOrder ==
    At("store") /\ final[Top] = "Presented" =>
        \A q \in Created : (/\ q < Top
                            /\ Process(q) = Process(Top)
                            /\ swap[q] = swap[Top]) => q \in completed \ OnStack

\* What completing a present entails never erases the element on which the iterator
\* of a loop below stands.
IteratorsValid ==
    \A p \in Created : at[p] = "earlier" /\ iter[p] # NoPresent => iter[p] \in ordered

\* "infinite recursion with a DWM present and a dependent present completing each
\* other": a completion begins, within others, for an earlier present of their
\* process or within those of DWM.  So at most two of DWM and two of an application
\* are under way, or, in the first completion, one of DWM.
RecursionBounded ==
    /\ \A i, j \in DOMAIN stack : i < j /\ stack[i] # Discarding =>
         LET p == stack[i]
             q == stack[j]
         IN \/ Process(p) = Process(q) /\ q < p
            \/ Process(p) = DwmProcess /\ Process(q) # DwmProcess
    /\ Len(stack) <= 4

\* PresentInDwmWaitingStruct, "Whether this PresentEvent is currently stored in
\* PMTraceConsumer::mPresentsWaitingForDWM", is all that StopTrackingPresent goes by.
\* It tells so, except of a surface's present that was stored twice and is not
\* tracked any more.
WaitsForDwm ==
    LET waiting == MembersOf(waitingForDWM)
    IN inDwm \subseteq waiting /\ waiting \ inDwm \subseteq Surfaces \ ordered

\* CompletePresent may call itself from within its loops.
RecursionSafe == IteratorsValid /\ RecursionBounded

\* What a thread leads to is in flight or waits for its Present_Stop, so that a
\* lookup that loses it comes to an end.
LookupsEnd ==
    \A t \in Threads : byThread[t] # NoPresent =>
        LET p == byThread[t]
        IN /\ p \notin completed \/ p \in waitStop \/ at[p] \in {"deps", "earlier", "stop"}
           /\ t = tid[p] \/ t = driver[p]

\* A completed present that waits for its Present_Stop can be found by it.
StopFindsWaiting == \A p \in waitStop : byThread[tid[p]] = p

\* mPresentByThreadId leads to all that the events of a thread need, and to no more.
ThreadsLead == LookupsEnd /\ StopFindsWaiting

\* The first completion leaves no present behind that might be mismatched.
FirstCompletionDiscards ==
    [][hasCompleted' /\ ~hasCompleted => Created \subseteq completed \cap lost]_vars

\* How far the completion of p has come
Stage(p) ==
    IF p \notin completed THEN 0
    ELSE CASE at[p] = "deps" -> 1 [] at[p] = "earlier" -> 2 [] at[p] = "stop" -> 3
           [] at[p] = "store" -> 4 [] at[p] = "none" -> 5

\* What its loop has yet to go through
Left(p) ==
    CASE at[p] = "deps" -> iter[p]
      [] at[p] = "earlier" /\ iter[p] # NoPresent -> created + 1 - iter[p]
      [] OTHER -> 0

Moves(p) == at'[p] # at[p] \/ iter'[p] # iter[p]
Advances(p) == Stage(p)' > Stage(p) \/ (Stage(p)' = Stage(p) /\ Left(p)' < Left(p))

\* "infinite recursion" again: whatever calls the calls of CompletePresent entail,
\* they return.  A present whose completion moves moves forward, and while one is
\* under way every step, but for those of the thread that dequeues, moves some or
\* ends the first completion.
CompletionAdvances ==
    [][/\ completed \subseteq completed'
       /\ \A p \in Created : Moves(p) => Advances(p)
       /\ stack # <<>> /\ handed' = handed =>
            (hasCompleted' /\ ~hasCompleted) \/ \E p \in Created : Moves(p)]_vars
====
