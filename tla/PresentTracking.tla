---- MODULE PresentTracking ----
(***************************************************************************)
(* The tracking of presents in PMTraceConsumer                             *)
(* (PresentMonTraceConsumer.cpp): how the handlers of runtime, kernel and  *)
(* DWM events look presents up, advance, lose and complete them, for a     *)
(* realtime session.  The consumer's members are one record, pm, which the *)
(* handlers map to the next one; a handler is one step.                    *)
(*                                                                         *)
(* A present is its number, in the order of PresentStartTime.  Timestamps  *)
(* grow strictly, so TimeInPresent and Displayed are left as whether they  *)
(* were set.  Events about GPU work, application timing, hybrid presents   *)
(* and the frame ids of PresentFrameType are outside this module.          *)
(***************************************************************************)
EXTENDS PresentRing, Sequences, SequencesExt

CONSTANTS
    ProcessOf,          \* the process of each thread that emits events
    ProcessOrder,       \* mOrderedPresentsByProcessId's iteration order
    DwmProcess,         \* DwmProcessId
    SwapChains, Windows,
    Contexts,           \* hContext of a queue packet
    SubmitSequences,    \* submit sequence numbers, not 0
    Tokens, TokenData,  \* present history tokens, and their data when not 0
    Win32KTokens,       \* Win32K present history tokens
    Layers,             \* VidPnLayerIds: planes of the display
    DeferralTimeLimit,  \* mDeferralTimeLimit, in presents started
    Scripts             \* what may happen in a behaviour, as records: .events, the
                        \* kinds of event each thread emits (None: on no thread in particular),
                        \* .settled, whether an earlier present may have been completed,
                        \* .display, mTrackDisplay, and .maxPresents, the bound on the
                        \* presents that are tracked

Threads == DOMAIN ProcessOf
None == 0   \* no thread, swap chain, window, submit sequence or token

ASSUME TrackingAssumption ==
    /\ ProcessOf \in [Threads -> ToSet(ProcessOrder)]
    /\ DwmProcess \in ToSet(ProcessOrder)
    /\ None \notin Threads \cup SwapChains \cup Windows \cup SubmitSequences \cup Tokens \cup TokenData
    /\ None \notin Contexts \cup Win32KTokens
    /\ \A s \in Scripts : /\ DOMAIN s.events = Threads \cup {None}
                          /\ s.settled \subseteq BOOLEAN
                          /\ s.display \in BOOLEAN
                          /\ s.maxPresents \in Nat
    /\ DeferralTimeLimit \in Nat

VARIABLES pm,       \* the consumer
          handed,   \* the presents DequeuePresentEvents has handed over
          script    \* the script of this behaviour

vars == <<pm, handed, script>>

Events == script.events
MaxPresents == script.maxPresents
TrackDisplay == script.display

\* SwapChainAddress of a present that only a plane of the display identifies.
VidPnLayer == -1

\* The fields of a PresentEvent that tracking reads.
NewPresent(t, api, swap) ==
    [pid |-> ProcessOf[t], tid |-> t, driver |-> None,
     api |-> api,             \* Runtime # Other
     swap |-> swap,
     noSequence |-> FALSE,    \* DXGI_PRESENT_DO_NOT_SEQUENCE
     stopped |-> FALSE,       \* TimeInPresent # 0
     mode |-> "Unknown", final |-> "Unknown",
     shown |-> FALSE,         \* Displayed is not empty
     waitFlip |-> FALSE, waitMpo |-> FALSE,
     seenDxgk |-> FALSE, seenWin32K |-> FALSE, inFrame |-> FALSE,
     hwnd |-> None, seq |-> None, context |-> None,
     token |-> None, data |-> None, win32K |-> None,
     layers |-> {},           \* the keys of PresentIds
     inDwm |-> FALSE, deps |-> <<>>,
     completed |-> FALSE, lost |-> FALSE, waitStop |-> FALSE,
     waitType |-> FALSE, doneType |-> FALSE,   \* ...WaitingForFlipFrameType
     index |-> None]          \* RingIndex + 1

InitialConsumer ==
    [presents |-> <<>>,
     tracked |-> [i \in 0 .. RingSize - 1 |-> NoPresent],
     next |-> 0,                                     \* mNextFreeRingIndex
     ordered |-> {},                                 \* mOrderedPresentsByProcessId
     byThread |-> [t \in Threads |-> NoPresent],
     bySeq |-> [s \in SubmitSequences |-> [x \in Contexts |-> NoPresent]],
     byToken |-> [k \in Tokens |-> NoPresent],
     byData |-> [d \in TokenData |-> NoPresent],
     byWin32K |-> [k \in Win32KTokens |-> NoPresent],
     byContext |-> [x \in Contexts |-> NoPresent],
     byLayer |-> [l \in Layers |-> NoPresent],
     pendingTypes |-> {},    \* the keys of mPendingFlipFrameTypeEvents
     flipTypes |-> FALSE,    \* mEnableFlipFrameTypeEvents
     byWindow |-> [w \in Windows \cup {None} |-> NoPresent],   \* mLastPresentByWindow
     waitingForDWM |-> <<>>,
     dwmThread |-> None,
     filtered |-> {},        \* processes that mTrackedProcessFilter does not hold
     hasCompleted |-> FALSE,                          \* mHasCompletedAPresent
     ring |-> EmptyRing,
     dropped |-> {},        \* presents a full ring overwrote or refused
     twice |-> {},          \* presents CompletePresent met completed
     dangling |-> FALSE,    \* an iterator outlived its element
     log |-> <<>>]          \* the order of completion

Init ==
    /\ script \in Scripts
    /\ pm \in {[InitialConsumer EXCEPT !.hasCompleted = b] : b \in script.settled}
    /\ handed = {}

Ids(c) == DOMAIN c.presents

\* Map f without its entry for present p under key k.
Without(f, k, p) ==
    IF k \in DOMAIN f /\ f[k] = p THEN [f EXCEPT ![k] = NoPresent] ELSE f

\* Record c with the presents of sequence qs changed.
ForEach(c, qs, Change(_)) ==
    LET change(a, q) == [a EXCEPT !.presents[q] = Change(a.presents[q])]
    IN FoldLeft(change, c, qs)

----
\* Completion.

UpdateReady(c) ==
    [c EXCEPT !.ring = UpdateReadyCount(@, {p \in Ids(c) : c.presents[p].waitStop
                                                          \/ c.presents[p].waitType})]

RemovePresentFromSubmitSequenceIdTracking(c, p) ==
    LET s == c.presents[p].seq
        contexts == {x \in Contexts : c.bySeq[s][x] = p}
        c1 == [c EXCEPT !.presents[p].seq = None]
    IN IF s = None \/ contexts = {} THEN c1
       ELSE [c1 EXCEPT !.bySeq[s][CHOOSE x \in contexts : TRUE] = NoPresent]

\* RemoveLostPresent takes the present off both threads.  Done by
\* StopTrackingPresent, this is the bug that ignores the Present_Stop to come.
RemoveFromThreads(threads, e, p) == Without(Without(threads, e.tid, p), e.driver, p)

\* Present_Stop must still find a present that waits for it.
StopTrackingThread(threads, e, p) ==
    Without(IF e.waitStop THEN threads ELSE Without(threads, e.tid, p), e.driver, p)

StopTrackingPresent(c, p) ==
    LET e == c.presents[p]
        removeLayer(l, layers) == Without(layers, l, p)
    IN [RemovePresentFromSubmitSequenceIdTracking(c, p) EXCEPT
          !.tracked = IF e.index = None THEN @ ELSE [@ EXCEPT ![e.index - 1] = NoPresent],
          !.byThread = StopTrackingThread(@, e, p),
          !.ordered = @ \ {p},
          !.byToken = Without(@, e.token, p),
          !.byData = Without(@, e.data, p),
          !.byWin32K = Without(@, e.win32K, p),
          !.byContext = Without(@, e.context, p),
          !.byLayer = IF e.waitType THEN @ ELSE FoldSet(removeLayer, @, e.layers),
          !.byWindow = IF e.hwnd = None THEN @ ELSE Without(@, e.hwnd, p),
          !.waitingForDWM = IF e.inDwm THEN RemoveFirst(@, p) ELSE @,
          !.presents[p] = [e EXCEPT !.index = None, !.seq = None, !.token = None,
                                    !.data = None, !.win32K = None, !.context = None,
                                    !.layers = IF e.waitType THEN @ ELSE {},
                                    !.hwnd = None, !.inDwm = FALSE]]

\* The head of the ring has been deferred for too long.
ClearStaleDeferral(c, p) ==
    LET head == Entry(c.ring, 0)
        wait == c.presents[head].waitStop
        c1 == [c EXCEPT !.presents[head].waitStop = FALSE,
                        !.presents[head].lost = @ \/ wait,
                        !.presents[head].waitType = FALSE]
    IN IF c.ring.ready = 0 /\ c.ring.count > 0 /\ p - head > DeferralTimeLimit
       THEN UpdateReady(StopTrackingPresent(c1, head))
       ELSE c

\* The part of CompletePresent that holds mPresentEventMutex.
StoreCompleted(c, p) ==
    LET oldest == Entry(c.ring, 0)
        full == c.ring.count = RingSize
        store == IF full
                 THEN [c EXCEPT !.ring = OverwriteOldest(@, p), !.dropped = @ \cup {oldest},
                                !.log = Append(@, p)]
                 ELSE [c EXCEPT !.ring = AppendCompleted(@, p), !.log = Append(@, p)]
    IN IF full /\ ~c.presents[oldest].lost /\ c.presents[p].lost
       THEN [c EXCEPT !.dropped = @ \cup {p}]
       ELSE ClearStaleDeferral(UpdateReady(store), p)

ComposedModes == {"Composed_Flip", "Composed_Copy_GPU_GDI", "Composed_Copy_CPU_GDI"}

\* The dependent presents share the fate of DWM's present p, except that of
\* several composed ones of a window only the last is displayed.
SettleDependents(c, p) ==
    LET e == c.presents[p]
        dep(i) == c.presents[e.deps[i]]
        composed(i) == ~dep(i).completed /\ dep(i).mode \in ComposedModes
        superseded(i) == /\ composed(i)
                         /\ \E j \in i + 1 .. Len(e.deps) :
                              composed(j) /\ dep(j).hwnd = dep(i).hwnd
        settle(a, i) ==
            LET q == e.deps[i]
            IN IF superseded(i)
               THEN [a EXCEPT !.presents[q].final = "Discarded", !.presents[q].shown = FALSE]
               ELSE IF ~dep(i).completed /\ a.presents[q].final # "Discarded"
                    THEN [a EXCEPT !.presents[q].final = e.final,
                                   !.presents[q].shown = @ \/ e.shown,
                                   !.presents[q].waitType = e.waitType,
                                   !.presents[q].doneType = e.doneType]
                    ELSE a
        lose(d) == [d EXCEPT !.lost = TRUE]
    IN IF e.lost THEN ForEach(c, e.deps, lose)
       ELSE FoldLeft(settle, c, Reverse([i \in DOMAIN e.deps |-> i]))

OrderedOf(c, pid) == {q \in c.ordered : c.presents[q].pid = pid}

RECURSIVE CompletePresent(_, _)
RECURSIVE RemoveLostPresent(_, _)
RECURSIVE DiscardAll(_, _)

\* What the first completion does to the presents tracked so far.
DiscardAll(c, pids) ==
    IF pids = <<>> THEN c
    ELSE LET mine == OrderedOf(c, Head(pids))
         IN IF mine = {} THEN DiscardAll(c, Tail(pids))
            ELSE DiscardAll(RemoveLostPresent(c, Min(mine)), pids)

\* FlipFrameType events to come need the dependents of a present that waits.
CompleteDependents(c, p) ==
    LET complete(a, q) == IF a.presents[q].completed THEN a ELSE CompletePresent(a, q)
    IN IF c.presents[p].deps = <<>> THEN c
       ELSE [FoldLeft(complete, SettleDependents(c, p), Reverse(c.presents[p].deps))
               EXCEPT !.presents[p].deps = IF c.presents[p].waitType THEN @ ELSE <<>>]

\* The loop below holds an iterator to the present after the one it completes.
KeepIterator(c, after) ==
    IF after = {} \/ Min(after) \in c.ordered THEN c ELSE [c EXCEPT !.dangling = TRUE]

After(c, q) == {r \in OrderedOf(c, c.presents[q].pid) : r > q}

EarlierPresents(c, p) ==
    {q \in OrderedOf(c, c.presents[p].pid) : q < p /\ c.presents[q].swap = c.presents[p].swap}

\* A displayed present ends the earlier ones of its swap chain.
CompleteEarlier(c, p) ==
    LET complete(a, q) ==
            IF q \notin a.ordered THEN a
            ELSE KeepIterator(
                   CompletePresent([a EXCEPT !.presents[q].lost = @ \/ a.presents[p].lost], q),
                   After(a, q))
    IN IF c.presents[p].final # "Presented" THEN c
       ELSE FoldLeft(complete, c, SetToSortSeq(EarlierPresents(c, p), <))

\* A present displayed or discarded before its Present_Stop waits for it, and a
\* displayed one for FlipFrameType events.
MarkCompleted(c, p) ==
    LET e == c.presents[p]
    IN [c EXCEPT !.presents[p].completed = TRUE,
                 !.presents[p].waitStop = ~e.lost /\ e.api /\ ~e.stopped,
                 !.presents[p].waitType = \/ @
                                          \/ /\ ~e.lost /\ ~e.doneType
                                             /\ c.flipTypes /\ e.final = "Presented"]

Complete(c, p) ==
    StoreCompleted(
      StopTrackingPresent(
        CompleteEarlier(CompleteDependents(MarkCompleted(c, p), p), p), p), p)

\* The first completion only throws away what was tracked before.
CompleteFirst(c, p) ==
    IF ~c.hasCompleted /\ ~c.presents[p].lost
    THEN [DiscardAll(c, ProcessOrder) EXCEPT !.hasCompleted = TRUE]
    ELSE Complete(c, p)

\* "Protect against CompletePresent() being called twice for the same present."
CompletePresent(c, p) ==
    IF c.presents[p].completed /\ (c.hasCompleted \/ c.presents[p].lost)
    THEN [c EXCEPT !.twice = @ \cup {p}]
    ELSE CompleteFirst(c, p)

\* A present whose tracking went wrong.
RemoveLostPresent(c, p) ==
    LET e == c.presents[p]
        c1 == [c EXCEPT !.presents[p].lost = TRUE]
    IN IF ~e.completed THEN CompletePresent(c1, p)
       ELSE IF ~e.waitStop THEN c1
            ELSE UpdateReady([c1 EXCEPT !.presents[p].waitStop = FALSE,
                                        !.byThread = RemoveFromThreads(@, e, p)])

----
\* Tracking.

\* An in-flight present found in the way has gone wrong.
Lose(c, p) == IF p # NoPresent THEN RemoveLostPresent(c, p) ELSE c

EmplaceThread(c, t, p) ==
    IF c.byThread[t] = NoPresent THEN [c EXCEPT !.byThread[t] = p] ELSE c

SetThreadPresent(c, t, p) == EmplaceThread(Lose(c, c.byThread[t]), t, p)

\* The bug that runs past the end of the ring.
AddPresentPastEnd(c, p, e) ==
    [c EXCEPT !.presents = Append(@, [e EXCEPT !.index = c.next + 1]),
              !.tracked[c.next] = p,
              !.next = @ + 1,
              !.ordered = @ \cup {p}]

AddPresent(c, p, e) ==
    [c EXCEPT !.presents = Append(@, [e EXCEPT !.index = c.next + 1]),
              !.tracked[c.next] = p,
              !.next = GetRingIndex(@ + 1),
              !.ordered = @ \cup {p}]

\* So has one that is not complete when the ring of tracked presents comes
\* around to it.
TrackPresent(c, e) ==
    LET p == Len(c.presents) + 1
    IN SetThreadPresent(AddPresent(Lose(c, c.tracked[c.next]), p, e), e.tid, p)

\* IsProcessTrackedForFiltering
IsProcessTracked(c, t) == ProcessOf[t] \notin c.filtered

\* A lookup that may change the consumer: its next state and the present.
Found(c, p) == [c |-> c, p |-> p]

CreatePresent(c, t) ==
    IF IsProcessTracked(c, t)
    THEN Found(TrackPresent(c, NewPresent(t, FALSE, None)), Len(c.presents) + 1)
    ELSE Found(c, NoPresent)

\* The present of the thread, or the oldest of its process that only the
\* runtime has seen (the driver may have deferred it to this thread), or a new one.
FindOrCreatePresent(c, t) ==
    LET deferred == {q \in OrderedOf(c, ProcessOf[t]) :
                        /\ c.presents[q].driver = None
                        /\ ~c.presents[q].seenDxgk
                        /\ ~c.presents[q].seenWin32K
                        /\ c.presents[q].mode = "Unknown"}
        p == Min(deferred)
    IN IF c.byThread[t] # NoPresent
       THEN Found(c, c.byThread[t])
       ELSE IF deferred # {}
            THEN Found(SetThreadPresent([c EXCEPT !.presents[p].driver = t], t, p), p)
            ELSE CreatePresent(c, t)

\* The lookup of several handlers: a present that has the field set is a lost one.
RECURSIVE FindFresh(_, _, _, _)
Retry(f, t, field, unset) ==
    IF f.p # NoPresent /\ f.c.presents[f.p][field] # unset
    THEN FindFresh(RemoveLostPresent(f.c, f.p), t, field, unset)
    ELSE f

FindFresh(c, t, field, unset) == Retry(FindOrCreatePresent(c, t), t, field, unset)

\* The lookup of a flip.  DWM may emit no Present_Start and Present_Stop: its
\* previous flip is then still found on the thread.
RECURSIVE FindForFlip(_, _)
FindForFlip(c, t) ==
    LET p == c.byThread[t]
        e == c.presents[p]
    IN IF p # NoPresent /\ (e.seenDxgk \/ (e.seq # None /\ e.stopped /\ e.api))
       THEN FindForFlip(RemoveLostPresent(c, p), t)
       ELSE IF p # NoPresent /\ e.api
            THEN Found(c, IF e.mode = "Unknown" THEN p ELSE NoPresent)
            ELSE CreatePresent([c EXCEPT !.byThread[t] = NoPresent], t)

\* The bug that does not reset PresentInDwmWaitingStruct.
FlipFoundKeepsFlag(f, t) ==
    LET flipped == [f.c EXCEPT !.presents[f.p].mode = "Hardware_Legacy_Flip"]
    IN IF f.p = NoPresent THEN f
       ELSE Found(IF t # f.c.dwmThread THEN flipped
                  ELSE [flipped EXCEPT !.presents[f.p].deps = f.c.waitingForDWM,
                                       !.waitingForDWM = f.c.presents[f.p].deps], f.p)

\* The presents waiting for DWM depend on what it flips.
FlipFound(f, t) ==
    LET flipped == [f.c EXCEPT !.presents[f.p].mode = "Hardware_Legacy_Flip"]
        leave(d) == [d EXCEPT !.inDwm = FALSE]
        attached == [ForEach(flipped, f.c.waitingForDWM, leave) EXCEPT
                       !.presents[f.p].deps = f.c.waitingForDWM,
                       !.waitingForDWM = f.c.presents[f.p].deps]
    IN IF f.p = NoPresent THEN f
       ELSE Found(IF t = f.c.dwmThread THEN attached ELSE flipped, f.p)

HandleDxgkFlip(c, t) == FlipFound(FindForFlip(c, t), t)

\* The oldest present submitted under s, whatever the context.
FindPresentBySubmitSequence(c, s) ==
    LET found == ToSet(c.bySeq[s]) \ {NoPresent}
    IN IF found = {} THEN NoPresent ELSE Min(found)

SetScreenTime(c, p) ==
    [c EXCEPT !.presents[p].shown = TRUE,
              !.presents[p].final = IF c.presents[p].shown THEN @ ELSE "Presented"]

CompleteIf(condition, c, p) == IF condition THEN CompletePresent(c, p) ELSE c

----
\* Runtime events.

\* Thread t emits events of the given kind and variant.
Emits(t, kind) == kind \subseteq Events[t]

\* Such an event leaves the consumer in c.
Handle(t, kind, c) ==
    /\ Emits(t, kind)
    /\ pm' = c
    /\ Len(pm'.presents) <= MaxPresents
    /\ UNCHANGED <<handed, script>>

RuntimePresentStart(t, swap, noSequence) ==
    /\ IsProcessTracked(pm, t)
    /\ Handle(t, {"Present_Start", IF noSequence THEN "DoNotSequence" ELSE "Present_Start"},
              TrackPresent(pm, [NewPresent(t, TRUE, swap) EXCEPT !.noSequence = noSequence]))

\* result is "visible", "occluded" or "failed".
RuntimePresentStop(t, result) ==
    LET p == pm.byThread[t]
        c == [pm EXCEPT !.presents[p].api = TRUE, !.presents[p].stopped = TRUE]
        off == [c EXCEPT !.byThread[t] = NoPresent]
    IN /\ IsProcessTracked(pm, t)
       /\ p # NoPresent
       /\ Handle(t, {"Present_Stop", result},
            IF pm.presents[p].waitStop
            THEN UpdateReady([off EXCEPT !.presents[p].waitStop = FALSE])
            ELSE IF result = "failed" THEN CompletePresent(c, p)
            ELSE IF result = "occluded"
                 THEN CompletePresent([c EXCEPT !.presents[p].final = "Discarded"], p)
            ELSE IF ~TrackDisplay
                 THEN CompletePresent([c EXCEPT !.presents[p].final = "Presented"], p)
            ELSE off)

----
\* Kernel events.

Flip(t, mmio) ==
    LET kind == {"Flip", IF mmio THEN "MMIO" ELSE "Flip"}
    IN /\ Emits(t, kind)
       /\ \E f \in {HandleDxgkFlip(pm, t)} :
            Handle(t, kind,
                   IF f.p = NoPresent THEN f.c
                   ELSE [f.c EXCEPT !.presents[f.p].waitFlip = @ \/ mmio])

FlipMultiPlaneOverlay(t) ==
    /\ Emits(t, {"FlipMPO"})
    /\ \E f \in {HandleDxgkFlip(pm, t)} :
         Handle(t, {"FlipMPO"},
                IF f.p = NoPresent THEN f.c
                ELSE [f.c EXCEPT !.presents[f.p].waitFlip = TRUE,
                                 !.presents[f.p].waitMpo = TRUE,
                                 !.presents[f.p].swap = IF @ = None THEN VidPnLayer ELSE @])

IndependentFlip(s) ==
    LET p == FindPresentBySubmitSequence(pm, s)
    IN /\ p # NoPresent
       /\ Handle(None, {"IndependentFlip"},
                 [pm EXCEPT !.presents[p].mode = "Hardware_Independent_Flip"])

\* Blit_Info
HandleDxgkBlt(t, w, redirected) ==
    LET kind == {"Blit", IF redirected THEN "redirected" ELSE "Blit"}
    IN /\ Emits(t, kind)
       /\ \E f \in {FindFresh(pm, t, "mode", "Unknown")} :
            Handle(t, kind,
                   IF f.p = NoPresent THEN f.c
                   ELSE [f.c EXCEPT !.presents[f.p].hwnd = w,
                                    !.presents[f.p].mode =
                                        IF redirected THEN "Composed_Copy_CPU_GDI"
                                        ELSE "Hardware_Legacy_Copy_To_Front_Buffer"])

\* Windows 7: a blit is a fullscreen one if its context gets another packet
\* before a present history token.
SubmittedOnContext(c, x) ==
    LET p == c.byContext[x]
        e == c.presents[p]
        blit == e.mode = "Hardware_Legacy_Copy_To_Front_Buffer"
        c1 == CompleteIf(blit /\ e.shown, [c EXCEPT !.presents[p].seenDxgk = @ \/ blit], p)
    IN IF p = NoPresent THEN c
       ELSE IF c1.presents[p].context = None THEN c1
       ELSE [c1 EXCEPT !.byContext[x] = NoPresent, !.presents[p].context = None]

\* The packet gives the thread's present its number.
Numbered(c, t, x, s, isWin7) ==
    LET p == c.byThread[t]
        c1 == [c EXCEPT !.presents[p].seq = s, !.bySeq[s][x] = p]
    IN IF p = NoPresent \/ c.presents[p].seq # None THEN c
       ELSE IF isWin7 /\ c.presents[p].mode = "Hardware_Legacy_Copy_To_Front_Buffer"
            THEN [c1 EXCEPT !.byContext[x] = p, !.presents[p].context = x]
            ELSE c1

\* QueuePacket_Start, of a present packet or of another
HandleDxgkQueueSubmit(t, x, s, isPresent, isWin7) ==
    /\ isPresent \/ isWin7
    /\ Handle(t, {IF isWin7 THEN "Win7QueueSubmit" ELSE "QueueSubmit"},
              LET c == IF isWin7 THEN SubmittedOnContext(pm, x) ELSE pm
              IN IF isPresent THEN Numbered(c, t, x, s, isWin7) ELSE c)

\* QueuePacket_Stop
HandleDxgkQueueComplete(x, s) ==
    LET p == pm.bySeq[s][x]
        e == pm.presents[p]
    IN /\ p # NoPresent
       /\ \/ e.mode = "Hardware_Legacy_Copy_To_Front_Buffer"
          \/ e.mode = "Hardware_Legacy_Flip" /\ ~e.waitFlip
       /\ Handle(None, {"QueueComplete"},
            CompleteIf(e.seenDxgk \/ e.mode = "Hardware_Legacy_Flip", SetScreenTime(pm, p), p))

HandleDxgkMMIOFlip(s, immediate) ==
    LET p == FindPresentBySubmitSequence(pm, s)
        c == [pm EXCEPT !.presents[p].mode = IF @ = "Composed_Flip"
                                             THEN "Hardware_Independent_Flip" ELSE @]
    IN /\ p # NoPresent
       /\ Handle(None, {"MMIOFlip", IF immediate THEN "immediate" ELSE "MMIOFlip"},
            IF immediate
            THEN CompleteIf(pm.presents[p].mode = "Hardware_Legacy_Flip", SetScreenTime(c, p), p)
            ELSE c)

\* A status after the flip that is neither FlipWaitVSync nor FlipWaitHSync.
MMIOFlipMultiPlaneOverlay(s) ==
    LET p == FindPresentBySubmitSequence(pm, s)
    IN /\ p # NoPresent
       /\ Handle(None, {"MMIOFlipMPO"},
            CompleteIf(pm.presents[p].mode = "Hardware_Legacy_Flip", SetScreenTime(pm, p), p))

\* VSyncDPC_Info
HandleDxgkSyncDPC(s) ==
    LET p == FindPresentBySubmitSequence(pm, s)
        e == pm.presents[p]
    IN /\ p # NoPresent
       /\ Handle(None, {"SyncDPC"},
            CompleteIf(e.mode = "Hardware_Legacy_Flip" /\ ~e.waitMpo, SetScreenTime(pm, p), p))

\* VSyncDPCMultiPlane_Info, HSyncDPCMultiPlane_Info: flips is a sequence of
\* submit sequence numbers.  A present shown through FlipFrameType is Presented and
\* has an entry in Displayed already: one more, for the application's frame, leaves
\* what is kept of Displayed (shown) as it is.
SyncDPCMultiPlane(flips, isMultiPlane) ==
    LET flip(c, s) ==
          LET p == FindPresentBySubmitSequence(c, s)
              c1 == IF /\ isMultiPlane
                       /\ c.presents[p].mode \in {"Hardware_Independent_Flip", "Composed_Flip"}
                    THEN [c EXCEPT !.presents[p].mode = "Hardware_Composed_Independent_Flip"]
                    ELSE c
          IN IF p = NoPresent THEN c
             ELSE CompletePresent(IF c.presents[p].final = "Presented" THEN c1
                                  ELSE SetScreenTime(c1, p), p)
    IN Handle(None, {"SyncDPCMultiPlane"}, FoldLeft(flip, pm, flips))

\* Present_Info, at the end of the kernel's part.
PresentInfo(t, w) ==
    LET p == pm.byThread[t]
        e == pm.presents[p]
        c == [pm EXCEPT !.presents[p].seenDxgk = TRUE,
                        !.presents[p].hwnd = IF @ = None THEN w ELSE @,
                        !.byThread[t] = IF ~e.api \/ e.tid # t THEN NoPresent ELSE @]
    IN /\ p # NoPresent
       /\ Handle(t, {"Present_Info"},
            CompleteIf(e.mode = "Hardware_Legacy_Copy_To_Front_Buffer" /\ e.shown, c, p))

\* BlitCancel_Info
BlitCancel(t) ==
    LET p == pm.byThread[t]
    IN /\ p # NoPresent
       /\ Handle(t, {"BlitCancel"}, CompletePresent([pm EXCEPT !.presents[p].final = "Discarded"], p))

\* PresentHistory_Start: the token k of a windowed present.  Another present
\* that still has it is lost.
TakeToken(c, p, k) ==
    LET e == c.presents[p]
        c1 == [c EXCEPT !.presents[p].token = k,
                        !.presents[p].final = IF e.shown THEN "Unknown" ELSE @,
                        !.presents[p].shown = FALSE]
        q == c.byToken[k]
    IN [IF q # NoPresent THEN RemoveLostPresent(c1, q) ELSE c1 EXCEPT !.byToken[k] = p]

\* What the token says of the present's mode, and how DWM will refer to it.
TokenMode(c, p, d) ==
    LET mode == c.presents[p].mode
    IN CASE mode = "Hardware_Legacy_Copy_To_Front_Buffer" ->
              [c EXCEPT !.presents[p].mode = "Composed_Copy_GPU_GDI"]
         [] mode = "Unknown" ->
              [c EXCEPT !.presents[p].mode = "Composed_Flip"]
         [] mode = "Composed_Copy_CPU_GDI" /\ d = None ->
              [c EXCEPT !.waitingForDWM = Append(@, p), !.presents[p].inDwm = TRUE]
         [] mode = "Composed_Copy_CPU_GDI" /\ d # None ->
              [c EXCEPT !.byData[d] = p, !.presents[p].data = d]
         [] OTHER -> c

HandleDxgkPresentHistory(t, k, d, composition) ==
    LET kind == {"PresentHistory", IF composition THEN "composition" ELSE "PresentHistory"}
    IN /\ Emits(t, kind)
       /\ \E f \in {FindFresh(pm, t, "token", None)} :
            \/ f.p = NoPresent /\ Handle(t, kind, f.c)
            \/ /\ f.p # NoPresent
               /\ \E c \in {TakeToken(f.c, f.p, k)} :
                    Handle(t, kind,
                      IF c.presents[f.p].mode = "Unknown" /\ composition
                      THEN RemoveLostPresent(c, f.p)
                      ELSE CompleteIf(~TrackDisplay, TokenMode(c, f.p, d), f.p))

\* PresentHistory_Info: the token goes to DWM.
HandleDxgkPresentHistoryInfo(k) ==
    LET p == pm.byToken[k]
        e == pm.presents[p]
        c == [pm EXCEPT !.byToken[k] = NoPresent]
    IN /\ p # NoPresent
       /\ Handle(None, {"PresentHistoryInfo"},
            CASE e.mode = "Composed_Flip" /\ ~e.seenWin32K ->
                   [c EXCEPT !.waitingForDWM = Append(@, p), !.presents[p].inDwm = TRUE]
              [] e.mode = "Composed_Copy_GPU_GDI" ->
                   [c EXCEPT !.byWindow[e.hwnd] = p]
              [] OTHER -> c)

----
\* The planes of the display and the frame types its driver reports.

\* No more FlipFrameType events will come for the last present of plane l.
ReleaseLayer(c, l) ==
    LET p == c.byLayer[l]
        c1 == [c EXCEPT !.byLayer[l] = NoPresent,
                        !.presents[p].layers = {}, !.presents[p].doneType = TRUE]
        release(d) == [d EXCEPT !.waitType = FALSE]
    IN IF p = NoPresent THEN c
       ELSE IF ~c.presents[p].waitType THEN c1
       ELSE UpdateReady(ForEach(StopTrackingPresent([c1 EXCEPT !.presents[p].waitType = FALSE], p),
                                c.presents[p].deps, release))

\* The type applies to what DWM's present p displays, too.
ApplyFlipFrameType(c, p) ==
    LET apply(a, q) == IF a.presents[q].final = "Discarded" THEN a ELSE SetScreenTime(a, q)
    IN SetScreenTime(FoldLeft(apply, c, c.presents[p].deps), p)

\* Plane l of the flip; whether a pending event is about it is left open.
FlipLayer(c, l, p, matches) ==
    LET c1 == ReleaseLayer(c, l)
        c2 == IF p = NoPresent THEN c1
              ELSE [c1 EXCEPT !.presents[p].layers = @ \cup {l}, !.byLayer[l] = p]
    IN [IF l \in c.pendingTypes /\ p # NoPresent /\ matches
        THEN ApplyFlipFrameType(c2, p) ELSE c2 EXCEPT !.pendingTypes = @ \ {l}]

MMIOFlipMultiPlaneOverlay3(s, planes, matching) ==
    LET p == FindPresentBySubmitSequence(pm, s)
        flip(c, l) == FlipLayer(c, l, p, l \in matching)
    IN Handle(None, {"MMIOFlipMPO3"},
              FoldLeft(flip, [pm EXCEPT !.flipTypes = TRUE], SetToSortSeq(planes, <)))

\* FlipFrameType_Info, of the present in the table or of one yet to come
FlipFrameType(l, matches) ==
    LET p == pm.byLayer[l]
    IN /\ pm.flipTypes
       /\ Handle(None, {"FlipFrameType"},
                 IF p # NoPresent /\ l \in pm.presents[p].layers /\ matches
                 THEN ApplyFlipFrameType(pm, p)
                 ELSE [pm EXCEPT !.pendingTypes = @ \cup {l}])

----
\* Win32K events: the token of a present of a composition surface.

TokenCompositionSurfaceObject(t, k) ==
    /\ Emits(t, {"TokenSurface"})
    /\ \E f \in {FindFresh(pm, t, "seenWin32K", FALSE)} :
         Handle(t, {"TokenSurface"},
                IF f.p = NoPresent THEN f.c
                ELSE [f.c EXCEPT !.presents[f.p].mode = "Composed_Flip",
                                 !.presents[f.p].seenWin32K = TRUE,
                                 !.presents[f.p].win32K = k,
                                 !.byWin32K[k] = f.p])

\* The present becomes the latest of its window.  The one before will not be
\* displayed, but is tracked on, so that its swap chain's presents stay in order.
ComposeLatest(c, p) ==
    LET w == c.presents[p].hwnd
        q == c.byWindow[w]
        c1 == [c EXCEPT !.byWindow[w] = p]
    IN IF w = None \/ q = p THEN c
       ELSE IF q = NoPresent THEN c1
       ELSE RemovePresentFromSubmitSequenceIdTracking(
              [c1 EXCEPT !.presents[q].final = IF c.presents[q].shown THEN @ ELSE "Discarded"], q)

TokenInFrame(k, iFlip) ==
    LET p == pm.byWin32K[k]
        c == [pm EXCEPT !.presents[p].inFrame = TRUE,
                        !.presents[p].mode = IF iFlip /\ @ = "Composed_Flip"
                                             THEN "Hardware_Independent_Flip" ELSE @]
    IN /\ p # NoPresent
       /\ Handle(None, {"InFrame", IF iFlip THEN "IndependentFlip" ELSE "InFrame"},
                 ComposeLatest(c, p))

TokenConfirmed(k) ==
    LET p == pm.byWin32K[k]
        e == pm.presents[p]
        c == IF e.final = "Unknown" /\ e.noSequence
             THEN RemovePresentFromSubmitSequenceIdTracking(
                    [pm EXCEPT !.presents[p].final = "Discarded"], p)
             ELSE pm
    IN /\ p # NoPresent
       /\ Handle(None, {"Confirmed"},
                 IF e.hwnd = None THEN c ELSE [c EXCEPT !.byWindow[e.hwnd] = NoPresent])

TokenDiscarded(k) ==
    LET p == pm.byWin32K[k]
        e == pm.presents[p]
        unseen == ~e.inFrame /\ e.final = "Unknown"
        c == [pm EXCEPT !.byWin32K[k] = NoPresent, !.presents[p].win32K = None,
                        !.presents[p].final = IF unseen THEN "Discarded" ELSE @]
    IN /\ p # NoPresent
       /\ Handle(None, {"Discarded"}, CompleteIf(unseen \/ e.mode # "Composed_Flip", c, p))

----
\* DWM events.

\* The latest composed copy of each window waits for DWM's next present.
GetPresentHistory ==
    LET isCopy(p) == /\ p # NoPresent
                     /\ pm.presents[p].mode \in {"Composed_Copy_GPU_GDI", "Composed_Copy_CPU_GDI"}
        windows == SetToSortSeq(DOMAIN pm.byWindow, <)
        copies == SelectSeq([i \in DOMAIN windows |-> pm.byWindow[windows[i]]], isCopy)
        wait(d) == [d EXCEPT !.inDwm = TRUE]
    IN Handle(None, {"GetPresentHistory"},
         [ForEach(pm, copies, wait) EXCEPT
            !.waitingForDWM = @ \o copies,
            !.byWindow = InitialConsumer.byWindow])

SchedulePresent(t) == Handle(t, {"SchedulePresent"}, [pm EXCEPT !.dwmThread = t])

\* FlipChain_Pending, FlipChain_Complete, FlipChain_Dirty
FlipChain(d, w) ==
    LET p == pm.byData[d]
    IN /\ p # NoPresent
       /\ Handle(None, {"FlipChain"}, [pm EXCEPT !.presents[p].data = None,
                                         !.byWindow[w] = p,
                                         !.byData[d] = NoPresent])

\* SCHEDULE_SURFACEUPDATE_Info: DWM's next present shows the surface.
ScheduleSurfaceUpdate(k) ==
    LET p == pm.byWin32K[k]
    IN /\ p # NoPresent
       /\ pm.presents[p].inFrame
       /\ Len(pm.waitingForDWM) < MaxPresents   \* bound
       /\ Handle(None, {"SurfaceUpdate"},
                 [pm EXCEPT !.waitingForDWM = Append(@, p), !.presents[p].inDwm = TRUE])

----
\* The thread that dequeues.

DequeuePresentEvents ==
    /\ "Dequeue" \in Events[None]
    /\ handed' = handed \cup {Entry(pm.ring, i) : i \in 0 .. pm.ring.ready - 1}
    /\ pm' = [pm EXCEPT !.ring = TakeReady(@)]
    /\ UNCHANGED script

\* The thread that handles clients' requests changes the target processes.

AddTrackedProcessForFiltering(pid) ==
    /\ pid \in pm.filtered
    /\ Handle(None, {"Retarget"}, [pm EXCEPT !.filtered = @ \ {pid}])

RemoveTrackedProcessForFiltering(pid) ==
    /\ pid \notin pm.filtered \cup {DwmProcess}
    /\ Handle(None, {"Retarget"}, [pm EXCEPT !.filtered = @ \cup {pid}])

RuntimeEvent ==
    \E t \in Threads :
        \/ \E swap \in SwapChains, noSequence \in BOOLEAN :
             RuntimePresentStart(t, swap, noSequence)
        \/ \E result \in {"visible", "occluded", "failed"} : RuntimePresentStop(t, result)

FlipEvent ==
    \/ \E t \in Threads : \/ \E mmio \in BOOLEAN : Flip(t, mmio)
                          \/ FlipMultiPlaneOverlay(t)
    \/ \E s \in SubmitSequences : \/ IndependentFlip(s)
                                  \/ \E immediate \in BOOLEAN : HandleDxgkMMIOFlip(s, immediate)
                                  \/ MMIOFlipMultiPlaneOverlay(s)
                                  \/ HandleDxgkSyncDPC(s)
    \/ \E flips \in BoundedSeq(SubmitSequences, 2), isMultiPlane \in BOOLEAN :
         flips # <<>> /\ SyncDPCMultiPlane(flips, isMultiPlane)

LayerEvent ==
    \/ \E s \in SubmitSequences, planes \in SUBSET Layers \ {{}} :
         \E matching \in SUBSET planes : MMIOFlipMultiPlaneOverlay3(s, planes, matching)
    \/ \E l \in Layers, matches \in BOOLEAN : FlipFrameType(l, matches)

TokenEvent ==
    \E k \in Win32KTokens :
        \/ \E t \in Threads : TokenCompositionSurfaceObject(t, k)
        \/ \E iFlip \in BOOLEAN : TokenInFrame(k, iFlip)
        \/ TokenConfirmed(k)
        \/ TokenDiscarded(k)
        \/ ScheduleSurfaceUpdate(k)

QueueEvent ==
    \E x \in Contexts, s \in SubmitSequences :
        \/ \E t \in Threads, isPresent, isWin7 \in BOOLEAN :
             HandleDxgkQueueSubmit(t, x, s, isPresent, isWin7)
        \/ HandleDxgkQueueComplete(x, s)

WindowEvent ==
    \/ \E t \in Threads :
         \/ BlitCancel(t)
         \/ \E w \in Windows : \/ PresentInfo(t, w)
                               \/ \E redirected \in BOOLEAN : HandleDxgkBlt(t, w, redirected)
         \/ \E k \in Tokens, d \in TokenData \cup {None}, composition \in BOOLEAN :
              HandleDxgkPresentHistory(t, k, d, composition)
         \/ SchedulePresent(t)
    \/ \E k \in Tokens : HandleDxgkPresentHistoryInfo(k)
    \/ \E d \in TokenData, w \in Windows : FlipChain(d, w)
    \/ GetPresentHistory

FilterChange ==
    \E pid \in ToSet(ProcessOrder) : \/ AddTrackedProcessForFiltering(pid)
                                     \/ RemoveTrackedProcessForFiltering(pid)

Next ==
    \/ RuntimeEvent
    \/ FlipEvent
    \/ QueueEvent
    \/ WindowEvent
    \/ LayerEvent
    \/ TokenEvent
    \/ FilterChange
    \/ DequeuePresentEvents

Spec == Init /\ [][Next]_vars

----
\* Properties.

\* Every lookup table holds presents or nothing.
TypeOK ==
    LET there == Ids(pm) \cup {NoPresent}
    IN /\ Len(pm.presents) <= MaxPresents
       /\ pm.tracked \in [0 .. RingSize - 1 -> there]
       /\ pm.next \in 0 .. RingSize - 1
       /\ pm.ordered \subseteq Ids(pm)
       /\ pm.byThread \in [Threads -> there]
       /\ pm.bySeq \in [SubmitSequences -> [Contexts -> there]]
       /\ pm.byToken \in [Tokens -> there]
       /\ pm.byData \in [TokenData -> there]
       /\ pm.byWin32K \in [Win32KTokens -> there]
       /\ pm.byContext \in [Contexts -> there]
       /\ pm.byLayer \in [Layers -> there]
       /\ pm.pendingTypes \subseteq Layers
       /\ pm.byWindow \in [Windows \cup {None} -> there]
       /\ pm.waitingForDWM \in Seq(Ids(pm))
       /\ pm.dwmThread \in Threads \cup {None}
       /\ pm.filtered \subseteq ToSet(ProcessOrder)
       /\ handed \subseteq Ids(pm)

Open(p) == ~pm.presents[p].completed

\* The handlers that retry a lookup until they find a usable present come to an
\* end: what a thread leads to is a present that RemoveLostPresent takes off it.
LookupsEnd ==
    \A t \in Threads : pm.byThread[t] # NoPresent =>
        LET e == pm.presents[pm.byThread[t]]
        IN /\ ~e.completed \/ e.waitStop
           /\ t = e.tid \/ t = e.driver

\* A present is in mOrderedPresentsByProcessId, and in its slot of
\* mTrackedPresents, exactly until it is completed.
TrackedUntilCompleted ==
    /\ pm.ordered = {p \in Ids(pm) : Open(p)}
    /\ \A p \in Ids(pm) : Open(p) <=> \E i \in 0 .. RingSize - 1 : pm.tracked[i] = p

\* A completed present that waits for its Present_Stop can be found by it.
StopFindsWaiting ==
    \A p \in Ids(pm) : pm.presents[p].waitStop => pm.byThread[pm.presents[p].tid] = p

\* A completed present is in the ring, handed over or dropped: one of the three.
CompletedOnce ==
    LET stored == [i \in 1 .. pm.ring.count |-> Entry(pm.ring, i - 1)]
    IN /\ IsInjective(stored)
       /\ \A p \in Ids(pm) :
            Cardinality({S \in {<<1, ToSet(stored)>>, <<2, handed>>, <<3, pm.dropped>>} : p \in S[2]})
               = IF Open(p) THEN 0 ELSE 1

\* Of two presents of a swap chain the runtime named, the later is not completed
\* as displayed while the earlier is still on its way.
DisplayedInOrder ==
    \A i, j \in DOMAIN pm.log :
        LET late == pm.presents[pm.log[i]]
            early == pm.presents[pm.log[j]]
        IN (/\ i < j
            /\ pm.log[j] < pm.log[i]
            /\ late.pid = early.pid
            /\ late.swap = early.swap
            /\ late.swap \in SwapChains) => late.final # "Presented"

\* PresentInDwmWaitingStruct, "Whether this PresentEvent is currently stored in
\* PMTraceConsumer::mPresentsWaitingForDWM", is all that StopTrackingPresent goes
\* by: it tells so of a present in flight, and one that has no Win32K token is
\* there at most once (DWM may schedule the update of a surface again).
WaitsForDwmOnce ==
    \A p \in Ids(pm) :
        LET places == {i \in DOMAIN pm.waitingForDWM : pm.waitingForDWM[i] = p}
        IN /\ Open(p) => (pm.presents[p].inDwm <=> places # {})
           /\ ~pm.presents[p].inFrame => Cardinality(places) <= 1

\* "Protect against CompletePresent() being called twice for the same present.
\* That isn't intended": the DebugAssert holds.
NeverCompletedTwice == pm.twice = {}

\* Completing the earlier presents of a swap chain one by one, with all that their
\* completion entails, never erases the element the loop's iterator stands on.
IteratorsValid == ~pm.dangling

\* What Completion states of presents that events name at will holds of those that
\* the handlers look up in their tables.
CompletionKept ==
    /\ TrackedUntilCompleted
    /\ CompletedOnce
    /\ DisplayedInOrder
    /\ IteratorsValid
    /\ LookupsEnd
    /\ StopFindsWaiting
    /\ WaitsForDwmOnce
====
