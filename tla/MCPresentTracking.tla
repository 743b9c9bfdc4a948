---- MODULE MCPresentTracking ----
(* PresentTracking for TLC: an application with two threads, and DWM. *)
EXTENDS PresentTracking

AppAndDwm == <<1, 1, 2>>
AppFirst == <<1, 2>>

\* Fullscreen flips of one thread, handed over at once or, with a third present,
\* kept until the ring of completed presents is full.
Flips(others, n) ==
    [events |-> (None :> {"SyncDPC", "MMIOFlip", "immediate", "QueueComplete"} \cup others) @@
                (1 :> {"Present_Start", "Present_Stop", "visible", "occluded",
                       "Flip", "MMIO", "QueueSubmit"}) @@
                (2 :> {}) @@ (3 :> {}),
     settled |-> {TRUE}, display |-> TRUE, maxPresents |-> n]

\* Blits and overlay flips that the driver submits on a thread of its own.
DriverFlips(others, n) ==
    [events |-> (None :> {"QueueComplete", "SyncDPCMultiPlane"} \cup others) @@
                (1 :> {"Present_Start", "Present_Stop", "visible", "failed"}) @@
                (2 :> {"Blit", "FlipMPO", "QueueSubmit", "Present_Info", "BlitCancel"}) @@
                (3 :> {}),
     settled |-> {TRUE}, display |-> TRUE, maxPresents |-> n]

\* Windowed presents of an application, that DWM's flips on thread 3 display.
Composition(before) ==
    [events |-> (None :> {"PresentHistoryInfo", "FlipChain", "GetPresentHistory", "SyncDPC",
                          "MMIOFlipMPO"}) @@
                (1 :> {"Present_Start", "Blit", "redirected", "PresentHistory", "composition"}) @@
                (2 :> {}) @@
                (3 :> {"SchedulePresent", "Flip", "MMIO", "QueueSubmit"}),
     settled |-> {before}, display |-> TRUE, maxPresents |-> 3]

\* Presents of a composition surface, that DWM's flips display or that are
\* flipped independently.
Surfaces(app, others, n) ==
    [events |-> (None :> {"InFrame", "SurfaceUpdate", "SyncDPC"} \cup others) @@
                (1 :> {"Present_Start", "Present_Info", "TokenSurface"} \cup app) @@
                (2 :> {}) @@
                (3 :> {"SchedulePresent", "Flip", "MMIO", "QueueSubmit"}),
     settled |-> {TRUE}, display |-> TRUE, maxPresents |-> n]

\* Overlay flips with frame types.
FrameTypes(app, dwm, others) ==
    [events |-> (None :> {"MMIOFlipMPO3", "FlipFrameType", "SyncDPCMultiPlane"} \cup others) @@
                (1 :> app) @@ (2 :> {}) @@ (3 :> dwm),
     settled |-> {TRUE}, display |-> TRUE, maxPresents |-> 2]

\* Blits on Windows 7.
Windows7(n) ==
    [events |-> (None :> {"QueueComplete", "Dequeue"}) @@
                (1 :> {"Present_Start", "Present_Stop", "visible", "Blit", "Win7QueueSubmit"}) @@
                (2 :> {}) @@ (3 :> {}),
     settled |-> {TRUE}, display |-> TRUE, maxPresents |-> n]

\* Flips of a process that is dropped from the targets and added again.
Retargeted(n) ==
    [events |-> (None :> {"SyncDPC", "Retarget", "Dequeue"}) @@
                (1 :> {"Present_Start", "Present_Stop", "visible", "Flip", "QueueSubmit"}) @@
                (2 :> {}) @@ (3 :> {}),
     settled |-> {TRUE}, display |-> TRUE, maxPresents |-> n]

\* Presents are not tracked to the display.
NoDisplay(n) ==
    [events |-> (None :> {"Retarget", "Dequeue"}) @@
                (1 :> {"Present_Start", "Present_Stop", "visible", "occluded", "failed",
                       "PresentHistory"}) @@
                (2 :> {}) @@ (3 :> {}),
     settled |-> {TRUE}, display |-> FALSE, maxPresents |-> n]

OnlyFlips == {Flips({"Dequeue"}, 3)}
All == {Flips({"Dequeue"}, 2), Flips({"GetPresentHistory"}, 3),
        DriverFlips({"Dequeue"}, 2), DriverFlips({}, 3),
        Composition(TRUE), Composition(FALSE),
        Surfaces({"DoNotSequence"}, {"IndependentFlip", "Confirmed", "Discarded"}, 2),
        FrameTypes({"Present_Start", "Present_Stop", "visible", "FlipMPO", "QueueSubmit"}, {},
                   {"Dequeue"}),
        FrameTypes({"Blit", "redirected", "PresentHistory"},
                   {"SchedulePresent", "FlipMPO", "QueueSubmit"}, {"Dequeue"}),
        Windows7(2), Retargeted(3), NoDisplay(3)}
====
