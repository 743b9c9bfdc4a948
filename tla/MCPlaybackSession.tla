---- MODULE MCPlaybackSession ----
(* PlaybackSession for TLC: the presents of a trace file. *)
EXTENDS PlaybackSession

Present(p, t, w) == [pid |-> p, start |-> t, waits |-> w, lost |-> FALSE, failed |-> FALSE]
LostPresent(p, t) == [Present(p, t, {}) EXCEPT !.lost = TRUE]

\* Of two processes; the third present of the ring makes the first stale.
Deferrals == <<Present(1, 0, {"stop"}), Present(2, 0, {"flip", "frame"}), LostPresent(1, 0),
               Present(2, 5, {"frame"})>>

\* The second keeps the third from being taken, for ever if its Present_Stop does not come.
StuckHead == <<Present(1, 0, {}), Present(1, 0, {"stop"}), Present(1, 0, {})>>

\* All presents are ready when they complete.
TwoProcesses == <<Present(1, 0, {}), Present(1, 0, {}), Present(2, 0, {}), Present(1, 0, {})>>
====
