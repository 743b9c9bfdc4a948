---- MODULE CoroMutex ----
(***************************************************************************)
(* The mutex between coroutines of one io_context thread                   *)
(* (CommonUtilities/pipe/CoroMutex.cpp), as operators on its state.  A     *)
(* coroutine that has to wait is suspended on a timer; Unlock cancels the  *)
(* timer of the first waiter, which resumes in a later turn of the thread. *)
(***************************************************************************)
EXTENDS Integers, Sequences

\* counter_: the owner and all that wait; waiters_; holdoff_: a waiter was
\* chosen and has not resumed yet
Free == [counter |-> 0, waiters |-> <<>>, holdoff |-> FALSE]

\* Lock returns at once
IsFree(m) == m.counter = 0

\* Mutant: the last to ask is served first.
LockInFront(m, c) ==
    [m EXCEPT !.counter = @ + 1,
              !.waiters = IF IsFree(m) THEN @ ELSE <<c>> \o @]

Lock(m, c) ==
    [m EXCEPT !.counter = @ + 1,
              !.waiters = IF IsFree(m) THEN @ ELSE Append(@, c)]

Ignored(m) == IsFree(m) \/ m.holdoff

\* The waiter that an Unlock resumes, as a set of at most one
Chosen(m) == IF Ignored(m) \/ m.waiters = <<>> THEN {} ELSE {Head(m.waiters)}

\* Mutant: the count drops to zero, so that newcomers pass the chosen waiter.
UnlockForgets(m) ==
    IF Ignored(m) THEN m
    ELSE IF m.waiters = <<>> THEN [m EXCEPT !.counter = @ - 1]
    ELSE [counter |-> Len(m.waiters) - 1, waiters |-> Tail(m.waiters), holdoff |-> TRUE]

Unlock(m) ==
    IF Ignored(m) THEN m
    ELSE IF m.waiters = <<>> THEN [m EXCEPT !.counter = @ - 1]
    ELSE [counter |-> m.counter - 1, waiters |-> Tail(m.waiters), holdoff |-> TRUE]

\* Mutant: a resumed waiter leaves the holdoff set.
ResumedHoldingOff(m) == m

\* The chosen waiter goes on in Lock
Resumed(m) == [m EXCEPT !.holdoff = FALSE]
====
