---- MODULE FifoLock ----
(***************************************************************************)
(* What users of a CoroMutex rely on: a lock handed on in the order it was *)
(* asked for.  The head of the queue owns it.                              *)
(***************************************************************************)
EXTENDS Sequences, Integers

CONSTANT Coroutines

VARIABLE queue

Init == queue = <<>>

Enter(c) ==
    /\ \A i \in 1 .. Len(queue) : queue[i] # c
    /\ queue' = Append(queue, c)

Leave ==
    /\ queue # <<>>
    /\ queue' = Tail(queue)

Next == Leave \/ \E c \in Coroutines : Enter(c)

Spec == Init /\ [][Next]_queue
====
