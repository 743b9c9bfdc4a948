---- MODULE ActionPipe ----
(***************************************************************************)
(* Calls over an action pipe: the client side of                           *)
(* SymmetricActionConnector (DispatchSync, DispatchWithContinuation,       *)
(* DispatchDetached) with SyncRequest and AsyncEmit of act/Transfer.h, the *)
(* packets of CommonUtilities/pipe/Pipe.h and the server's                 *)
(* SyncHandleRequest.                                                      *)
(*                                                                         *)
(* Every call is a coroutine of the client's io_context thread.  It writes *)
(* its packet under the pipe's write mutex; a request (an event has no     *)
(* response) then reads the next packet under the read mutex and takes it  *)
(* for its own: no command token is compared.  Between two suspensions a   *)
(* coroutine runs without another one, so that is one step here.           *)
(***************************************************************************)
EXTENDS CoroMutex, FiniteSets

CONSTANTS Calls,   \* calls made through the client
          Events   \* those that are events

ASSUME CallsAssumption == Events \subseteq Calls

VARIABLES
    writeMtx, readMtx,   \* the pipe's mutexes
    pc,                  \* where each call is
    nextCommandToken,    \* SessionContext::nextCommandToken
    token,               \* the command token of each call
    requests,            \* packets on their way to the server
    handling,            \* the packet the server is executing, as a sequence of at most one
    responses,           \* packets on their way back
    got,                 \* the response each call was given
    broken               \* the server closed the pipe

vars == <<writeMtx, readMtx, pc, nextCommandToken, token, requests, handling,
          responses, got, broken>>

NoToken == 0

Init ==
    /\ writeMtx = Free
    /\ readMtx = Free
    /\ pc = [c \in Calls |-> "new"]
    /\ nextCommandToken = 1
    /\ token = [c \in Calls |-> NoToken]
    /\ requests = <<>>
    /\ handling = <<>>
    /\ responses = <<>>
    /\ got = [c \in Calls |-> NoToken]
    /\ broken = FALSE

\* Call c goes to place; calls in woken, chosen by an Unlock, go to wake.
Places(c, place, woken, wake) ==
    pc' = [d \in Calls |-> IF d = c THEN place ELSE IF d \in woken THEN wake ELSE pc[d]]

----
\* The client.

\* The coroutine starts: it takes its token and asks for the write mutex.
Dispatch(c) ==
    /\ pc[c] = "new"
    /\ token' = [token EXCEPT ![c] = nextCommandToken]
    /\ nextCommandToken' = nextCommandToken + 1
    /\ writeMtx' = Lock(writeMtx, c)
    /\ Places(c, IF IsFree(writeMtx) THEN "writing" ELSE "waitWrite", {}, "")
    /\ UNCHANGED <<readMtx, requests, handling, responses, got, broken>>

ResumeWrite(c) ==
    /\ pc[c] = "wakeWrite"
    /\ writeMtx' = Resumed(writeMtx)
    /\ Places(c, "writing", {}, "")
    /\ UNCHANGED <<readMtx, nextCommandToken, token, requests, handling, responses, got, broken>>

\* Mutant: the write mutex is released in a turn of its own, before the read
\* mutex is asked for.
WrittenThenYields(c) ==
    \/ /\ pc[c] = "writing"
       /\ ~broken
       /\ requests' = Append(requests, [token |-> token[c], event |-> c \in Events])
       /\ writeMtx' = Unlock(writeMtx)
       /\ Places(c, IF c \in Events THEN "done" ELSE "written", Chosen(writeMtx), "wakeWrite")
       /\ UNCHANGED <<readMtx, nextCommandToken, token, handling, responses, got, broken>>
    \/ /\ pc[c] = "written"
       /\ readMtx' = Lock(readMtx, c)
       /\ Places(c, IF IsFree(readMtx) THEN "reading" ELSE "waitRead", {}, "")
       /\ UNCHANGED <<writeMtx, nextCommandToken, token, requests, handling, responses, got, broken>>

\* The packet is written: WritePacket releases the write mutex, and in the same
\* turn a request asks for the read mutex.
Written(c) ==
    /\ pc[c] = "writing"
    /\ ~broken
    /\ requests' = Append(requests, [token |-> token[c], event |-> c \in Events])
    /\ writeMtx' = Unlock(writeMtx)
    /\ IF c \in Events
       THEN /\ Places(c, "done", Chosen(writeMtx), "wakeWrite")
            /\ UNCHANGED readMtx
       ELSE /\ Places(c, IF IsFree(readMtx) THEN "reading" ELSE "waitRead",
                      Chosen(writeMtx), "wakeWrite")
            /\ readMtx' = Lock(readMtx, c)
    /\ UNCHANGED <<nextCommandToken, token, handling, responses, got, broken>>

\* Write_ throws; the lock guard releases the mutex.
WriteFails(c) ==
    /\ pc[c] = "writing"
    /\ broken
    /\ writeMtx' = Unlock(writeMtx)
    /\ Places(c, "failed", Chosen(writeMtx), "wakeWrite")
    /\ UNCHANGED <<readMtx, nextCommandToken, token, requests, handling, responses, got, broken>>

ResumeRead(c) ==
    /\ pc[c] = "wakeRead"
    /\ readMtx' = Resumed(readMtx)
    /\ Places(c, "reading", {}, "")
    /\ UNCHANGED <<writeMtx, nextCommandToken, token, requests, handling, responses, got, broken>>

\* A packet is there: its header is read, the read mutex released and, in the
\* same turn, its payload consumed.
ReadPacket(c) ==
    /\ pc[c] = "reading"
    /\ responses # <<>>
    /\ got' = [got EXCEPT ![c] = Head(responses).token]
    /\ responses' = Tail(responses)
    /\ readMtx' = Unlock(readMtx)
    /\ Places(c, IF Head(responses).success THEN "done" ELSE "failed", Chosen(readMtx), "wakeRead")
    /\ UNCHANGED <<writeMtx, nextCommandToken, token, requests, handling, broken>>

ReadFails(c) ==
    /\ pc[c] = "reading"
    /\ broken /\ responses = <<>>
    /\ readMtx' = Unlock(readMtx)
    /\ Places(c, "failed", Chosen(readMtx), "wakeRead")
    /\ UNCHANGED <<writeMtx, nextCommandToken, token, requests, handling, responses, got, broken>>

Coroutine(c) == \/ ResumeWrite(c) \/ Written(c) \/ WriteFails(c)
                \/ ResumeRead(c) \/ ReadPacket(c) \/ ReadFails(c)

----
\* The server's session coroutine: SyncHandleRequest, again and again.  A
\* client sends only actions that its service has registered, so that Find succeeds.

ReadRequest ==
    /\ ~broken
    /\ handling = <<>>
    /\ requests # <<>>
    /\ handling' = <<Head(requests)>>
    /\ requests' = Tail(requests)
    /\ UNCHANGED <<writeMtx, readMtx, pc, nextCommandToken, token, responses, got, broken>>

\* Execute: a request is answered with a copy of its header, its failure too; an
\* event is not answered, and its failure goes no further.
Execute ==
    /\ ~broken
    /\ handling # <<>>
    /\ \/ handling[1].event /\ UNCHANGED responses
       \/ /\ ~handling[1].event
          /\ \E success \in BOOLEAN :
               responses' = Append(responses, [token |-> handling[1].token, success |-> success])
    /\ handling' = <<>>
    /\ UNCHANGED <<writeMtx, readMtx, pc, nextCommandToken, token, requests, got, broken>>

\* The session ends: what the server has not read or executed is lost, and what
\* it sent before can still be read or is discarded with the pipe.
Disconnect ==
    /\ ~broken
    /\ broken' = TRUE
    /\ responses' \in {responses, <<>>}
    /\ UNCHANGED <<writeMtx, readMtx, pc, nextCommandToken, token, requests, handling, got>>

Server == ReadRequest \/ Execute

Next == \/ \E c \in Calls : Dispatch(c) \/ Coroutine(c)
        \/ Server
        \/ Disconnect

Spec == Init /\ [][Next]_vars

\* Both io_context threads keep running their handlers.
Fairness == WF_vars(Server) /\ \A c \in Calls : WF_vars(Coroutine(c))

FairSpec == Spec /\ Fairness

----
At(places) == {c \in Calls : pc[c] \in places}
Ended == {"done", "failed"}

\* The variables keep their types; the counters count who
\* owns the mutex or waits for it.
TypeOK ==
    /\ pc \in [Calls -> {"new", "waitWrite", "wakeWrite", "writing", "waitRead",
                         "wakeRead", "reading", "done", "failed"}]
    /\ writeMtx.counter = Cardinality(At({"waitWrite", "wakeWrite", "writing"}))
    /\ readMtx.counter = Cardinality(At({"waitRead", "wakeRead", "reading"}))
    /\ writeMtx.waiters \in Seq(Calls) /\ readMtx.waiters \in Seq(Calls)
    /\ writeMtx.holdoff \in BOOLEAN /\ readMtx.holdoff \in BOOLEAN
    /\ nextCommandToken \in Nat \ {0}
    /\ token \in [Calls -> Nat] /\ got \in [Calls -> Nat]
    /\ broken \in BOOLEAN

\* "prevent other coros from causing an overlapped operation fault": at most one
\* call has a write under way on the pipe and at most one a read.
OneAtATime == /\ \A c, d \in At({"writing"}) : c = d
              /\ \A c, d \in At({"reading"}) : c = d

\* Nothing but the order of packets relates a response to its request, and still
\* every request that was answered got the response to itself.
OwnResponse == \A c \in Calls : got[c] # NoToken => got[c] = token[c]

\* The owner of a mutex, and who waits for it, in the order they asked.
QueueOf(owner, waiters) ==
    IF owner = {} THEN waiters ELSE <<CHOOSE c \in owner : TRUE>> \o waiters
WriteQueue == QueueOf(At({"writing", "wakeWrite"}), writeMtx.waiters)
ReadQueue == QueueOf(At({"reading", "wakeRead"}), readMtx.waiters)

\* Each mutex implements a lock that is handed on in the order it is asked for.
WriteLock == INSTANCE FifoLock WITH Coroutines <- Calls, queue <- WriteQueue
ReadLock == INSTANCE FifoLock WITH Coroutines <- Calls, queue <- ReadQueue
LocksAreFifo == WriteLock!Spec /\ ReadLock!Spec

\* Every call ends, with a response or an error, also when the pipe breaks.
CallsEnd == \A c \in Calls : pc[c] # "new" ~> pc[c] \in Ended
====
