---- MODULE ActionPipeProofs ----
(***************************************************************************)
(* Proofs about ActionPipe, for any set of calls: at most one read and one *)
(* write are under way, the mutexes are first-come first-served locks, and *)
(* a call is given the response to itself.                                 *)
(*                                                                         *)
(* The invariant has a part for each mutex (who waits for it, who was      *)
(* chosen and who owns it agree with its count, queue and holdoff), a part *)
(* for the order of command tokens along the pipe, and one that relates    *)
(* the responses under way to the calls that are to read them.             *)
(***************************************************************************)
EXTENDS ActionPipe, FiniteSetTheorems, SequenceTheorems, TLAPS

Mutexes == [counter : Nat, waiters : Seq(Calls), holdoff : BOOLEAN]

\* What relates a mutex to the calls that wait for it, the one that an Unlock
\* chose and the one that owns it.
MutexOK(m, waiting, chosen, owner) ==
    /\ m \in Mutexes
    /\ \A c \in Calls : c \in waiting <=> \E i \in 1 .. Len(m.waiters) : m.waiters[i] = c
    /\ \A i, j \in 1 .. Len(m.waiters) : m.waiters[i] = m.waiters[j] => i = j
    /\ \A c, d \in chosen \cup owner : c = d
    /\ chosen \cap owner = {}
    /\ waiting \cap (chosen \cup owner) = {}
    /\ chosen \cup owner = {} => m.waiters = <<>>
    /\ m.holdoff <=> chosen # {}
    /\ IsFiniteSet(waiting \cup chosen \cup owner)
    /\ m.counter = Cardinality(waiting \cup chosen \cup owner)

\* The queue of a mutex is in the order of its calls' tokens tok.
QueueInOrder(m, first, tok) ==
    /\ \A c \in first, i \in 1 .. Len(m.waiters) : tok[c] < tok[m.waiters[i]]
    /\ \A i, j \in 1 .. Len(m.waiters) : i < j => tok[m.waiters[i]] < tok[m.waiters[j]]

Writers == At({"waitWrite", "wakeWrite", "writing"})
Readers == At({"waitRead", "wakeRead", "reading"})

Requests == [token : Nat, event : BOOLEAN]
Responses == [token : Nat, success : BOOLEAN]

Types ==
    /\ pc \in [Calls -> {"new", "waitWrite", "wakeWrite", "writing", "waitRead",
                         "wakeRead", "reading", "done", "failed"}]
    /\ nextCommandToken \in Nat \ {0}
    /\ token \in [Calls -> Nat]
    /\ got \in [Calls -> Nat]
    /\ requests \in Seq(Requests)
    /\ handling \in Seq(Requests)
    /\ Len(handling) <= 1
    /\ responses \in Seq(Responses)
    /\ broken \in BOOLEAN

MutexInv ==
    /\ MutexOK(writeMtx, At({"waitWrite"}), At({"wakeWrite"}), At({"writing"}))
    /\ MutexOK(readMtx, At({"waitRead"}), At({"wakeRead"}), At({"reading"}))

\* A call has no token before it starts, and then one of its own.
TokenInv ==
    /\ \A c \in Calls : pc[c] = "new" => token[c] = NoToken /\ got[c] = NoToken
    /\ \A c \in Calls : token[c] < nextCommandToken
    /\ \A c, d \in Calls : token[c] = token[d] /\ token[c] # NoToken => c = d
    /\ \A c \in Writers \cup Readers : token[c] # NoToken

\* Tokens grow from the responses back to the packet being executed, the
\* requests under way, the calls that have yet to write and the next one.
PacketOrder ==
    /\ \A i \in 1 .. Len(requests) : requests[i].token < nextCommandToken
    /\ \A i \in 1 .. Len(handling) : handling[i].token < nextCommandToken
    /\ \A i \in 1 .. Len(responses) : responses[i].token < nextCommandToken
    /\ \A i, j \in 1 .. Len(requests) : i < j => requests[i].token < requests[j].token
    /\ \A i, j \in 1 .. Len(responses) : i < j => responses[i].token < responses[j].token
    /\ \A i \in 1 .. Len(handling), j \in 1 .. Len(requests) :
         handling[i].token < requests[j].token
    /\ \A i \in 1 .. Len(responses), j \in 1 .. Len(handling) :
         responses[i].token < handling[j].token
    /\ \A i \in 1 .. Len(responses), j \in 1 .. Len(requests) :
         responses[i].token < requests[j].token
    /\ \A c \in Writers :
         /\ \A i \in 1 .. Len(requests) : requests[i].token < token[c]
         /\ \A i \in 1 .. Len(handling) : handling[i].token < token[c]
         /\ \A i \in 1 .. Len(responses) : responses[i].token < token[c]

QueueOrder ==
    /\ QueueInOrder(writeMtx, At({"wakeWrite", "writing"}), token)
    /\ QueueInOrder(readMtx, At({"wakeRead", "reading"}), token)
    /\ \A c \in Readers, d \in Writers : token[c] < token[d]

\* The responses under way are those of the readers with the smallest tokens.
ResponseInv ==
    \A i \in 1 .. Len(responses) :
        /\ \E c \in Readers : token[c] = responses[i].token
        /\ \A c \in Readers : token[c] < responses[i].token =>
             \E j \in 1 .. Len(responses) : responses[j].token = token[c]

\* While the pipe is whole, every call that is to read has its packet on the
\* way, and the packets that are no events are those of calls that are to read.
PendingInv ==
    ~broken =>
        /\ \A c \in Readers :
             \/ \E i \in 1 .. Len(requests) : requests[i].token = token[c]
             \/ \E i \in 1 .. Len(handling) : handling[i].token = token[c]
             \/ \E i \in 1 .. Len(responses) : responses[i].token = token[c]
        /\ \A i \in 1 .. Len(requests) :
             requests[i].event <=> \A c \in Readers : token[c] # requests[i].token
        /\ \A i \in 1 .. Len(handling) :
             handling[i].event <=> \A c \in Readers : token[c] # handling[i].token

PipeInv == /\ Types /\ MutexInv /\ TokenInv /\ PacketOrder /\ QueueOrder
           /\ ResponseInv /\ PendingInv /\ OwnResponse

OrderInv == /\ TokenInv /\ PacketOrder /\ QueueOrder
            /\ ResponseInv /\ PendingInv /\ OwnResponse

----
\* The operations of a mutex.

\* A mutex is free when no call owns it or was chosen to.
LEMMA FreeWithoutOwner ==
    ASSUME NEW m, NEW waiting \in SUBSET Calls, NEW chosen \in SUBSET Calls,
           NEW owner \in SUBSET Calls, MutexOK(m, waiting, chosen, owner)
    PROVE  /\ IsFree(m) <=> chosen \cup owner = {}
           /\ m.waiters = <<>> <=> waiting = {}
           /\ m.waiters # <<>> => /\ Head(m.waiters) = m.waiters[1]
                                  /\ Head(m.waiters) \in waiting
<1>1. Cardinality(waiting \cup chosen \cup owner) = 0 <=> waiting \cup chosen \cup owner = {}
  BY FS_EmptySet DEF MutexOK
<1>2. m.waiters \in Seq(Calls) /\ m.counter \in Nat
  BY DEF MutexOK, Mutexes
<1>3. m.waiters = <<>> <=> waiting = {}
  <2>1. CASE m.waiters = <<>>
    BY <2>1 DEF MutexOK
  <2>2. CASE m.waiters # <<>>
    <3>1. 1 \in 1 .. Len(m.waiters) /\ m.waiters[1] \in Calls
      BY <1>2, <2>2
    <3>2. QED
      BY <2>2, <3>1 DEF MutexOK
  <2>3. QED
    BY <2>1, <2>2
<1>4. ASSUME m.waiters # <<>>
      PROVE  Head(m.waiters) = m.waiters[1] /\ Head(m.waiters) \in waiting
  <2>1. Head(m.waiters) = m.waiters[1] /\ 1 \in 1 .. Len(m.waiters) /\ m.waiters[1] \in Calls
    BY <1>2, <1>4
  <2>2. QED
    BY <2>1 DEF MutexOK
<1>5. IsFree(m) <=> chosen \cup owner = {}
  BY <1>1, <1>3 DEF MutexOK, IsFree
<1>6. QED
  BY <1>3, <1>4, <1>5

\* The fields of a mutex after Lock.
LEMMA LockFields ==
    ASSUME NEW m \in Mutexes, NEW c \in Calls
    PROVE  /\ Lock(m, c) \in Mutexes
           /\ Lock(m, c).counter = m.counter + 1
           /\ Lock(m, c).waiters = IF IsFree(m) THEN m.waiters ELSE Append(m.waiters, c)
           /\ Lock(m, c).holdoff = m.holdoff
<1> DEFINE w == IF IsFree(m) THEN m.waiters ELSE Append(m.waiters, c)
           n == m.counter + 1
<1>1. w \in Seq(Calls) /\ n \in Nat
  BY DEF Mutexes
<1>2. Lock(m, c) = [m EXCEPT !.counter = n, !.waiters = w]
  BY DEF Lock
<1> HIDE DEF w, n
<1>3. Lock(m, c).counter = n /\ Lock(m, c).waiters = w /\ Lock(m, c) \in Mutexes
  BY <1>1, <1>2 DEF Mutexes
<1>4. Lock(m, c).holdoff = m.holdoff
  BY <1>1, <1>2 DEF Mutexes
<1>5. QED
  BY <1>3, <1>4 DEF w, n

\* Lock makes the caller the owner of a free mutex and the last waiter of another.
LEMMA LockKeeps ==
    ASSUME NEW m, NEW waiting \in SUBSET Calls, NEW chosen \in SUBSET Calls,
           NEW owner \in SUBSET Calls, MutexOK(m, waiting, chosen, owner),
           NEW c \in Calls, c \notin waiting \cup chosen \cup owner
    PROVE  IF IsFree(m) THEN MutexOK(Lock(m, c), waiting, chosen, owner \cup {c})
                        ELSE MutexOK(Lock(m, c), waiting \cup {c}, chosen, owner)
<1> DEFINE all == waiting \cup chosen \cup owner
<1>1. /\ IsFiniteSet(all \cup {c})
      /\ Cardinality(all \cup {c}) = m.counter + 1
  <2>1. IsFiniteSet(all) /\ m.counter = Cardinality(all) /\ c \notin all
    BY DEF MutexOK
  <2> HIDE DEF all
  <2>2. QED
    BY <2>1, FS_AddElement
<1>2. IsFree(m) <=> chosen \cup owner = {}
  BY FreeWithoutOwner
<1>3. m \in Mutexes /\ m.waiters \in Seq(Calls) /\ m.counter \in Nat
  BY DEF MutexOK, Mutexes
<1>4. CASE IsFree(m)
  <2>1. /\ Lock(m, c) \in Mutexes /\ Lock(m, c).counter = m.counter + 1
        /\ Lock(m, c).waiters = m.waiters /\ Lock(m, c).holdoff = m.holdoff
    BY <1>3, <1>4, LockFields
  <2>2. all \cup {c} = waiting \cup chosen \cup (owner \cup {c})
    OBVIOUS
  <2>3. /\ IsFiniteSet(waiting \cup chosen \cup (owner \cup {c}))
        /\ Lock(m, c).counter = Cardinality(waiting \cup chosen \cup (owner \cup {c}))
    BY <1>1, <2>1, <2>2
  <2>4. Lock(m, c).holdoff <=> chosen # {}
    BY <2>1 DEF MutexOK
  <2>5. chosen = {} /\ owner = {} /\ m.waiters = <<>>
    BY <1>2, <1>4 DEF MutexOK
  <2>6. QED
    BY <1>4, <2>1, <2>3, <2>4, <2>5 DEF MutexOK
<1>5. CASE ~IsFree(m)
  <2> DEFINE w == Append(m.waiters, c)
  <2>1. /\ w \in Seq(Calls) /\ Len(w) = Len(m.waiters) + 1 /\ Len(m.waiters) \in Nat
        /\ \A i \in 1 .. Len(m.waiters) : w[i] = m.waiters[i]
        /\ w[Len(m.waiters) + 1] = c
    BY <1>3
  <2>2. /\ Lock(m, c) \in Mutexes /\ Lock(m, c).counter = m.counter + 1
        /\ Lock(m, c).waiters = w /\ Lock(m, c).holdoff = m.holdoff
    BY <1>3, <1>5, LockFields
  <2>3. all \cup {c} = (waiting \cup {c}) \cup chosen \cup owner
    OBVIOUS
  <2>4. \A d \in Calls : d \in waiting \cup {c} <=> \E i \in 1 .. Len(w) : w[i] = d
    BY <2>1 DEF MutexOK
  <2>5. \A i, j \in 1 .. Len(w) : w[i] = w[j] => i = j
    BY <2>1 DEF MutexOK
  <2>6. /\ IsFiniteSet((waiting \cup {c}) \cup chosen \cup owner)
        /\ Lock(m, c).counter = Cardinality((waiting \cup {c}) \cup chosen \cup owner)
    BY <1>1, <2>2, <2>3
  <2>7. Lock(m, c).holdoff <=> chosen # {}
    BY <2>2 DEF MutexOK
  <2>8. chosen \cup owner # {}
    BY <1>2, <1>5
  <2> HIDE DEF w
  <2>9. QED
    BY <1>5, <2>2, <2>4, <2>5, <2>6, <2>7, <2>8 DEF MutexOK
<1>6. QED
  BY <1>4, <1>5

\* Unlock by the owner chooses the first waiter.
LEMMA UnlockChooses ==
    ASSUME NEW m, NEW waiting \in SUBSET Calls, NEW chosen \in SUBSET Calls,
           NEW owner \in SUBSET Calls, MutexOK(m, waiting, chosen, owner),
           NEW c \in owner
    PROVE  /\ owner = {c} /\ chosen = {} /\ ~Ignored(m)
           /\ m.waiters = <<>> => Chosen(m) = {}
           /\ m.waiters # <<>> => Chosen(m) = {m.waiters[1]}
           /\ \A d \in Chosen(m) : d \in waiting
<1>1. owner = {c} /\ chosen = {}
  BY DEF MutexOK
<1>2. ~Ignored(m)
  <2>1. ~IsFree(m)
    BY <1>1, FreeWithoutOwner
  <2>2. ~m.holdoff
    BY <1>1 DEF MutexOK
  <2>3. QED
    BY <2>1, <2>2 DEF Ignored
<1>3. m.waiters = <<>> => Chosen(m) = {}
  BY DEF Chosen
<1>4. m.waiters # <<>> => Chosen(m) = {m.waiters[1]} /\ m.waiters[1] \in waiting
  BY <1>2, FreeWithoutOwner DEF Chosen
<1>5. QED
  BY <1>1, <1>2, <1>3, <1>4

\* Then the other waiters remain.
LEMMA UnlockKeeps ==
    ASSUME NEW m, NEW waiting \in SUBSET Calls, NEW chosen \in SUBSET Calls,
           NEW owner \in SUBSET Calls, MutexOK(m, waiting, chosen, owner),
           NEW c \in owner, NEW rest, rest = waiting \ Chosen(m)
    PROVE  MutexOK(Unlock(m), rest, Chosen(m), {})
<1> DEFINE all == waiting \cup chosen \cup owner
<1>1. owner = {c} /\ chosen = {}
  BY UnlockChooses
<1>2. ~Ignored(m)
  BY UnlockChooses
<1>3. m \in Mutexes /\ m.waiters \in Seq(Calls) /\ m.counter \in Nat /\ m.holdoff = FALSE
  BY <1>1 DEF MutexOK, Mutexes
<1>4. /\ IsFiniteSet(all \ {c})
      /\ Cardinality(all \ {c}) = m.counter - 1
      /\ m.counter - 1 \in Nat
  <2>0. IsFiniteSet(all) /\ m.counter = Cardinality(all) /\ c \in all
    BY DEF MutexOK
  <2> HIDE DEF all
  <2>1. IsFiniteSet(all \ {c}) /\ Cardinality(all \ {c}) = m.counter - 1
    BY <2>0, FS_RemoveElement
  <2>2. Cardinality(all \ {c}) \in Nat
    BY <2>1, FS_CardinalityType
  <2>3. QED
    BY <2>1, <2>2
<1>5. all \ {c} = waiting
  BY <1>1 DEF MutexOK
<1>6. CASE m.waiters = <<>>
  <2>1. /\ Unlock(m) \in Mutexes /\ Unlock(m).counter = m.counter - 1
        /\ Unlock(m).waiters = m.waiters /\ Unlock(m).holdoff = FALSE
    BY <1>2, <1>3, <1>4, <1>6 DEF Unlock, Mutexes
  <2>2. Chosen(m) = {} /\ waiting = {}
    BY <1>6, FreeWithoutOwner DEF Chosen
  <2>3. MutexOK(Unlock(m), {}, {}, {})
    <3>1. {} = {} \cup {} \cup {}
      OBVIOUS
    <3>2. IsFiniteSet({}) /\ Unlock(m).counter = Cardinality({})
      BY <1>4, <1>5, <2>1, <2>2
    <3>3. QED
      BY <1>6, <2>1, <3>1, <3>2 DEF MutexOK
  <2>4. QED
    BY <2>2, <2>3
<1>7. CASE m.waiters # <<>>
  <2> DEFINE h == m.waiters[1]
             w == Tail(m.waiters)
  <2>1. Chosen(m) = {h} /\ h \in waiting /\ h \in Calls
    BY <1>2, <1>7, FreeWithoutOwner DEF Chosen
  <2>2. /\ w \in Seq(Calls) /\ Len(m.waiters) \in Nat /\ Len(w) = Len(m.waiters) - 1
        /\ \A i \in 1 .. Len(w) : w[i] = m.waiters[i + 1]
    BY <1>3, <1>7
  <2>3. /\ Unlock(m) \in Mutexes /\ Unlock(m).counter = m.counter - 1
        /\ Unlock(m).waiters = w /\ Unlock(m).holdoff = TRUE
    BY <1>2, <1>4, <1>7, <2>2 DEF Unlock, Mutexes
  <2>4. \A d \in Calls : d \in waiting \ {h} <=> \E i \in 1 .. Len(w) : w[i] = d
    <3>1. ASSUME NEW d \in Calls, d \in waiting, d # h
          PROVE  \E i \in 1 .. Len(w) : w[i] = d
      <4>1. PICK i \in 1 .. Len(m.waiters) : m.waiters[i] = d
        BY <3>1 DEF MutexOK
      <4>2. i - 1 \in 1 .. Len(w) /\ w[i - 1] = d
        BY <2>3, <3>1, <4>1
      <4>3. QED
        BY <4>2
    <3>2. ASSUME NEW i \in 1 .. Len(w)
          PROVE  w[i] \in waiting /\ w[i] # h
      <4>1. i + 1 \in 1 .. Len(m.waiters) /\ 1 \in 1 .. Len(m.waiters) /\ w[i] = m.waiters[i + 1]
        BY <2>3
      <4>2. m.waiters[i + 1] \in Calls
        BY <1>3, <4>1
      <4>3. QED
        BY <4>1, <4>2 DEF MutexOK
    <3>3. QED
      BY <3>1, <3>2
  <2>5. \A i, j \in 1 .. Len(w) : w[i] = w[j] => i = j
    <3>1. \A i \in 1 .. Len(w) : i + 1 \in 1 .. Len(m.waiters)
      BY <2>3
    <3>2. QED
      BY <2>3, <3>1 DEF MutexOK
  <2>6. waiting = (waiting \ {h}) \cup {h} \cup {}
    BY <2>1
  <2>7. MutexOK(Unlock(m), waiting \ {h}, {h}, {})
    <3>1. /\ IsFiniteSet((waiting \ {h}) \cup {h} \cup {})
          /\ Unlock(m).counter = Cardinality((waiting \ {h}) \cup {h} \cup {})
      BY <1>4, <1>5, <2>3, <2>6
    <3>2. Unlock(m).holdoff <=> {h} # {}
      BY <2>3
    <3> HIDE DEF w, h
    <3>3. QED
      BY <2>3, <2>4, <2>5, <3>1, <3>2 DEF MutexOK
  <2>8. QED
    BY <2>1, <2>7
<1>8. QED
  BY <1>6, <1>7

\* The chosen waiter resumes as the owner.
LEMMA ResumedKeeps ==
    ASSUME NEW m, NEW waiting \in SUBSET Calls, NEW chosen \in SUBSET Calls,
           NEW owner \in SUBSET Calls, MutexOK(m, waiting, chosen, owner),
           NEW c \in chosen
    PROVE  /\ chosen = {c} /\ owner = {}
           /\ MutexOK(Resumed(m), waiting, {}, {c})
<1>1. chosen = {c} /\ owner = {}
  BY DEF MutexOK
<1>2. /\ Resumed(m) \in Mutexes /\ Resumed(m).counter = m.counter
      /\ Resumed(m).waiters = m.waiters /\ Resumed(m).holdoff = FALSE
  <2>1. m \in Mutexes /\ m.counter \in Nat /\ m.waiters \in Seq(Calls)
    BY DEF MutexOK, Mutexes
  <2>2. QED
    BY <2>1 DEF Resumed, Mutexes
<1>3. waiting \cup chosen \cup owner = waiting \cup {} \cup {c}
  BY <1>1
<1>4. /\ Resumed(m).holdoff <=> {} # {}
      /\ IsFiniteSet(waiting \cup {} \cup {c})
      /\ Resumed(m).counter = Cardinality(waiting \cup {} \cup {c})
  BY <1>1, <1>2, <1>3 DEF MutexOK
<1>5. /\ \A d \in Calls : d \in waiting <=> \E i \in 1 .. Len(m.waiters) : m.waiters[i] = d
      /\ \A i, j \in 1 .. Len(m.waiters) : m.waiters[i] = m.waiters[j] => i = j
      /\ waiting \cap {c} = {}
  BY <1>1 DEF MutexOK
<1>6. QED
  BY <1>2, <1>4, <1>5 DEF MutexOK

----
\* The mutexes of the pipe, one step at a time.

\* A step of a call that leaves a mutex alone.
LEMMA SameMutex ==
    ASSUME NEW m, NEW w1, NEW k1, NEW r1, NEW w2, NEW k2, NEW r2,
           MutexOK(m, w1, k1, r1), w1 = w2, k1 = k2, r1 = r2
    PROVE  MutexOK(m, w2, k2, r2)
  OBVIOUS

LEMMA MutexInit == Init => MutexInv
<1> SUFFICES ASSUME Init PROVE MutexInv
  OBVIOUS
<1>1. \A p : p # "new" => At({p}) = {}
  BY DEF Init, At
<1>2. {} \cup {} \cup {} = {} /\ IsFiniteSet({}) /\ Cardinality({}) = 0
  BY FS_EmptySet
<1>3. MutexOK(Free, {}, {}, {})
  BY <1>2 DEF MutexOK, Mutexes, Free
<1>4. QED
  BY <1>1, <1>3, SameMutex DEF MutexInv, Init

LEMMA MutexNext == Types /\ MutexInv /\ [Next]_vars => MutexInv'
<1> SUFFICES ASSUME Types, MutexInv, [Next]_vars PROVE MutexInv'
  OBVIOUS
<1>w. MutexOK(writeMtx, At({"waitWrite"}), At({"wakeWrite"}), At({"writing"}))
  BY DEF MutexInv
<1>r. MutexOK(readMtx, At({"waitRead"}), At({"wakeRead"}), At({"reading"}))
  BY DEF MutexInv
<1>a. /\ At({"waitWrite"}) \in SUBSET Calls /\ At({"waitRead"}) \in SUBSET Calls
      /\ At({"wakeWrite"}) \in SUBSET Calls /\ At({"wakeRead"}) \in SUBSET Calls
      /\ At({"writing"}) \in SUBSET Calls /\ At({"reading"}) \in SUBSET Calls
  BY DEF At
<1>1. ASSUME NEW c \in Calls, Dispatch(c)
      PROVE  MutexInv'
  <2>1. c \notin At({"waitWrite"}) \cup At({"wakeWrite"}) \cup At({"writing"})
    BY <1>1 DEF Dispatch, At
  <2>2. /\ At({"waitRead"})' = At({"waitRead"})
        /\ At({"wakeRead"})' = At({"wakeRead"})
        /\ At({"reading"})' = At({"reading"})
        /\ At({"wakeWrite"})' = At({"wakeWrite"})
    BY <1>1 DEF Dispatch, Places, At, Types
  <2>3. CASE IsFree(writeMtx)
    <3>1. /\ At({"waitWrite"})' = At({"waitWrite"})
          /\ At({"writing"})' = At({"writing"}) \cup {c}
      BY <1>1, <2>3 DEF Dispatch, Places, At, Types
    <3>2. MutexOK(Lock(writeMtx, c), At({"waitWrite"}), At({"wakeWrite"}), At({"writing"}) \cup {c})
      BY <1>a, <1>w, <2>1, <2>3, LockKeeps
    <3>3. QED
      BY <1>1, <1>r, <2>2, <3>1, <3>2 DEF MutexInv, Dispatch
  <2>4. CASE ~IsFree(writeMtx)
    <3>1. /\ At({"waitWrite"})' = At({"waitWrite"}) \cup {c}
          /\ At({"writing"})' = At({"writing"})
      BY <1>1, <2>4 DEF Dispatch, Places, At, Types
    <3>2. MutexOK(Lock(writeMtx, c), At({"waitWrite"}) \cup {c}, At({"wakeWrite"}), At({"writing"}))
      BY <1>a, <1>w, <2>1, <2>4, LockKeeps
    <3>3. QED
      BY <1>1, <1>r, <2>2, <3>1, <3>2 DEF MutexInv, Dispatch
  <2>5. QED
    BY <2>3, <2>4
<1>2. ASSUME NEW c \in Calls, ResumeWrite(c)
      PROVE  MutexInv'
  <2>1. c \in At({"wakeWrite"})
    BY <1>2 DEF ResumeWrite, At
  <2>2. /\ At({"wakeWrite"}) = {c} /\ At({"writing"}) = {}
        /\ MutexOK(Resumed(writeMtx), At({"waitWrite"}), {}, {c})
    BY <1>a, <1>w, <2>1, ResumedKeeps
  <2>3. /\ At({"waitRead"})' = At({"waitRead"})
        /\ At({"wakeRead"})' = At({"wakeRead"})
        /\ At({"reading"})' = At({"reading"})
        /\ At({"waitWrite"})' = At({"waitWrite"})
    BY <1>2 DEF ResumeWrite, Places, At, Types
  <2>4. At({"wakeWrite"})' = {} /\ At({"writing"})' = {c}
    <3>1. /\ At({"wakeWrite"})' = At({"wakeWrite"}) \ {c}
          /\ At({"writing"})' = At({"writing"}) \cup {c}
      BY <1>2 DEF ResumeWrite, Places, At, Types
    <3>2. QED
      BY <2>2, <3>1
  <2>5. QED
    BY <1>2, <1>r, <2>2, <2>3, <2>4 DEF MutexInv, ResumeWrite
<1>3. ASSUME NEW c \in Calls, Written(c)
      PROVE  MutexInv'
  <2> DEFINE next == Chosen(writeMtx)
  <2>1. c \in At({"writing"}) /\ c \notin At({"waitWrite"})
    BY <1>3 DEF Written, At
  <2>2. /\ At({"writing"}) = {c} /\ At({"wakeWrite"}) = {}
        /\ \A d \in next : d \in At({"waitWrite"})
    <3>1. At({"writing"}) = {c} /\ At({"wakeWrite"}) = {}
      BY <1>w, <2>1 DEF MutexOK
    <3>2. \A d \in Chosen(writeMtx) : d \in At({"waitWrite"})
      BY <1>a, <1>w, <2>1, UnlockChooses
    <3>3. QED
      BY <3>1, <3>2
  <2>3. \A d \in next : d \in Calls /\ pc[d] = "waitWrite"
    BY <2>2 DEF At
  <2>p. /\ \A d \in Calls \ {c} : pc'[d] = IF d \in next THEN "wakeWrite" ELSE pc[d]
        /\ pc'[c] \in {"done", "reading", "waitRead"}
    BY <1>3 DEF Written, Places
  <2> HIDE DEF next
  <2>4. /\ At({"waitWrite"})' = At({"waitWrite"}) \ next
        /\ At({"wakeWrite"})' = At({"wakeWrite"}) \cup next
        /\ At({"writing"})' = At({"writing"}) \ {c}
        /\ At({"wakeRead"})' = At({"wakeRead"})
    BY <2>1, <2>3, <2>p DEF At
  <2>5. MutexOK(writeMtx, At({"waitWrite"}), At({"wakeWrite"}), At({"writing"}))'
    <3>1. At({"wakeWrite"})' = next /\ At({"writing"})' = {}
      BY <2>2, <2>4
    <3>2. MutexOK(Unlock(writeMtx), At({"waitWrite"})', next, {})
      BY <1>a, <1>w, <2>1, <2>4, UnlockKeeps DEF next
    <3>3. QED
      BY <1>3, <3>1, <3>2 DEF Written
  <2>6. CASE c \in Events
    <3>1. /\ At({"waitRead"})' = At({"waitRead"})
          /\ At({"reading"})' = At({"reading"})
      BY <1>3, <2>3, <2>6 DEF Written, Places, At, Types, next
    <3>2. QED
      BY <1>3, <1>r, <2>4, <2>5, <2>6, <3>1 DEF MutexInv, Written
  <2>7. CASE c \notin Events
    <3>1. c \notin At({"waitRead"}) \cup At({"wakeRead"}) \cup At({"reading"})
      BY <1>3 DEF Written, At
    <3>2. CASE IsFree(readMtx)
      <4>1. /\ At({"waitRead"})' = At({"waitRead"})
            /\ At({"reading"})' = At({"reading"}) \cup {c}
        BY <1>3, <2>3, <2>7, <3>2 DEF Written, Places, At, Types, next
      <4>2. MutexOK(Lock(readMtx, c), At({"waitRead"}), At({"wakeRead"}), At({"reading"}) \cup {c})
        BY <1>a, <1>r, <3>1, <3>2, LockKeeps
      <4>3. QED
        BY <1>3, <2>4, <2>5, <2>7, <4>1, <4>2 DEF MutexInv, Written
    <3>3. CASE ~IsFree(readMtx)
      <4>1. /\ At({"waitRead"})' = At({"waitRead"}) \cup {c}
            /\ At({"reading"})' = At({"reading"})
        BY <1>3, <2>3, <2>7, <3>3 DEF Written, Places, At, Types, next
      <4>2. MutexOK(Lock(readMtx, c), At({"waitRead"}) \cup {c}, At({"wakeRead"}), At({"reading"}))
        BY <1>a, <1>r, <3>1, <3>3, LockKeeps
      <4>3. QED
        BY <1>3, <2>4, <2>5, <2>7, <4>1, <4>2 DEF MutexInv, Written
    <3>4. QED
      BY <3>2, <3>3
  <2>8. QED
    BY <2>6, <2>7
<1>4. ASSUME NEW c \in Calls, WriteFails(c)
      PROVE  MutexInv'
  <2> DEFINE next == Chosen(writeMtx)
  <2>1. c \in At({"writing"}) /\ c \notin At({"waitWrite"})
    BY <1>4 DEF WriteFails, At
  <2>2. /\ At({"writing"}) = {c} /\ At({"wakeWrite"}) = {}
        /\ \A d \in next : d \in At({"waitWrite"})
    <3>1. At({"writing"}) = {c} /\ At({"wakeWrite"}) = {}
      BY <1>w, <2>1 DEF MutexOK
    <3>2. \A d \in Chosen(writeMtx) : d \in At({"waitWrite"})
      BY <1>a, <1>w, <2>1, UnlockChooses
    <3>3. QED
      BY <3>1, <3>2
  <2>3. \A d \in next : d \in Calls /\ pc[d] = "waitWrite"
    BY <2>2 DEF At
  <2>p. /\ \A d \in Calls \ {c} : pc'[d] = IF d \in next THEN "wakeWrite" ELSE pc[d]
        /\ pc'[c] = "failed"
    BY <1>4 DEF WriteFails, Places
  <2> HIDE DEF next
  <2>4. /\ At({"waitWrite"})' = At({"waitWrite"}) \ next
        /\ At({"wakeWrite"})' = At({"wakeWrite"}) \cup next
        /\ At({"writing"})' = At({"writing"}) \ {c}
        /\ At({"waitRead"})' = At({"waitRead"})
        /\ At({"wakeRead"})' = At({"wakeRead"})
        /\ At({"reading"})' = At({"reading"})
    BY <2>1, <2>3, <2>p DEF At
  <2>5. At({"wakeWrite"})' = next /\ At({"writing"})' = {}
    BY <2>2, <2>4
  <2>6. MutexOK(Unlock(writeMtx), At({"waitWrite"})', next, {})
    BY <1>a, <1>w, <2>1, <2>4, UnlockKeeps DEF next
  <2>7. QED
    BY <1>4, <1>r, <2>4, <2>5, <2>6 DEF MutexInv, WriteFails
<1>5. ASSUME NEW c \in Calls, ResumeRead(c)
      PROVE  MutexInv'
  <2>1. c \in At({"wakeRead"})
    BY <1>5 DEF ResumeRead, At
  <2>2. /\ At({"wakeRead"}) = {c} /\ At({"reading"}) = {}
        /\ MutexOK(Resumed(readMtx), At({"waitRead"}), {}, {c})
    BY <1>a, <1>r, <2>1, ResumedKeeps
  <2>3. /\ At({"waitWrite"})' = At({"waitWrite"})
        /\ At({"wakeWrite"})' = At({"wakeWrite"})
        /\ At({"writing"})' = At({"writing"})
        /\ At({"waitRead"})' = At({"waitRead"})
    BY <1>5 DEF ResumeRead, Places, At, Types
  <2>4. At({"wakeRead"})' = {} /\ At({"reading"})' = {c}
    <3>1. /\ At({"wakeRead"})' = At({"wakeRead"}) \ {c}
          /\ At({"reading"})' = At({"reading"}) \cup {c}
      BY <1>5 DEF ResumeRead, Places, At, Types
    <3>2. QED
      BY <2>2, <3>1
  <2>5. QED
    BY <1>5, <1>w, <2>2, <2>3, <2>4 DEF MutexInv, ResumeRead
<1>6. ASSUME NEW c \in Calls, ReadPacket(c) \/ ReadFails(c)
      PROVE  MutexInv'
  <2> DEFINE next == Chosen(readMtx)
  <2>1. c \in At({"reading"}) /\ c \notin At({"waitRead"})
    BY <1>6 DEF ReadPacket, ReadFails, At
  <2>2. /\ At({"reading"}) = {c} /\ At({"wakeRead"}) = {}
        /\ \A d \in next : d \in At({"waitRead"})
    BY <1>a, <1>r, <2>1, UnlockChooses
  <2>3. \A d \in next : d \in Calls /\ pc[d] = "waitRead"
    BY <2>2 DEF At
  <2>p. /\ \A d \in Calls \ {c} : pc'[d] = IF d \in next THEN "wakeRead" ELSE pc[d]
        /\ pc'[c] \in {"done", "failed"}
    BY <1>6 DEF ReadPacket, ReadFails, Places
  <2> HIDE DEF next
  <2>4. /\ At({"waitRead"})' = At({"waitRead"}) \ next
        /\ At({"wakeRead"})' = At({"wakeRead"}) \cup next
        /\ At({"reading"})' = At({"reading"}) \ {c}
        /\ At({"waitWrite"})' = At({"waitWrite"})
        /\ At({"wakeWrite"})' = At({"wakeWrite"})
        /\ At({"writing"})' = At({"writing"})
    BY <2>1, <2>3, <2>p DEF At
  <2>5. At({"wakeRead"})' = next /\ At({"reading"})' = {}
    BY <2>2, <2>4
  <2>6. MutexOK(Unlock(readMtx), At({"waitRead"})', next, {})
    BY <1>a, <1>r, <2>1, <2>4, UnlockKeeps DEF next
  <2>7. QED
    BY <1>6, <1>w, <2>4, <2>5, <2>6 DEF MutexInv, ReadPacket, ReadFails
<1>7. ASSUME UNCHANGED <<writeMtx, readMtx, pc>>
      PROVE  MutexInv'
  BY <1>7 DEF MutexInv, At
<1>8. QED
  BY <1>1, <1>2, <1>3, <1>4, <1>5, <1>6, <1>7
     DEF Next, Coroutine, Server, ReadRequest, Execute, Disconnect, vars

----
\* The order of tokens in a mutex's queue.

\* The queue of a mutex after Unlock.
LEMMA UnlockFields ==
    ASSUME NEW m \in Mutexes, ~Ignored(m)
    PROVE  /\ m.waiters = <<>> => Unlock(m).waiters = <<>>
           /\ m.waiters # <<>> => Unlock(m).waiters = Tail(m.waiters)
  BY DEF Unlock, Mutexes

\* A call with a token larger than all may join.
LEMMA LockInOrder ==
    ASSUME NEW m \in Mutexes, NEW c \in Calls, NEW first \in SUBSET Calls,
           NEW tok, QueueInOrder(m, first, tok),
           \A d \in first : tok[d] < tok[c],
           \A i \in 1 .. Len(m.waiters) : tok[m.waiters[i]] < tok[c],
           NEW first2, \A d \in first2 : d \in first \/ d = c,
           IsFree(m) => m.waiters = <<>>,
           ~IsFree(m) => \A d \in first2 : d \in first
    PROVE  QueueInOrder(Lock(m, c), first2, tok)
<1>1. m.waiters \in Seq(Calls) /\ Len(m.waiters) \in Nat
  BY DEF Mutexes
<1>2. CASE IsFree(m)
  <2>1. Lock(m, c).waiters = <<>>
    BY <1>2, LockFields
  <2>2. QED
    BY <2>1 DEF QueueInOrder
<1>3. CASE ~IsFree(m)
  <2> DEFINE w == Append(m.waiters, c)
  <2>1. Lock(m, c).waiters = w
    BY <1>3, LockFields
  <2>2. /\ Len(w) = Len(m.waiters) + 1
        /\ \A i \in 1 .. Len(m.waiters) : w[i] = m.waiters[i]
        /\ w[Len(m.waiters) + 1] = c
    BY <1>1
  <2> HIDE DEF w
  <2>3. \A d \in first2, i \in 1 .. Len(w) : tok[d] < tok[w[i]]
    BY <1>1, <1>3, <2>2 DEF QueueInOrder
  <2>4. \A i, j \in 1 .. Len(w) : i < j => tok[w[i]] < tok[w[j]]
    BY <1>1, <2>2, SMTT(30) DEF QueueInOrder
  <2>5. QED
    BY <2>1, <2>3, <2>4 DEF QueueInOrder
<1>4. QED
  BY <1>2, <1>3

\* The first waiter comes before the others.
LEMMA UnlockInOrder ==
    ASSUME NEW m \in Mutexes, ~Ignored(m), NEW first, NEW tok, QueueInOrder(m, first, tok),
           NEW first2, \A d \in first2 : m.waiters # <<>> /\ d = m.waiters[1]
    PROVE  QueueInOrder(Unlock(m), first2, tok)
<1>1. CASE m.waiters = <<>>
  <2>1. Unlock(m).waiters = <<>>
    BY <1>1, UnlockFields
  <2>2. QED
    BY <2>1 DEF QueueInOrder
<1>2. CASE m.waiters # <<>>
  <2> DEFINE w == Tail(m.waiters)
  <2>1. Unlock(m).waiters = w
    BY <1>2, UnlockFields
  <2>2. /\ Len(m.waiters) \in Nat /\ Len(w) = Len(m.waiters) - 1
        /\ \A i \in 1 .. Len(w) : w[i] = m.waiters[i + 1]
    BY <1>2 DEF Mutexes
  <2> HIDE DEF w
  <2>3. \A i \in 1 .. Len(w) : i + 1 \in 1 .. Len(m.waiters) /\ 1 < i + 1 /\ 1 \in 1 .. Len(m.waiters)
    BY <2>2
  <2>4. \A d \in first2, i \in 1 .. Len(w) : tok[d] < tok[w[i]]
    BY <2>2, <2>3 DEF QueueInOrder
  <2>5. \A i, j \in 1 .. Len(w) : i < j => tok[w[i]] < tok[w[j]]
    <3>1. SUFFICES ASSUME NEW i \in 1 .. Len(w), NEW j \in 1 .. Len(w), i < j
                   PROVE  tok[w[i]] < tok[w[j]]
      OBVIOUS
    <3>2. i + 1 < j + 1 /\ w[i] = m.waiters[i + 1] /\ w[j] = m.waiters[j + 1]
      BY <2>2, <3>1
    <3>3. QED
      BY <2>3, <3>2 DEF QueueInOrder
  <2>6. QED
    BY <2>1, <2>4, <2>5 DEF QueueInOrder
<1>3. QED
  BY <1>1, <1>2

----
\* The invariant, one step at a time.

LEMMA TypesNext == Types /\ [Next]_vars => Types'
<1> SUFFICES ASSUME Types, [Next]_vars PROVE Types'
  OBVIOUS
<1>1. ASSUME NEW c \in Calls, Dispatch(c) PROVE Types'
  BY <1>1 DEF Types, Dispatch, Places
<1>2. ASSUME NEW c \in Calls, ResumeWrite(c) PROVE Types'
  BY <1>2 DEF Types, ResumeWrite, Places
<1>3. ASSUME NEW c \in Calls, Written(c) PROVE Types'
  <2>1. [token |-> token[c], event |-> c \in Events] \in Requests
    BY DEF Types, Requests
  <2>2. requests' \in Seq(Requests)
    BY <1>3, <2>1, AppendProperties DEF Types, Written
  <2>3. pc' \in [Calls -> {"new", "waitWrite", "wakeWrite", "writing", "waitRead",
                           "wakeRead", "reading", "done", "failed"}]
    BY <1>3 DEF Types, Written, Places
  <2>4. QED
    BY <1>3, <2>2, <2>3 DEF Types, Written
<1>4. ASSUME NEW c \in Calls, WriteFails(c) PROVE Types'
  BY <1>4 DEF Types, WriteFails, Places
<1>5. ASSUME NEW c \in Calls, ResumeRead(c) PROVE Types'
  BY <1>5 DEF Types, ResumeRead, Places
<1>6. ASSUME NEW c \in Calls, ReadPacket(c) PROVE Types'
  <2>1. /\ Head(responses) \in Responses
        /\ Tail(responses) \in Seq(Responses)
    BY <1>6, HeadTailProperties DEF Types, ReadPacket
  <2>2. got' \in [Calls -> Nat] /\ responses' \in Seq(Responses)
    BY <1>6, <2>1 DEF Types, ReadPacket, Responses
  <2>3. pc' \in [Calls -> {"new", "waitWrite", "wakeWrite", "writing", "waitRead",
                           "wakeRead", "reading", "done", "failed"}]
    BY <1>6 DEF Types, ReadPacket, Places
  <2>4. QED
    BY <1>6, <2>2, <2>3 DEF Types, ReadPacket
<1>7. ASSUME NEW c \in Calls, ReadFails(c) PROVE Types'
  BY <1>7 DEF Types, ReadFails, Places
<1>8. ASSUME ReadRequest PROVE Types'
  <2>1. /\ Head(requests) \in Requests
        /\ Tail(requests) \in Seq(Requests)
    BY <1>8, HeadTailProperties DEF Types, ReadRequest
  <2>2. handling' \in Seq(Requests) /\ Len(handling') <= 1
    BY <1>8, <2>1 DEF ReadRequest
  <2>3. QED
    BY <1>8, <2>1, <2>2 DEF Types, ReadRequest
<1>9. ASSUME Execute PROVE Types'
  <2>1. handling[1].token \in Nat
    <3>1. /\ handling \in Seq(Requests)
          /\ handling # <<>>
      BY <1>9 DEF Types, Execute
    <3>2. 1 \in 1 .. Len(handling)
      BY <3>1, EmptySeq
    <3>4. handling[1] \in Requests
      BY <3>1, <3>2, ElementOfSeq
    <3>3. QED
      BY <3>4 DEF Requests
  <2>2. \A success \in BOOLEAN :
          Append(responses, [token |-> handling[1].token, success |-> success])
            \in Seq(Responses)
    BY <2>1 DEF Types, Responses
  <2>3. responses' \in Seq(Responses)
    BY <1>9, <2>2 DEF Types, Execute
  <2>4. QED
    BY <1>9, <2>3 DEF Types, Execute
<1>10. ASSUME Disconnect PROVE Types'
  <2>1. responses' \in Seq(Responses)
    <3>1. responses' = responses \/ responses' = <<>>
      BY <1>10, Zenon DEF Disconnect
    <3>2. responses \in Seq(Responses) /\ <<>> \in Seq(Responses)
      BY EmptySeq DEF Types
    <3>3. QED
      BY <3>1, <3>2
  <2>2. UNCHANGED <<pc, nextCommandToken, token, requests, handling, got>>
    BY <1>10 DEF Disconnect
  <2>3. broken' \in BOOLEAN
    BY <1>10 DEF Disconnect
  <2>4. QED
    BY <2>1, <2>2, <2>3 DEF Types
<1>11. CASE UNCHANGED vars
  BY <1>11 DEF Types, vars
<1>12. QED
  BY <1>1, <1>2, <1>3, <1>4, <1>5, <1>6, <1>7, <1>8, <1>9, <1>10, <1>11
     DEF Next, Coroutine, Server

\* The waiters of each mutex are the calls that wait for it.
LEMMA WaitersWait ==
    ASSUME MutexInv
    PROVE  /\ writeMtx \in Mutexes /\ readMtx \in Mutexes
           /\ \A i \in 1 .. Len(writeMtx.waiters) :
                writeMtx.waiters[i] \in Calls /\ pc[writeMtx.waiters[i]] = "waitWrite"
           /\ \A i \in 1 .. Len(readMtx.waiters) :
                readMtx.waiters[i] \in Calls /\ pc[readMtx.waiters[i]] = "waitRead"
           /\ \A c \in Calls : pc[c] = "waitWrite" =>
                \E i \in 1 .. Len(writeMtx.waiters) : writeMtx.waiters[i] = c
           /\ \A c \in Calls : pc[c] = "waitRead" =>
                \E i \in 1 .. Len(readMtx.waiters) : readMtx.waiters[i] = c
           /\ IsFree(writeMtx) => writeMtx.waiters = <<>>
           /\ IsFree(readMtx) => readMtx.waiters = <<>>
<1>a. /\ At({"waitWrite"}) \in SUBSET Calls /\ At({"waitRead"}) \in SUBSET Calls
      /\ At({"wakeWrite"}) \in SUBSET Calls /\ At({"wakeRead"}) \in SUBSET Calls
      /\ At({"writing"}) \in SUBSET Calls /\ At({"reading"}) \in SUBSET Calls
  BY DEF At
<1>w. MutexOK(writeMtx, At({"waitWrite"}), At({"wakeWrite"}), At({"writing"}))
  BY DEF MutexInv
<1>r. MutexOK(readMtx, At({"waitRead"}), At({"wakeRead"}), At({"reading"}))
  BY DEF MutexInv
<1>1. writeMtx \in Mutexes /\ readMtx \in Mutexes
  BY <1>w, <1>r DEF MutexOK
<1>2. /\ \A i \in 1 .. Len(writeMtx.waiters) : writeMtx.waiters[i] \in Calls
      /\ \A i \in 1 .. Len(readMtx.waiters) : readMtx.waiters[i] \in Calls
  BY <1>1, ElementOfSeq DEF Mutexes
<1>3. /\ \A i \in 1 .. Len(writeMtx.waiters) : pc[writeMtx.waiters[i]] = "waitWrite"
      /\ \A c \in Calls : pc[c] = "waitWrite" =>
           \E i \in 1 .. Len(writeMtx.waiters) : writeMtx.waiters[i] = c
  BY <1>2, <1>w DEF MutexOK, At
<1>4. /\ \A i \in 1 .. Len(readMtx.waiters) : pc[readMtx.waiters[i]] = "waitRead"
      /\ \A c \in Calls : pc[c] = "waitRead" =>
           \E i \in 1 .. Len(readMtx.waiters) : readMtx.waiters[i] = c
  BY <1>2, <1>r DEF MutexOK, At
<1>5. /\ IsFree(writeMtx) => writeMtx.waiters = <<>>
      /\ IsFree(readMtx) => readMtx.waiters = <<>>
  <2>1. IsFree(writeMtx) <=> At({"wakeWrite"}) \cup At({"writing"}) = {}
    BY <1>a, <1>w, FreeWithoutOwner
  <2>2. IsFree(readMtx) <=> At({"wakeRead"}) \cup At({"reading"}) = {}
    BY <1>a, <1>r, FreeWithoutOwner
  <2>3. QED
    BY <1>w, <1>r, <2>1, <2>2 DEF MutexOK
<1>6. QED
  BY <1>1, <1>2, <1>3, <1>4, <1>5

\* The packets on the pipe carry tokens.
LEMMA PacketTypes ==
    ASSUME Types
    PROVE  /\ \A i \in 1 .. Len(requests) : requests[i].token \in Nat /\ requests[i].event \in BOOLEAN
           /\ \A i \in 1 .. Len(handling) : handling[i].token \in Nat /\ handling[i].event \in BOOLEAN
           /\ \A i \in 1 .. Len(responses) : responses[i].token \in Nat
<1>1. /\ \A i \in 1 .. Len(requests) : requests[i] \in Requests
      /\ \A i \in 1 .. Len(handling) : handling[i] \in Requests
      /\ \A i \in 1 .. Len(responses) : responses[i] \in Responses
  BY ElementOfSeq DEF Types
<1>2. QED
  BY <1>1 DEF Requests, Responses

\* The new call has the largest token and joins the end of the queue.
LEMMA DispatchKeeps ==
    ASSUME Types, MutexInv, OrderInv, NEW c \in Calls, Dispatch(c)
    PROVE  OrderInv'
<1> DEFINE first == At({"wakeWrite", "writing"})
<1>1. /\ token \in [Calls -> Nat] /\ nextCommandToken \in Nat \ {0}
      /\ nextCommandToken' = nextCommandToken + 1
      /\ token' \in [Calls -> Nat]
      /\ token'[c] = nextCommandToken
      /\ \A d \in Calls : d # c => token'[d] = token[d]
  BY DEF Types, Dispatch
<1>2. /\ \A d \in Calls : d # c => pc'[d] = pc[d]
      /\ pc[c] = "new"
      /\ pc'[c] = IF IsFree(writeMtx) THEN "writing" ELSE "waitWrite"
  BY DEF Dispatch, Places
<1>3. /\ \A d : d \in Writers' <=> d \in Writers \/ d = c
      /\ \A d : d \in Readers' <=> d \in Readers
      /\ \A d : d \in Writers \cup Readers => d \in Calls /\ d # c
  BY <1>2 DEF Writers, Readers, At
<1>4. UNCHANGED <<readMtx, requests, handling, responses, got, broken>>
  BY DEF Dispatch
<1>5. TokenInv'
  BY <1>1, <1>2, <1>3, <1>4 DEF OrderInv, TokenInv, NoToken
<1>6. PacketOrder'
  <2>1. /\ \A d \in Writers' : d # c => d \in Writers /\ token'[d] = token[d]
        /\ \A d \in Writers' : d = c => token'[d] = nextCommandToken
    BY <1>1, <1>3
  <2>2. QED
    BY <1>1, <1>4, <2>1, PacketTypes DEF OrderInv, PacketOrder
<1>7. QueueOrder'
  <2>1. QueueInOrder(writeMtx, first, token')
    <3>1. \A d \in first : d \in Calls /\ token'[d] = token[d]
      BY <1>1, <1>2 DEF At
    <3>2. \A i \in 1 .. Len(writeMtx.waiters) :
            token'[writeMtx.waiters[i]] = token[writeMtx.waiters[i]]
      BY <1>1, <1>2, WaitersWait
    <3>3. QED
      BY <3>1, <3>2 DEF OrderInv, QueueOrder, QueueInOrder
  <2>2. QueueInOrder(writeMtx, At({"wakeWrite", "writing"}), token)'
    <3>1. /\ \A d \in first : token'[d] < token'[c]
          /\ \A i \in 1 .. Len(writeMtx.waiters) : token'[writeMtx.waiters[i]] < token'[c]
      BY <1>1, <1>2, WaitersWait DEF OrderInv, TokenInv, At
    <3>2. first \in SUBSET Calls
      BY DEF At
    <3>3. /\ \A d \in first' : d \in first \/ d = c
          /\ ~IsFree(writeMtx) => \A d \in first' : d \in first
      BY <1>2 DEF At
    <3>4. QueueInOrder(Lock(writeMtx, c), first', token')
      BY <2>1, <3>1, <3>2, <3>3, WaitersWait, LockInOrder
    <3>5. QED
      BY <3>4 DEF Dispatch
  <2>3. QueueInOrder(readMtx, At({"wakeRead", "reading"}), token)'
    <3>1. \A d \in At({"wakeRead", "reading"})' :
            d \in At({"wakeRead", "reading"}) /\ token'[d] = token[d]
      BY <1>1, <1>2 DEF At
    <3>2. \A i \in 1 .. Len(readMtx.waiters) :
            token'[readMtx.waiters[i]] = token[readMtx.waiters[i]]
      BY <1>1, <1>2, WaitersWait
    <3>3. QED
      BY <1>4, <3>1, <3>2 DEF OrderInv, QueueOrder, QueueInOrder
  <2>4. \A d \in Readers', e \in Writers' : token'[d] < token'[e]
    BY <1>1, <1>3 DEF OrderInv, QueueOrder, TokenInv
  <2>5. QED
    BY <2>2, <2>3, <2>4 DEF QueueOrder
<1>8. ResponseInv'
  BY <1>1, <1>3, <1>4 DEF OrderInv, ResponseInv
<1>9. PendingInv'
  BY <1>1, <1>3, <1>4 DEF OrderInv, PendingInv
<1>10. OwnResponse'
  BY <1>1, <1>2, <1>4 DEF OrderInv, OwnResponse, TokenInv
<1>11. QED
  BY <1>5, <1>6, <1>7, <1>8, <1>9, <1>10 DEF OrderInv

\* The owner of the write mutex releases it: the queue behind it stays in order.
LEMMA WriteUnlockKeeps ==
    ASSUME Types, MutexInv, OrderInv, NEW c \in Calls, pc[c] = "writing",
           writeMtx' = Unlock(writeMtx), token' = token,
           NEW place, place \notin {"waitWrite", "wakeWrite", "writing"},
           Places(c, place, Chosen(writeMtx), "wakeWrite")
    PROVE  /\ QueueInOrder(writeMtx, At({"wakeWrite", "writing"}), token)'
           /\ \A d : d \in Writers' <=> d \in Writers /\ d # c
           /\ \A d \in Writers : d # c => token[c] < token[d]
           /\ \A d \in Calls : d # c /\ pc[d] # "waitWrite" => pc'[d] = pc[d]
           /\ \A d \in Calls : d # c /\ pc[d] = "waitWrite" => pc'[d] \in {"waitWrite", "wakeWrite"}
           /\ pc'[c] = place
<1> DEFINE next == Chosen(writeMtx)
           first == At({"wakeWrite", "writing"})
<1>a. /\ At({"waitWrite"}) \in SUBSET Calls /\ At({"wakeWrite"}) \in SUBSET Calls
      /\ At({"writing"}) \in SUBSET Calls /\ c \in At({"writing"})
  BY DEF At
<1>1. MutexOK(writeMtx, At({"waitWrite"}), At({"wakeWrite"}), At({"writing"}))
  BY DEF MutexInv
<1>2. ~Ignored(writeMtx)
  BY <1>a, <1>1, UnlockChooses
<1>3. \A d \in next : writeMtx.waiters # <<>> /\ d = writeMtx.waiters[1]
  BY <1>a, <1>1, UnlockChooses, SMTT(30)
<1>4. \A d \in next : d \in At({"waitWrite"})
  BY <1>a, <1>1, UnlockChooses
<1>5. At({"writing"}) = {c} /\ At({"wakeWrite"}) = {}
  BY <1>a, <1>1 DEF MutexOK
<1>6. /\ \A d \in Calls : d # c => pc'[d] = IF d \in next THEN "wakeWrite" ELSE pc[d]
      /\ pc'[c] = place
  BY DEF Places
<1> HIDE DEF next
<1>7. \A d \in next : d \in Calls /\ pc[d] = "waitWrite"
  BY <1>4 DEF At
<1>8. \A d \in first' : d \in next
  BY <1>5, <1>6 DEF At
<1>9. QueueInOrder(Unlock(writeMtx), first', token)
  <2>1. \A d \in first' : writeMtx.waiters # <<>> /\ d = writeMtx.waiters[1]
    BY <1>3, <1>8
  <2>2. QueueInOrder(writeMtx, first, token) /\ writeMtx \in Mutexes
    BY WaitersWait DEF OrderInv, QueueOrder
  <2>3. QED
    BY <1>2, <2>1, <2>2, UnlockInOrder
<1>10. \A d \in Writers : d # c => token[c] < token[d]
  <2>1. \A d \in Writers : d # c => d \in Calls /\ pc[d] = "waitWrite"
    BY <1>5 DEF Writers, At
  <2>2. c \in first
    BY DEF At
  <2>3. QED
    BY <2>1, <2>2, WaitersWait DEF OrderInv, QueueOrder, QueueInOrder
<1>11. \A d : d \in Writers' <=> d \in Writers /\ d # c
  BY <1>6, <1>7 DEF Writers, At
<1>12. QED
  BY <1>6, <1>7, <1>9, <1>10, <1>11

\* The owner of the read mutex releases it: the queue behind it stays in order.
LEMMA ReadUnlockKeeps ==
    ASSUME Types, MutexInv, OrderInv, NEW c \in Calls, pc[c] = "reading",
           readMtx' = Unlock(readMtx), token' = token,
           NEW place, place \notin {"waitRead", "wakeRead", "reading"},
           Places(c, place, Chosen(readMtx), "wakeRead")
    PROVE  /\ QueueInOrder(readMtx, At({"wakeRead", "reading"}), token)'
           /\ \A d : d \in Readers' <=> d \in Readers /\ d # c
           /\ \A d \in Readers : d # c => token[c] < token[d]
           /\ \A d \in Calls : d # c /\ pc[d] # "waitRead" => pc'[d] = pc[d]
           /\ \A d \in Calls : d # c /\ pc[d] = "waitRead" => pc'[d] \in {"waitRead", "wakeRead"}
           /\ pc'[c] = place
<1> DEFINE next == Chosen(readMtx)
           first == At({"wakeRead", "reading"})
<1>a. /\ At({"waitRead"}) \in SUBSET Calls /\ At({"wakeRead"}) \in SUBSET Calls
      /\ At({"reading"}) \in SUBSET Calls /\ c \in At({"reading"})
  BY DEF At
<1>1. MutexOK(readMtx, At({"waitRead"}), At({"wakeRead"}), At({"reading"}))
  BY DEF MutexInv
<1>2. ~Ignored(readMtx)
  BY <1>a, <1>1, UnlockChooses
<1>3. \A d \in next : readMtx.waiters # <<>> /\ d = readMtx.waiters[1]
  BY <1>a, <1>1, UnlockChooses
<1>4. \A d \in next : d \in At({"waitRead"})
  BY <1>a, <1>1, UnlockChooses
<1>5. At({"reading"}) = {c} /\ At({"wakeRead"}) = {}
  BY <1>a, <1>1 DEF MutexOK
<1>6. /\ \A d \in Calls : d # c => pc'[d] = IF d \in next THEN "wakeRead" ELSE pc[d]
      /\ pc'[c] = place
  BY DEF Places
<1> HIDE DEF next
<1>7. \A d \in next : d \in Calls /\ pc[d] = "waitRead"
  BY <1>4 DEF At
<1>8. \A d \in first' : d \in next
  BY <1>5, <1>6 DEF At
<1>9. QueueInOrder(Unlock(readMtx), first', token)
  <2>1. \A d \in first' : readMtx.waiters # <<>> /\ d = readMtx.waiters[1]
    BY <1>3, <1>8
  <2>2. QueueInOrder(readMtx, first, token) /\ readMtx \in Mutexes
    BY WaitersWait DEF OrderInv, QueueOrder
  <2>3. QED
    BY <1>2, <2>1, <2>2, UnlockInOrder
<1>10. \A d \in Readers : d # c => token[c] < token[d]
  <2>1. \A d \in Readers : d # c => d \in Calls /\ pc[d] = "waitRead"
    BY <1>5 DEF Readers, At
  <2>2. c \in first
    BY DEF At
  <2>3. QED
    BY <2>1, <2>2, WaitersWait DEF OrderInv, QueueOrder, QueueInOrder
<1>11. \A d : d \in Readers' <=> d \in Readers /\ d # c
  BY <1>6, <1>7 DEF Readers, At
<1>12. QED
  BY <1>6, <1>7, <1>9, <1>10, <1>11

\* A mutex that a step leaves alone keeps its order when nobody else comes first.
LEMMA SameQueue ==
    ASSUME NEW m, NEW m2, m2.waiters = m.waiters, NEW first, NEW first2, NEW tok,
           QueueInOrder(m, first, tok), \A d \in first2 : d \in first
    PROVE  QueueInOrder(m2, first2, tok)
  BY DEF QueueInOrder

LEMMA ResumeWriteKeeps ==
    ASSUME Types, MutexInv, OrderInv, NEW c \in Calls, ResumeWrite(c)
    PROVE  OrderInv'
<1>1. /\ \A d \in Calls : d # c => pc'[d] = pc[d]
      /\ pc[c] = "wakeWrite" /\ pc'[c] = "writing"
  BY DEF ResumeWrite, Places
<1>2. UNCHANGED <<readMtx, nextCommandToken, token, requests, handling, responses, got, broken>>
  BY DEF ResumeWrite
<1>3. Writers' = Writers /\ Readers' = Readers
  BY <1>1 DEF Writers, Readers, At
<1>4. TokenInv'
  BY <1>1, <1>2, <1>3 DEF OrderInv, TokenInv
<1>5. QueueOrder'
  <2>1. writeMtx'.waiters = writeMtx.waiters
    BY WaitersWait DEF ResumeWrite, Resumed, Mutexes
  <2>2. /\ \A d \in At({"wakeWrite", "writing"})' : d \in At({"wakeWrite", "writing"})
        /\ \A d \in At({"wakeRead", "reading"})' : d \in At({"wakeRead", "reading"})
    BY <1>1 DEF At
  <2>3. QueueInOrder(writeMtx, At({"wakeWrite", "writing"}), token)'
    BY <1>2, <2>1, <2>2, SameQueue DEF OrderInv, QueueOrder
  <2>4. QueueInOrder(readMtx, At({"wakeRead", "reading"}), token)'
    BY <1>2, <2>2, SameQueue DEF OrderInv, QueueOrder
  <2>5. QED
    BY <1>2, <1>3, <2>3, <2>4 DEF OrderInv, QueueOrder
<1>6. PacketOrder' /\ ResponseInv' /\ PendingInv' /\ OwnResponse'
  BY <1>2, <1>3 DEF OrderInv, PacketOrder, ResponseInv, PendingInv, OwnResponse
<1>7. QED
  BY <1>4, <1>5, <1>6 DEF OrderInv

LEMMA ResumeReadKeeps ==
    ASSUME Types, MutexInv, OrderInv, NEW c \in Calls, ResumeRead(c)
    PROVE  OrderInv'
<1>1. /\ \A d \in Calls : d # c => pc'[d] = pc[d]
      /\ pc[c] = "wakeRead" /\ pc'[c] = "reading"
  BY DEF ResumeRead, Places
<1>2. UNCHANGED <<writeMtx, nextCommandToken, token, requests, handling, responses, got, broken>>
  BY DEF ResumeRead
<1>3. Writers' = Writers /\ Readers' = Readers
  BY <1>1 DEF Writers, Readers, At
<1>4. TokenInv'
  BY <1>1, <1>2, <1>3 DEF OrderInv, TokenInv
<1>5. QueueOrder'
  <2>1. readMtx'.waiters = readMtx.waiters
    BY WaitersWait DEF ResumeRead, Resumed, Mutexes
  <2>2. /\ \A d \in At({"wakeWrite", "writing"})' : d \in At({"wakeWrite", "writing"})
        /\ \A d \in At({"wakeRead", "reading"})' : d \in At({"wakeRead", "reading"})
    BY <1>1 DEF At
  <2>3. QueueInOrder(writeMtx, At({"wakeWrite", "writing"}), token)'
    BY <1>2, <2>2, SameQueue DEF OrderInv, QueueOrder
  <2>4. QueueInOrder(readMtx, At({"wakeRead", "reading"}), token)'
    BY <1>2, <2>1, <2>2, SameQueue DEF OrderInv, QueueOrder
  <2>5. QED
    BY <1>2, <1>3, <2>3, <2>4 DEF OrderInv, QueueOrder
<1>6. PacketOrder' /\ ResponseInv' /\ PendingInv' /\ OwnResponse'
  BY <1>2, <1>3 DEF OrderInv, PacketOrder, ResponseInv, PendingInv, OwnResponse
<1>7. QED
  BY <1>4, <1>5, <1>6 DEF OrderInv

\* The writer has the smallest token of those who write and the largest of those
\* who read: its packet goes last, and it is the last to read.
LEMMA WrittenKeeps ==
    ASSUME Types, MutexInv, OrderInv, NEW c \in Calls, Written(c)
    PROVE  OrderInv'
<1> DEFINE place == IF c \in Events THEN "done"
                    ELSE IF IsFree(readMtx) THEN "reading" ELSE "waitRead"
           packet == [token |-> token[c], event |-> c \in Events]
<1>1. /\ pc[c] = "writing" /\ ~broken
      /\ writeMtx' = Unlock(writeMtx)
      /\ Places(c, place, Chosen(writeMtx), "wakeWrite")
      /\ requests' = Append(requests, packet)
      /\ UNCHANGED <<nextCommandToken, token, handling, responses, got, broken>>
  BY DEF Written
<1>2. place \notin {"waitWrite", "wakeWrite", "writing", "new"}
  OBVIOUS
<1>p. /\ packet.token = token[c] /\ (packet.event <=> c \in Events)
      /\ token \in [Calls -> Nat] /\ token[c] \in Nat
      /\ token[c] < nextCommandToken /\ nextCommandToken \in Nat
  BY DEF Types, OrderInv, TokenInv
<1>q. /\ Len(requests) \in Nat /\ Len(requests') = Len(requests) + 1
      /\ \A i \in 1 .. Len(requests) : requests'[i] = requests[i]
      /\ requests'[Len(requests) + 1] = packet
  <2>1. packet \in Requests
    BY <1>p DEF Requests
  <2> HIDE DEF packet
  <2>2. QED
    BY <1>1, <2>1, AppendProperties DEF Types
<1> HIDE DEF packet
<1>3. /\ QueueInOrder(writeMtx, At({"wakeWrite", "writing"}), token)'
      /\ \A d : d \in Writers' <=> d \in Writers /\ d # c
      /\ \A d \in Writers : d # c => token[c] < token[d]
      /\ \A d \in Calls : d # c /\ pc[d] # "waitWrite" => pc'[d] = pc[d]
      /\ \A d \in Calls : d # c /\ pc[d] = "waitWrite" => pc'[d] \in {"waitWrite", "wakeWrite"}
      /\ pc'[c] = place
  <2> HIDE DEF place
  <2>1. QED
    BY <1>1, <1>2, WriteUnlockKeeps
<1>4. c \in Writers /\ c \notin Readers
  BY <1>1 DEF Writers, Readers, At
<1>5. /\ \A d : d \in Readers' <=> d \in Readers \/ (d = c /\ c \notin Events)
      /\ \A d : d \in Readers \cup Writers => d \in Calls
  BY <1>1, <1>3 DEF Readers, Writers, At
<1>6. TokenInv'
  BY <1>1, <1>2, <1>3, <1>4, <1>5 DEF OrderInv, TokenInv
<1>7. PacketOrder'
  <2>1. /\ \A i \in 1 .. Len(requests) : requests[i].token < token[c]
        /\ \A i \in 1 .. Len(handling) : handling[i].token < token[c]
        /\ \A i \in 1 .. Len(responses) : responses[i].token < token[c]
    BY <1>4 DEF OrderInv, PacketOrder
  <2>2. \A i \in 1 .. Len(requests') : requests'[i].token \in Nat /\ requests'[i].token <= token[c]
    BY <1>p, <1>q, <2>1, PacketTypes
  <2>i. \A i \in 1 .. Len(requests') : i \in 1 .. Len(requests) \/ i = Len(requests) + 1
    BY <1>q
  <2>3. \A i, j \in 1 .. Len(requests') : i < j => requests'[i].token < requests'[j].token
    <3>1. SUFFICES ASSUME NEW i \in 1 .. Len(requests'), NEW j \in 1 .. Len(requests'), i < j
                   PROVE  requests'[i].token < requests'[j].token
      OBVIOUS
    <3>2. i \in 1 .. Len(requests)
      BY <1>q, <2>i, <3>1
    <3>3. CASE j \in 1 .. Len(requests)
      BY <1>q, <3>1, <3>2, <3>3 DEF OrderInv, PacketOrder
    <3>4. CASE j = Len(requests) + 1
      BY <1>p, <1>q, <2>1, <3>2, <3>4
    <3>5. QED
      BY <2>i, <3>3, <3>4
  <2>4. \A i \in 1 .. Len(requests') : requests'[i].token < nextCommandToken
    BY <1>p, <1>q, <2>1 DEF OrderInv, PacketOrder
  <2>5. /\ \A i \in 1 .. Len(handling), j \in 1 .. Len(requests') :
             handling[i].token < requests'[j].token
        /\ \A i \in 1 .. Len(responses), j \in 1 .. Len(requests') :
             responses[i].token < requests'[j].token
    <3>1. ASSUME NEW j \in 1 .. Len(requests), NEW r, r = requests'[j]
          PROVE  /\ \A i \in 1 .. Len(handling) : handling[i].token < r.token
                 /\ \A i \in 1 .. Len(responses) : responses[i].token < r.token
      BY <1>q, <3>1 DEF OrderInv, PacketOrder
    <3>2. QED
      BY <1>p, <1>q, <2>1, <2>i, <3>1
  <2>6. \A d \in Writers' : \A i \in 1 .. Len(requests') : requests'[i].token < token[d]
    BY <1>3, <1>5, <1>p, <2>2
  <2>7. QED
    BY <1>1, <1>3, <2>3, <2>4, <2>5, <2>6 DEF OrderInv, PacketOrder
<1>8. QueueOrder'
  <2>1. \A d \in Readers : d # c /\ token[d] < token[c]
    BY <1>4 DEF OrderInv, QueueOrder
  <2>2. QueueInOrder(readMtx, At({"wakeRead", "reading"}), token)'
    <3>1. CASE c \in Events
      <4>1. readMtx' = readMtx /\ token' = token
        BY <3>1 DEF Written
      <4>2. \A d \in At({"wakeRead", "reading"})' : d \in At({"wakeRead", "reading"})
        BY <1>1, <1>3, <3>1 DEF At
      <4>3. QED
        BY <4>1, <4>2, SameQueue DEF OrderInv, QueueOrder
    <3>2. CASE c \notin Events
      <4> DEFINE first == At({"wakeRead", "reading"})
      <4>1. /\ \A d \in first' : d \in first \/ d = c
            /\ ~IsFree(readMtx) => \A d \in first' : d \in first
        BY <1>1, <1>3, <3>2 DEF At
      <4>2. /\ \A d \in first : token[d] < token[c]
            /\ \A i \in 1 .. Len(readMtx.waiters) : token[readMtx.waiters[i]] < token[c]
        BY <2>1, WaitersWait DEF Readers, At
      <4>3. first \in SUBSET Calls /\ QueueInOrder(readMtx, first, token)
        BY DEF At, OrderInv, QueueOrder
      <4>4. QueueInOrder(Lock(readMtx, c), first', token)
        BY <4>1, <4>2, <4>3, WaitersWait, LockInOrder
      <4>5. readMtx' = Lock(readMtx, c) /\ token' = token
        BY <3>2 DEF Written
      <4>6. QED
        BY <4>4, <4>5
    <3>3. QED
      BY <3>1, <3>2
  <2>3. \A d \in Readers', e \in Writers' : token'[d] < token'[e]
    BY <1>1, <1>3, <1>5, <2>1 DEF OrderInv, QueueOrder
  <2>4. QED
    BY <1>3, <2>2, <2>3 DEF QueueOrder
<1>9. ResponseInv'
  <2>1. \A i \in 1 .. Len(responses) : responses[i].token < token[c] /\ responses[i].token \in Nat
    BY <1>4, PacketTypes DEF OrderInv, PacketOrder
  <2>2. \A i \in 1 .. Len(responses) : ~(token[c] < responses[i].token)
    BY <1>p, <2>1
  <2>3. QED
    BY <1>1, <1>5, <2>2 DEF OrderInv, ResponseInv
<1>10. PendingInv'
  <2>1. /\ \A i \in 1 .. Len(requests) : i \in 1 .. Len(requests')
        /\ \A i \in 1 .. Len(requests') : i \in 1 .. Len(requests) \/ i = Len(requests) + 1
        /\ Len(requests) + 1 \in 1 .. Len(requests')
    BY <1>q
  <2>2. \A d \in Readers' :
             \/ \E i \in 1 .. Len(requests') : requests'[i].token = token[d]
             \/ \E i \in 1 .. Len(handling) : handling[i].token = token[d]
             \/ \E i \in 1 .. Len(responses) : responses[i].token = token[d]
    BY <1>1, <1>5, <1>p, <1>q, <2>1 DEF OrderInv, PendingInv
  <2>c. /\ \A i \in 1 .. Len(requests) : token[c] # requests[i].token
        /\ \A i \in 1 .. Len(handling) : token[c] # handling[i].token
        /\ \A d \in Readers : token[d] # token[c]
    BY <1>4, <1>5, <1>p, PacketTypes, SMTT(30) DEF OrderInv, PacketOrder, QueueOrder
  <2>o. /\ \A i \in 1 .. Len(requests) :
             requests[i].event <=> \A d \in Readers : token[d] # requests[i].token
        /\ \A i \in 1 .. Len(handling) :
             handling[i].event <=> \A d \in Readers : token[d] # handling[i].token
    BY <1>1 DEF OrderInv, PendingInv
  <2>3. \A i \in 1 .. Len(requests') :
             requests'[i].event <=> \A d \in Readers' : token[d] # requests'[i].token
    <3>1. ASSUME NEW i \in 1 .. Len(requests)
          PROVE  requests[i].event <=> \A d \in Readers' : token[d] # requests[i].token
      BY <1>5, <2>c, <2>o
    <3>2. packet.event <=> \A d \in Readers' : token[d] # packet.token
      BY <1>5, <1>p, <2>c
    <3>3. QED
      BY <1>q, <2>1, <3>1, <3>2
  <2>4. \A i \in 1 .. Len(handling) :
             handling[i].event <=> \A d \in Readers' : token[d] # handling[i].token
    BY <1>5, <2>c, <2>o
  <2>5. QED
    BY <1>1, <2>2, <2>3, <2>4 DEF PendingInv
<1>11. OwnResponse'
  BY <1>1 DEF OrderInv, OwnResponse
<1>12. QED
  BY <1>6, <1>7, <1>8, <1>9, <1>10, <1>11 DEF OrderInv

LEMMA WriteFailsKeeps ==
    ASSUME Types, MutexInv, OrderInv, NEW c \in Calls, WriteFails(c)
    PROVE  OrderInv'
<1>1. /\ pc[c] = "writing" /\ broken
      /\ writeMtx' = Unlock(writeMtx)
      /\ Places(c, "failed", Chosen(writeMtx), "wakeWrite")
      /\ UNCHANGED <<readMtx, nextCommandToken, token, requests, handling, responses, got, broken>>
  BY DEF WriteFails
<1>2. /\ QueueInOrder(writeMtx, At({"wakeWrite", "writing"}), token)'
      /\ \A d : d \in Writers' <=> d \in Writers /\ d # c
      /\ \A d \in Calls : d # c /\ pc[d] # "waitWrite" => pc'[d] = pc[d]
      /\ \A d \in Calls : d # c /\ pc[d] = "waitWrite" => pc'[d] \in {"waitWrite", "wakeWrite"}
      /\ pc'[c] = "failed"
  BY <1>1, WriteUnlockKeeps
<1>3. Readers' = Readers
  BY <1>1, <1>2 DEF Readers, At
<1>4. TokenInv'
  BY <1>1, <1>2, <1>3 DEF OrderInv, TokenInv
<1>5. QueueOrder'
  <2>1. \A d \in At({"wakeRead", "reading"})' : d \in At({"wakeRead", "reading"})
    BY <1>1, <1>2 DEF At
  <2>2. QueueInOrder(readMtx, At({"wakeRead", "reading"}), token)'
    BY <1>1, <2>1, SameQueue DEF OrderInv, QueueOrder
  <2>3. QED
    BY <1>1, <1>2, <1>3, <2>2 DEF OrderInv, QueueOrder
<1>6. PacketOrder'
  BY <1>1, <1>2, <1>3 DEF OrderInv, PacketOrder
<1>7. ResponseInv'
  BY <1>1, <1>3 DEF OrderInv, ResponseInv
<1>8. PendingInv' /\ OwnResponse'
  BY <1>1, <1>3 DEF OrderInv, PendingInv, OwnResponse
<1>9. QED
  BY <1>4, <1>5, <1>6, <1>7, <1>8 DEF OrderInv

\* The call that reads is the one whose response comes first.
LEMMA HeadIsOwn ==
    ASSUME Types, MutexInv, OrderInv, NEW c \in Calls, pc[c] = "reading", responses # <<>>
    PROVE  /\ 1 \in 1 .. Len(responses) /\ Head(responses) = responses[1]
           /\ responses[1].token = token[c]
<1>1. 1 \in 1 .. Len(responses) /\ Head(responses) = responses[1]
  BY EmptySeq DEF Types
<1>2. PICK d \in Readers : token[d] = responses[1].token
  BY <1>1 DEF OrderInv, ResponseInv
<1>3. \A e \in Readers : e # c => token[c] < token[e]
  <2>1. MutexOK(readMtx, At({"waitRead"}), At({"wakeRead"}), At({"reading"}))
    BY DEF MutexInv
  <2>2. \A e \in Readers : e # c => e \in Calls /\ pc[e] = "waitRead"
    BY <2>1 DEF MutexOK, Readers, At
  <2>3. c \in At({"wakeRead", "reading"})
    BY DEF At
  <2>4. QED
    BY <2>2, <2>3, WaitersWait DEF OrderInv, QueueOrder, QueueInOrder
<1>4. ~(token[c] < responses[1].token)
  <2>1. SUFFICES ASSUME token[c] < responses[1].token PROVE FALSE
    OBVIOUS
  <2>2. c \in Readers
    BY DEF Readers, At
  <2>3. PICK j \in 1 .. Len(responses) : responses[j].token = token[c]
    BY <1>1, <2>1, <2>2 DEF OrderInv, ResponseInv
  <2>4. j = 1 \/ responses[1].token < responses[j].token
    BY <1>1 DEF OrderInv, PacketOrder
  <2>5. responses[1].token \in Nat /\ token[c] \in Nat
    BY <1>1, PacketTypes DEF Types
  <2>6. QED
    BY <2>1, <2>3, <2>4, <2>5
<1>5. QED
  BY <1>1, <1>2, <1>3, <1>4

LEMMA ReadPacketKeeps ==
    ASSUME Types, MutexInv, OrderInv, NEW c \in Calls, ReadPacket(c)
    PROVE  OrderInv'
<1> DEFINE place == IF Head(responses).success THEN "done" ELSE "failed"
<1>1. /\ pc[c] = "reading" /\ responses # <<>>
      /\ readMtx' = Unlock(readMtx)
      /\ Places(c, place, Chosen(readMtx), "wakeRead")
      /\ responses' = Tail(responses)
      /\ got' = [got EXCEPT ![c] = Head(responses).token]
      /\ UNCHANGED <<writeMtx, nextCommandToken, token, requests, handling, broken>>
  BY DEF ReadPacket
<1>2. place \in {"done", "failed"}
  OBVIOUS
<1> HIDE DEF place
<1>3. /\ QueueInOrder(readMtx, At({"wakeRead", "reading"}), token)'
      /\ \A d : d \in Readers' <=> d \in Readers /\ d # c
      /\ \A d \in Readers : d # c => token[c] < token[d]
      /\ \A d \in Calls : d # c /\ pc[d] # "waitRead" => pc'[d] = pc[d]
      /\ \A d \in Calls : d # c /\ pc[d] = "waitRead" => pc'[d] \in {"waitRead", "wakeRead"}
      /\ pc'[c] = place
  <2>1. place \notin {"waitRead", "wakeRead", "reading"}
    BY <1>2
  <2>2. QED
    BY <1>1, <2>1, ReadUnlockKeeps
<1>4. Writers' = Writers
  BY <1>1, <1>2, <1>3 DEF Writers, At
<1>5. /\ 1 \in 1 .. Len(responses) /\ Head(responses) = responses[1]
      /\ responses[1].token = token[c]
  BY <1>1, HeadIsOwn
<1>6. /\ Len(responses) \in Nat /\ Len(responses') = Len(responses) - 1
      /\ \A i \in 1 .. Len(responses') :
           i + 1 \in 1 .. Len(responses) /\ responses'[i] = responses[i + 1] /\ 1 < i + 1
  BY <1>1, <1>5, HeadTailProperties DEF Types
<1>7. TokenInv'
  <2>1. \A d \in Calls : d # c => got'[d] = got[d]
    BY <1>1 DEF Types
  <2>2. \A d \in Calls : pc'[d] = "new" => d # c /\ pc[d] = "new"
    BY <1>1, <1>2, <1>3
  <2>3. \A d \in Writers' \cup Readers' : d \in Writers \cup Readers
    BY <1>3, <1>4
  <2>4. QED
    BY <1>1, <2>1, <2>2, <2>3 DEF OrderInv, TokenInv
<1>8. PacketOrder'
  <2>1. \A i, j \in 1 .. Len(responses') : i < j => responses'[i].token < responses'[j].token
    <3>1. SUFFICES ASSUME NEW i \in 1 .. Len(responses'), NEW j \in 1 .. Len(responses'), i < j
                   PROVE  responses'[i].token < responses'[j].token
      OBVIOUS
    <3>2. i + 1 < j + 1
      BY <3>1
    <3>3. QED
      BY <1>6, <3>2 DEF OrderInv, PacketOrder
  <2>2. QED
    BY <1>1, <1>4, <1>6, <2>1 DEF OrderInv, PacketOrder
<1>9. QueueOrder'
  <2>1. \A d \in At({"wakeWrite", "writing"})' : d \in At({"wakeWrite", "writing"})
    BY <1>1, <1>2, <1>3 DEF At
  <2>2. QueueInOrder(writeMtx, At({"wakeWrite", "writing"}), token)'
    BY <1>1, <2>1, SameQueue DEF OrderInv, QueueOrder
  <2>3. QED
    BY <1>1, <1>3, <1>4, <2>2 DEF OrderInv, QueueOrder
<1>o. \A i \in 1 .. Len(responses') : token[c] < responses'[i].token
  BY <1>5, <1>6 DEF OrderInv, PacketOrder
<1>t. token \in [Calls -> Nat] /\ \A d \in Readers : d \in Calls
  BY DEF Types, Readers, At
<1>10. ResponseInv'
  <2>1. SUFFICES ASSUME NEW i \in 1 .. Len(responses')
                 PROVE  /\ \E d \in Readers' : token[d] = responses'[i].token
                        /\ \A d \in Readers' : token[d] < responses'[i].token =>
                             \E j \in 1 .. Len(responses') : responses'[j].token = token[d]
    BY <1>1 DEF ResponseInv
  <2>2. \E d \in Readers' : token[d] = responses'[i].token
    <3>1. PICK d \in Readers : token[d] = responses'[i].token
      BY <1>6 DEF OrderInv, ResponseInv
    <3>2. d # c
      BY <1>o, <1>t, <3>1
    <3>3. QED
      BY <1>3, <3>1, <3>2
  <2>3. ASSUME NEW d \in Readers', token[d] < responses'[i].token
        PROVE  \E j \in 1 .. Len(responses') : responses'[j].token = token[d]
    <3>1. d \in Readers /\ d # c
      BY <1>3
    <3>2. PICK j \in 1 .. Len(responses) : responses[j].token = token[d]
      BY <1>6, <2>3, <3>1 DEF OrderInv, ResponseInv
    <3>3. j # 1
      BY <1>3, <1>5, <1>t, <3>1, <3>2
    <3>4. j - 1 \in 1 .. Len(responses') /\ responses'[j - 1] = responses[j]
      BY <1>6, <3>3
    <3>5. QED
      BY <3>2, <3>4
  <2>4. QED
    BY <2>2, <2>3
<1>11. PendingInv'
  <2>1. SUFFICES ASSUME ~broken
                 PROVE  /\ \A d \in Readers' :
                             \/ \E i \in 1 .. Len(requests) : requests[i].token = token[d]
                             \/ \E i \in 1 .. Len(handling) : handling[i].token = token[d]
                             \/ \E i \in 1 .. Len(responses') : responses'[i].token = token[d]
                        /\ \A i \in 1 .. Len(requests) :
                             requests[i].event <=> \A d \in Readers' : token[d] # requests[i].token
                        /\ \A i \in 1 .. Len(handling) :
                             handling[i].event <=> \A d \in Readers' : token[d] # handling[i].token
    BY <1>1 DEF PendingInv
  <2>2. ASSUME NEW d \in Readers'
        PROVE  \/ \E i \in 1 .. Len(requests) : requests[i].token = token[d]
               \/ \E i \in 1 .. Len(handling) : handling[i].token = token[d]
               \/ \E i \in 1 .. Len(responses') : responses'[i].token = token[d]
    <3>1. d \in Readers /\ d # c
      BY <1>3
    <3>2. ASSUME NEW j \in 1 .. Len(responses), responses[j].token = token[d]
          PROVE  \E i \in 1 .. Len(responses') : responses'[i].token = token[d]
      <4>1. j # 1
        BY <1>3, <1>5, <1>t, <3>1, <3>2
      <4>2. j - 1 \in 1 .. Len(responses') /\ responses'[j - 1] = responses[j]
        BY <1>6, <4>1
      <4>3. QED
        BY <3>2, <4>2
    <3>3. QED
      BY <2>1, <3>1, <3>2 DEF OrderInv, PendingInv
  <2>3. \A i \in 1 .. Len(requests) : token[c] # requests[i].token
    BY <1>5, <1>t, PacketTypes DEF OrderInv, PacketOrder
  <2>4. \A i \in 1 .. Len(handling) : token[c] # handling[i].token
    BY <1>5, <1>t, PacketTypes DEF OrderInv, PacketOrder
  <2>5. \A i \in 1 .. Len(requests) :
             requests[i].event <=> \A d \in Readers' : token[d] # requests[i].token
    BY <1>3, <2>1, <2>3 DEF OrderInv, PendingInv
  <2>6. \A i \in 1 .. Len(handling) :
             handling[i].event <=> \A d \in Readers' : token[d] # handling[i].token
    BY <1>3, <2>1, <2>4 DEF OrderInv, PendingInv
  <2>7. QED
    BY <2>2, <2>5, <2>6
<1>12. OwnResponse'
  BY <1>1, <1>5 DEF OrderInv, OwnResponse, Types
<1>13. QED
  BY <1>7, <1>8, <1>9, <1>10, <1>11, <1>12 DEF OrderInv

LEMMA ReadFailsKeeps ==
    ASSUME Types, MutexInv, OrderInv, NEW c \in Calls, ReadFails(c)
    PROVE  OrderInv'
<1>1. /\ pc[c] = "reading" /\ broken /\ responses = <<>>
      /\ readMtx' = Unlock(readMtx)
      /\ Places(c, "failed", Chosen(readMtx), "wakeRead")
      /\ UNCHANGED <<writeMtx, nextCommandToken, token, requests, handling, responses, got, broken>>
  BY DEF ReadFails
<1>2. /\ QueueInOrder(readMtx, At({"wakeRead", "reading"}), token)'
      /\ \A d : d \in Readers' <=> d \in Readers /\ d # c
      /\ \A d \in Calls : d # c /\ pc[d] # "waitRead" => pc'[d] = pc[d]
      /\ \A d \in Calls : d # c /\ pc[d] = "waitRead" => pc'[d] \in {"waitRead", "wakeRead"}
      /\ pc'[c] = "failed"
  BY <1>1, ReadUnlockKeeps
<1>3. Writers' = Writers
  BY <1>1, <1>2 DEF Writers, At
<1>4. TokenInv'
  BY <1>1, <1>2, <1>3 DEF OrderInv, TokenInv
<1>5. QueueOrder'
  <2>1. \A d \in At({"wakeWrite", "writing"})' : d \in At({"wakeWrite", "writing"})
    BY <1>1, <1>2 DEF At
  <2>2. QueueInOrder(writeMtx, At({"wakeWrite", "writing"}), token)'
    BY <1>1, <2>1, SameQueue DEF OrderInv, QueueOrder
  <2>3. QED
    BY <1>1, <1>2, <1>3, <2>2 DEF OrderInv, QueueOrder
<1>6. PacketOrder' /\ PendingInv' /\ OwnResponse'
  BY <1>1, <1>3 DEF OrderInv, PacketOrder, PendingInv, OwnResponse
<1>7. ResponseInv'
  <2>1. Len(responses') = 0
    BY <1>1
  <2>2. QED
    BY <2>1 DEF ResponseInv
<1>8. QED
  BY <1>4, <1>5, <1>6, <1>7 DEF OrderInv

LEMMA ReadRequestKeeps ==
    ASSUME Types, MutexInv, OrderInv, ReadRequest
    PROVE  OrderInv'
<1>1. /\ ~broken /\ handling = <<>> /\ requests # <<>>
      /\ handling' = <<Head(requests)>>
      /\ requests' = Tail(requests)
      /\ UNCHANGED <<writeMtx, readMtx, pc, nextCommandToken, token, responses, got, broken>>
  BY DEF ReadRequest
<1>2. /\ 1 \in 1 .. Len(requests) /\ Len(requests) \in Nat
      /\ Len(handling') = 1 /\ handling'[1] = requests[1]
      /\ Len(requests') = Len(requests) - 1
      /\ \A i \in 1 .. Len(requests') :
           i + 1 \in 1 .. Len(requests) /\ requests'[i] = requests[i + 1] /\ 1 < i + 1
  <2>1. Len(requests) \in Nat \ {0} /\ Head(requests) = requests[1]
    BY <1>1, EmptySeq DEF Types
  <2>2. /\ Len(Tail(requests)) = Len(requests) - 1
        /\ \A i \in 1 .. Len(Tail(requests)) : Tail(requests)[i] = requests[i + 1]
    BY <1>1, HeadTailProperties DEF Types
  <2>3. QED
    BY <1>1, <2>1, <2>2
<1>3. Writers' = Writers /\ Readers' = Readers
  BY <1>1 DEF Writers, Readers, At
<1>4. TokenInv' /\ QueueOrder' /\ ResponseInv' /\ OwnResponse'
  BY <1>1, <1>3 DEF OrderInv, TokenInv, QueueOrder, ResponseInv, OwnResponse, At
<1>i. \A i \in 1 .. Len(handling') : i = 1
  BY <1>2
<1>5. PacketOrder'
  <2>1. \A i, j \in 1 .. Len(requests') : i < j => requests'[i].token < requests'[j].token
    <3>1. SUFFICES ASSUME NEW i \in 1 .. Len(requests'), NEW j \in 1 .. Len(requests'), i < j
                   PROVE  requests'[i].token < requests'[j].token
      OBVIOUS
    <3>2. i + 1 < j + 1
      BY <3>1
    <3>3. QED
      BY <1>2, <3>2 DEF OrderInv, PacketOrder
  <2>2. \A j \in 1 .. Len(requests') : handling'[1].token < requests'[j].token
    BY <1>2 DEF OrderInv, PacketOrder
  <2>3. /\ handling'[1].token < nextCommandToken
        /\ \A i \in 1 .. Len(responses) : responses[i].token < handling'[1].token
        /\ \A d \in Writers : handling'[1].token < token[d]
    BY <1>2 DEF OrderInv, PacketOrder
  <2>4. QED
    BY <1>1, <1>2, <1>3, <1>i, <2>1, <2>2, <2>3 DEF OrderInv, PacketOrder
<1>6. PendingInv'
  <2>1. \A d \in Readers :
             \/ \E i \in 1 .. Len(requests') : requests'[i].token = token[d]
             \/ \E i \in 1 .. Len(handling') : handling'[i].token = token[d]
             \/ \E i \in 1 .. Len(responses) : responses[i].token = token[d]
    <3>1. SUFFICES ASSUME NEW d \in Readers, NEW j \in 1 .. Len(requests),
                          requests[j].token = token[d]
                   PROVE  \/ \E i \in 1 .. Len(requests') : requests'[i].token = token[d]
                          \/ \E i \in 1 .. Len(handling') : handling'[i].token = token[d]
      BY <1>1 DEF OrderInv, PendingInv
    <3>2. CASE j = 1
      BY <1>2, <3>1, <3>2
    <3>3. CASE j # 1
      <4>1. j - 1 \in 1 .. Len(requests') /\ requests'[j - 1] = requests[j]
        BY <1>2, <3>3
      <4>2. QED
        BY <3>1, <4>1
    <3>4. QED
      BY <3>2, <3>3
  <2>2. \A i \in 1 .. Len(requests') :
             requests'[i].event <=> \A d \in Readers : token[d] # requests'[i].token
    BY <1>1, <1>2 DEF OrderInv, PendingInv
  <2>3. \A i \in 1 .. Len(handling') :
             handling'[i].event <=> \A d \in Readers : token[d] # handling'[i].token
    BY <1>1, <1>2, <1>i DEF OrderInv, PendingInv
  <2>4. QED
    BY <1>1, <1>3, <2>1, <2>2, <2>3 DEF PendingInv
<1>7. QED
  BY <1>4, <1>5, <1>6 DEF OrderInv

\* The packet the server answers has the smallest token of those that are not
\* answered yet.
LEMMA ExecuteKeeps ==
    ASSUME Types, MutexInv, OrderInv, Execute
    PROVE  OrderInv'
<1>1. /\ ~broken /\ handling # <<>> /\ handling' = <<>>
      /\ UNCHANGED <<writeMtx, readMtx, pc, nextCommandToken, token, requests, got, broken>>
  BY DEF Execute
<1>2. 1 \in 1 .. Len(handling) /\ Len(handling) = 1 /\ Len(handling') = 0
  <2>1. handling \in Seq(Requests) /\ Len(handling) <= 1
    BY DEF Types
  <2>2. Len(handling) \in Nat \ {0} /\ Len(handling') = 0
    BY <1>1, <2>1, EmptySeq
  <2>3. QED
    BY <2>1, <2>2
<1>3. Writers' = Writers /\ Readers' = Readers
  BY <1>1 DEF Writers, Readers, At
<1>4. TokenInv' /\ QueueOrder' /\ OwnResponse'
  BY <1>1, <1>3 DEF OrderInv, TokenInv, QueueOrder, OwnResponse, At
<1>t. /\ handling[1].token \in Nat /\ token \in [Calls -> Nat] /\ \A d \in Readers : d \in Calls
      /\ \A i \in 1 .. Len(handling) : i = 1
  BY <1>2, PacketTypes DEF Types, Readers, At
<1>5. handling[1].event <=> \A d \in Readers : token[d] # handling[1].token
  BY <1>1, <1>2 DEF OrderInv, PendingInv
<1>6. CASE handling[1].event /\ UNCHANGED responses
  <2>1. PacketOrder' /\ ResponseInv'
    BY <1>1, <1>2, <1>3, <1>6 DEF OrderInv, PacketOrder, ResponseInv
  <2>2. PendingInv'
    BY <1>1, <1>2, <1>3, <1>5, <1>6, <1>t DEF OrderInv, PendingInv
  <2>3. QED
    BY <1>4, <2>1, <2>2 DEF OrderInv
<1>7. ASSUME ~handling[1].event, NEW success \in BOOLEAN,
             responses' = Append(responses, [token |-> handling[1].token, success |-> success])
      PROVE  OrderInv'
  <2> DEFINE answer == [token |-> handling[1].token, success |-> success]
             n == Len(responses)
  <2>1. answer \in Responses /\ answer.token = handling[1].token
    BY <1>t DEF Responses
  <2>2. responses' = Append(responses, answer)
    BY <1>7
  <2> HIDE DEF answer
  <2>3. /\ n \in Nat /\ Len(responses') = n + 1
        /\ \A i \in 1 .. n : responses'[i] = responses[i]
        /\ responses'[n + 1] = answer
        /\ n + 1 \in 1 .. Len(responses')
        /\ \A i \in 1 .. n : i \in 1 .. Len(responses')
        /\ \A i \in 1 .. Len(responses') : i \in 1 .. n \/ i = n + 1
    BY <2>1, <2>2, AppendProperties DEF Types
  <2> HIDE DEF n
  <2>4. /\ \A i \in 1 .. n : responses[i].token < handling[1].token
        /\ \A i \in 1 .. Len(requests) : handling[1].token < requests[i].token
        /\ \A d \in Writers : handling[1].token < token[d]
        /\ handling[1].token < nextCommandToken
    BY <1>2 DEF OrderInv, PacketOrder, n
  <2>5. PacketOrder'
    <3>1. \A i, j \in 1 .. Len(responses') : i < j => responses'[i].token < responses'[j].token
      <4>1. SUFFICES ASSUME NEW i \in 1 .. Len(responses'), NEW j \in 1 .. Len(responses'), i < j
                     PROVE  responses'[i].token < responses'[j].token
        OBVIOUS
      <4>2. i \in 1 .. n
        BY <2>3, <4>1
      <4>3. CASE j \in 1 .. n
        BY <2>3, <4>1, <4>2, <4>3 DEF OrderInv, PacketOrder, n
      <4>4. CASE j = n + 1
        BY <2>1, <2>3, <2>4, <4>2, <4>4
      <4>5. QED
        BY <2>3, <4>3, <4>4
    <3>2. /\ \A i \in 1 .. Len(responses') : responses'[i].token < nextCommandToken
          /\ \A i \in 1 .. Len(responses'), j \in 1 .. Len(requests) :
               responses'[i].token < requests[j].token
          /\ \A d \in Writers, i \in 1 .. Len(responses') : responses'[i].token < token[d]
      BY <2>1, <2>3, <2>4 DEF OrderInv, PacketOrder, n
    <3>3. QED
      BY <1>1, <1>2, <1>3, <3>1, <3>2 DEF OrderInv, PacketOrder
  <2>6. PICK c \in Readers : token[c] = handling[1].token
    BY <1>5, <1>7
  <2>7. \A d \in Readers : token[d] < handling[1].token =>
          \E j \in 1 .. n : responses[j].token = token[d]
    <3>1. SUFFICES ASSUME NEW d \in Readers, token[d] < handling[1].token
                   PROVE  \E j \in 1 .. n : responses[j].token = token[d]
      OBVIOUS
    <3>2. \A i \in 1 .. Len(handling) : handling[i].token # token[d]
      BY <1>t, <3>1
    <3>3. \A i \in 1 .. Len(requests) : requests[i].token # token[d]
      BY <1>t, <2>4, <3>1, PacketTypes
    <3>4. QED
      BY <1>1, <3>2, <3>3 DEF OrderInv, PendingInv, n
  <2>8. ResponseInv'
    <3>1. SUFFICES ASSUME NEW i \in 1 .. Len(responses')
                   PROVE  /\ \E d \in Readers : token[d] = responses'[i].token
                          /\ \A d \in Readers : token[d] < responses'[i].token =>
                               \E j \in 1 .. Len(responses') : responses'[j].token = token[d]
      BY <1>1, <1>3 DEF ResponseInv
    <3>2. CASE i \in 1 .. n
      BY <2>3, <3>2 DEF OrderInv, ResponseInv, n
    <3>3. CASE i = n + 1
      BY <2>1, <2>3, <2>6, <2>7, <3>3
    <3>4. QED
      BY <2>3, <3>2, <3>3
  <2>9. PendingInv'
    <3>1. \A d \in Readers :
             \/ \E i \in 1 .. Len(requests) : requests[i].token = token[d]
             \/ \E i \in 1 .. Len(responses') : responses'[i].token = token[d]
      BY <1>1, <1>t, <2>1, <2>3 DEF OrderInv, PendingInv, n
    <3>2. QED
      BY <1>1, <1>2, <1>3, <3>1 DEF OrderInv, PendingInv
  <2>10. QED
    BY <1>4, <2>5, <2>8, <2>9 DEF OrderInv
<1>8. QED
  BY <1>6, <1>7 DEF Execute

\* What was sent before the session ended is read in order, or not at all.
LEMMA DisconnectKeeps ==
    ASSUME Types, MutexInv, OrderInv, Disconnect
    PROVE  OrderInv'
<1>1. /\ broken' = TRUE
      /\ UNCHANGED <<writeMtx, readMtx, pc, nextCommandToken, token, requests, handling, got>>
  BY DEF Disconnect
<1>2. responses' = responses \/ responses' = <<>>
  BY Zenon DEF Disconnect
<1>3. Writers' = Writers /\ Readers' = Readers
  BY <1>1 DEF Writers, Readers, At
<1>4. TokenInv' /\ QueueOrder' /\ OwnResponse' /\ PendingInv'
  BY <1>1, <1>3 DEF OrderInv, TokenInv, QueueOrder, OwnResponse, PendingInv, At
<1>5. CASE responses' = responses
  <2>1. PacketOrder'
    BY <1>1, <1>3, <1>5 DEF OrderInv, PacketOrder
  <2>2. ResponseInv'
    BY <1>1, <1>3, <1>5 DEF OrderInv, ResponseInv
  <2>3. QED
    BY <1>4, <2>1, <2>2 DEF OrderInv
<1>6. CASE responses' = <<>>
  <2>1. Len(responses') = 0
    BY <1>6
  <2>2. QED
    BY <1>1, <1>3, <1>4, <2>1 DEF OrderInv, PacketOrder, ResponseInv
<1>7. QED
  BY <1>2, <1>5, <1>6

LEMMA PipeInit == Init => PipeInv
<1> SUFFICES ASSUME Init PROVE PipeInv
  OBVIOUS
<1>1. Types
  <2>1. <<>> \in Seq(Requests) /\ <<>> \in Seq(Responses) /\ Len(<<>>) = 0
    BY EmptySeq
  <2>2. /\ requests \in Seq(Requests) /\ responses \in Seq(Responses)
        /\ handling \in Seq(Requests) /\ Len(handling) <= 1
    <3>1. requests = <<>> /\ handling = <<>> /\ responses = <<>>
      BY DEF Init
    <3>2. QED
      BY <2>1, <3>1
  <2>3. /\ token \in [Calls -> Nat] /\ got \in [Calls -> Nat]
        /\ nextCommandToken \in Nat \ {0}
    BY DEF Init, NoToken
  <2>b. broken \in BOOLEAN
    BY DEF Init
  <2>4. pc \in [Calls -> {"new", "waitWrite", "wakeWrite", "writing", "waitRead",
                          "wakeRead", "reading", "done", "failed"}]
    BY DEF Init
  <2>5. QED
    BY <2>2, <2>3, <2>4, <2>b DEF Types
<1>2. MutexInv
  BY MutexInit
<1>3. Writers = {} /\ Readers = {}
  BY DEF Init, Writers, Readers, At
<1>4. /\ Len(requests) = 0 /\ Len(handling) = 0 /\ Len(responses) = 0
      /\ Len(writeMtx.waiters) = 0 /\ Len(readMtx.waiters) = 0
  BY DEF Init, Free
<1>5. TokenInv /\ OwnResponse
  BY <1>3 DEF Init, TokenInv, OwnResponse, NoToken
<1>6. PacketOrder /\ ResponseInv /\ PendingInv /\ QueueOrder
  BY <1>3, <1>4 DEF PacketOrder, ResponseInv, PendingInv, QueueOrder, QueueInOrder
<1>7. QED
  BY <1>1, <1>2, <1>5, <1>6 DEF PipeInv

LEMMA PipeNext == PipeInv /\ [Next]_vars => PipeInv'
<1> SUFFICES ASSUME PipeInv, [Next]_vars PROVE PipeInv'
  OBVIOUS
<1>1. Types /\ MutexInv /\ OrderInv
  BY DEF PipeInv, OrderInv
<1>2. UNCHANGED vars => OrderInv'
  BY <1>1 DEF vars, OrderInv, TokenInv, PacketOrder, QueueOrder, ResponseInv,
                    PendingInv, OwnResponse, Writers, Readers, At
<1>3. OrderInv'
  BY <1>1, <1>2, DispatchKeeps, ResumeWriteKeeps, WrittenKeeps, WriteFailsKeeps,
     ResumeReadKeeps, ReadPacketKeeps, ReadFailsKeeps, ReadRequestKeeps, ExecuteKeeps,
     DisconnectKeeps DEF Next, Coroutine, Server
<1>4. QED
  BY <1>1, <1>3, TypesNext, MutexNext DEF PipeInv, OrderInv

\* The invariant along every run of the pipe: the mutexes' counts, queues and
\* holdoff agree with where the coroutines are, and packets, queues and responses
\* are in the order of their command tokens.
THEOREM PipeInvariant == Spec => []PipeInv
  BY PipeInit, PipeNext, PTL DEF Spec

----
\* The mutexes as locks.

\* The queue behind an owner.
LEMMA OwnedQueue ==
    ASSUME NEW o \in Calls, NEW w \in Seq(Calls)
    PROVE  /\ QueueOf({o}, w) = <<o>> \o w
           /\ QueueOf({o}, w) \in Seq(Calls)
           /\ Len(QueueOf({o}, w)) = Len(w) + 1
           /\ QueueOf({o}, w)[1] = o
           /\ \A i \in 1 .. Len(w) : QueueOf({o}, w)[i + 1] = w[i]
<1>1. (CHOOSE c \in {o} : TRUE) = o
  OBVIOUS
<1>2. QueueOf({o}, w) = <<o>> \o w
  BY <1>1 DEF QueueOf
<1>3. /\ <<o>> \o w \in Seq(Calls)
      /\ Len(<<o>> \o w) = Len(w) + 1
      /\ (<<o>> \o w)[1] = o
      /\ \A i \in 1 .. Len(w) : (<<o>> \o w)[i + 1] = w[i]
  OBVIOUS
<1>4. QED
  BY <1>2, <1>3

\* What Enter and Leave of FifoLock make of a queue.
Enters(q, c, q2) == (\A i \in 1 .. Len(q) : q[i] # c) /\ q2 = Append(q, c)
Leaves(q, q2) == q # <<>> /\ q2 = Tail(q)

\* Lock joins the queue at its end.
LEMMA LockEnters ==
    ASSUME NEW m, NEW waiting \in SUBSET Calls, NEW chosen \in SUBSET Calls,
           NEW owner \in SUBSET Calls, MutexOK(m, waiting, chosen, owner),
           NEW c \in Calls, c \notin waiting, c \notin chosen, c \notin owner,
           NEW first, first = chosen \cup owner,
           NEW next, IsFree(m) => next = {c}, ~IsFree(m) => next = first
    PROVE  Enters(QueueOf(first, m.waiters), c, QueueOf(next, Lock(m, c).waiters))
<1>1. m \in Mutexes /\ m.waiters \in Seq(Calls) /\ Len(m.waiters) \in Nat
  BY DEF MutexOK, Mutexes
<1>2. IsFree(m) <=> first = {}
  BY FreeWithoutOwner
<1>3. \A i \in 1 .. Len(m.waiters) : m.waiters[i] \in Calls /\ m.waiters[i] # c
  <2>1. \A i \in 1 .. Len(m.waiters) : m.waiters[i] \in Calls
    BY <1>1, ElementOfSeq
  <2>2. QED
    BY <2>1 DEF MutexOK
<1>4. CASE IsFree(m)
  <2>1. first = {} /\ m.waiters = <<>>
    BY <1>2, <1>4 DEF MutexOK
  <2>2. Lock(m, c).waiters = <<>>
    BY <1>1, <1>4, <2>1, LockFields
  <2>3. QueueOf({}, m.waiters) = <<>>
    BY <2>1 DEF QueueOf
  <2>4. QueueOf({c}, Lock(m, c).waiters) = <<c>> \o <<>>
    BY <2>2, OwnedQueue, EmptySeq
  <2>5. Append(<<>>, c) = <<c>> /\ <<c>> \o <<>> = <<c>> /\ Len(<<>>) = 0
    OBVIOUS
  <2>6. Enters(<<>>, c, <<c>>)
    BY <2>5 DEF Enters
  <2>7. QED
    BY <1>4, <2>1, <2>3, <2>4, <2>5, <2>6, next = {c}
<1>5. CASE ~IsFree(m)
  <2>1. PICK o \in first : TRUE
    BY <1>2, <1>5
  <2>2. first = {o} /\ o \in Calls /\ o # c
    BY <2>1 DEF MutexOK
  <2> DEFINE q == QueueOf({o}, m.waiters)
             w == Append(m.waiters, c)
             r == QueueOf({o}, w)
             n == Len(m.waiters)
  <2>3. /\ q \in Seq(Calls) /\ Len(q) = n + 1 /\ q[1] = o
        /\ \A i \in 1 .. n : q[i + 1] = m.waiters[i]
    <3>1. m.waiters \in Seq(Calls) /\ o \in Calls
      BY <1>1, <2>2
    <3>2. /\ QueueOf({o}, m.waiters) \in Seq(Calls)
          /\ Len(QueueOf({o}, m.waiters)) = Len(m.waiters) + 1
          /\ QueueOf({o}, m.waiters)[1] = o
          /\ \A i \in 1 .. Len(m.waiters) : QueueOf({o}, m.waiters)[i + 1] = m.waiters[i]
      BY <3>1, OwnedQueue, Zenon
    <3>3. QED
      BY <3>2
  <2>4. Lock(m, c).waiters = w
    BY <1>1, <1>5, LockFields
  <2>5. /\ w \in Seq(Calls) /\ Len(w) = n + 1 /\ w[n + 1] = c
        /\ \A i \in 1 .. n : w[i] = m.waiters[i]
    BY <1>1
  <2> HIDE DEF w
  <2>6. /\ r \in Seq(Calls) /\ Len(r) = n + 2 /\ r[1] = o
        /\ \A i \in 1 .. Len(w) : r[i + 1] = w[i]
    <3>1. /\ r \in Seq(Calls) /\ Len(r) = Len(w) + 1 /\ r[1] = o
          /\ \A i \in 1 .. Len(w) : r[i + 1] = w[i]
      BY <2>2, <2>5, OwnedQueue
    <3>2. n \in Nat
      BY <1>1
    <3> HIDE DEF r, n
    <3>3. QED
      BY <2>5, <3>1, <3>2
  <2> HIDE DEF q, r, n
  <2>a. n \in Nat
    BY <1>1 DEF n
  <2>7. r = Append(q, c)
    <3> DEFINE a == Append(q, c)
    <3>1. /\ a \in Seq(Calls) /\ Len(a) = n + 2 /\ a[n + 2] = c
          /\ \A i \in 1 .. n + 1 : a[i] = q[i]
      BY <2>3, <2>a
    <3> HIDE DEF a
    <3>2. \A i \in 1 .. Len(r) : r[i] = a[i]
      <4>1. SUFFICES ASSUME NEW i \in 1 .. Len(r) PROVE r[i] = a[i]
        OBVIOUS
      <4>2. CASE i = 1
        BY <2>3, <2>6, <2>a, <3>1, <4>2
      <4>3. CASE i = n + 2
        <5>1. r[(n + 1) + 1] = w[n + 1]
          BY <2>5, <2>6, <2>a
        <5>2. QED
          BY <2>5, <2>a, <3>1, <4>3, <5>1
      <4>4. CASE i # 1 /\ i # n + 2
        <5>1. i - 1 \in 1 .. n /\ i \in 1 .. n + 1 /\ (i - 1) + 1 = i
          BY <2>6, <2>a, <4>4
        <5>2. r[(i - 1) + 1] = w[i - 1] /\ q[(i - 1) + 1] = m.waiters[i - 1]
          BY <2>3, <2>5, <2>6, <2>a, <5>1
        <5>3. QED
          BY <2>5, <3>1, <5>1, <5>2
      <4>5. QED
        BY <4>2, <4>3, <4>4
    <3>3. QED
      BY <2>6, <3>1, <3>2, SeqEqual DEF a
  <2>8. \A i \in 1 .. Len(q) : q[i] # c
    <3>1. SUFFICES ASSUME NEW i \in 1 .. Len(q) PROVE q[i] # c
      OBVIOUS
    <3>2. CASE i = 1
      BY <2>2, <2>3, <3>2
    <3>3. CASE i # 1
      <4>1. i - 1 \in 1 .. Len(m.waiters) /\ (i - 1) + 1 = i
        BY <2>3, <2>a, <3>3 DEF n
      <4>2. q[(i - 1) + 1] = m.waiters[i - 1]
        BY <2>3, <4>1 DEF n
      <4>3. QED
        BY <1>3, <4>1, <4>2
    <3>4. QED
      BY <3>2, <3>3
  <2>9. Enters(q, c, r)
    BY <2>7, <2>8 DEF Enters
  <2>10. QED
    BY <1>5, <2>2, <2>4, <2>9, next = first DEF q, r
<1>6. QED
  BY <1>4, <1>5

\* Unlock by the owner takes it off the queue's head.
LEMMA UnlockLeaves ==
    ASSUME NEW m, NEW waiting \in SUBSET Calls, NEW chosen \in SUBSET Calls,
           NEW owner \in SUBSET Calls, MutexOK(m, waiting, chosen, owner),
           NEW c \in owner
    PROVE  Leaves(QueueOf(owner, m.waiters), QueueOf(Chosen(m), Unlock(m).waiters))
<1>1. m \in Mutexes /\ m.waiters \in Seq(Calls) /\ Len(m.waiters) \in Nat
  BY DEF MutexOK, Mutexes
<1>2. owner = {c} /\ c \in Calls
  BY DEF MutexOK
<1>3. ~Ignored(m)
  BY UnlockChooses
<1> DEFINE q == QueueOf({c}, m.waiters)
<1>5. /\ q \in Seq(Calls) /\ Len(q) = Len(m.waiters) + 1
      /\ \A i \in 1 .. Len(m.waiters) : q[i + 1] = m.waiters[i]
  BY <1>1, <1>2, OwnedQueue
<1> HIDE DEF q
<1>6. q # <<>>
  BY <1>1, <1>5, EmptySeq
<1>7. Tail(q) = m.waiters
  <2>1. /\ Tail(q) \in Seq(Calls) /\ Len(Tail(q)) = Len(q) - 1
        /\ \A i \in 1 .. Len(Tail(q)) : Tail(q)[i] = q[i + 1]
    BY <1>5, <1>6, HeadTailProperties
  <2>2. Len(Tail(q)) = Len(m.waiters)
    BY <1>1, <1>5, <2>1
  <2>3. \A i \in 1 .. Len(Tail(q)) : Tail(q)[i] = m.waiters[i]
    BY <1>5, <2>1, <2>2
  <2>4. QED
    BY <1>1, <2>1, <2>2, <2>3, SeqEqual
<1>8. CASE m.waiters = <<>>
  <2>1. Chosen(m) = {}
    BY <1>8, UnlockChooses
  <2>2. Unlock(m).waiters = <<>>
    BY <1>1, <1>3, <1>8, UnlockFields
  <2>3. QueueOf(Chosen(m), Unlock(m).waiters) = m.waiters
    BY <1>8, <2>1, <2>2 DEF QueueOf
  <2>4. Leaves(q, m.waiters)
    BY <1>6, <1>7 DEF Leaves
  <2>5. QED
    BY <1>2, <2>3, <2>4 DEF q
<1>9. CASE m.waiters # <<>>
  <2> DEFINE h == m.waiters[1]
             w == Tail(m.waiters)
  <2>1. Chosen(m) = {h}
    BY <1>9, UnlockChooses
  <2>2. Unlock(m).waiters = w
    BY <1>1, <1>3, <1>9, UnlockFields
  <2>3. /\ w \in Seq(Calls) /\ Len(w) = Len(m.waiters) - 1 /\ h \in Calls
        /\ \A i \in 1 .. Len(w) : w[i] = m.waiters[i + 1]
    BY <1>1, <1>9
  <2> DEFINE r == QueueOf({h}, w)
  <2>4. /\ r \in Seq(Calls) /\ Len(r) = Len(w) + 1 /\ r[1] = h
        /\ \A i \in 1 .. Len(w) : r[i + 1] = w[i]
    <3> HIDE DEF h, w
    <3>1. QED
      BY <2>3, OwnedQueue
  <2> HIDE DEF r
  <2>5. Len(r) = Len(m.waiters)
    BY <1>1, <2>3, <2>4
  <2>6. \A i \in 1 .. Len(r) : r[i] = m.waiters[i]
    <3>1. SUFFICES ASSUME NEW i \in 1 .. Len(r) PROVE r[i] = m.waiters[i]
      OBVIOUS
    <3>2. CASE i = 1
      BY <2>4, <3>2
    <3>3. CASE i # 1
      <4> HIDE DEF w, h
      <4>1. i - 1 \in 1 .. Len(w) /\ (i - 1) + 1 = i
        BY <1>1, <2>3, <2>4, <3>3
      <4>2. r[(i - 1) + 1] = w[i - 1] /\ w[i - 1] = m.waiters[(i - 1) + 1]
        BY <2>3, <2>4, <4>1
      <4>3. QED
        BY <4>1, <4>2
    <3>4. QED
      BY <3>2, <3>3
  <2>7. r = m.waiters
    BY <1>1, <2>4, <2>5, <2>6, SeqEqual
  <2>8. Leaves(q, r)
    BY <1>6, <1>7, <2>7 DEF Leaves
  <2>9. QED
    BY <1>2, <2>1, <2>2, <2>8 DEF q, r
<1>10. QED
  BY <1>8, <1>9

LEMMA WriteLockNext ==
    PipeInv /\ [Next]_vars => [WriteLock!Next]_WriteQueue
<1> SUFFICES ASSUME PipeInv, [Next]_vars PROVE [WriteLock!Next]_WriteQueue
  OBVIOUS
<1> DEFINE first == At({"writing", "wakeWrite"})
<1>w. MutexOK(writeMtx, At({"waitWrite"}), At({"wakeWrite"}), At({"writing"}))
  BY DEF PipeInv, MutexInv
<1>a. /\ At({"waitWrite"}) \in SUBSET Calls /\ At({"wakeWrite"}) \in SUBSET Calls
      /\ At({"writing"}) \in SUBSET Calls
      /\ first = At({"wakeWrite"}) \cup At({"writing"})
  BY DEF At
<1>m. writeMtx \in Mutexes
  BY <1>w DEF MutexOK
<1>q. WriteQueue = QueueOf(first, writeMtx.waiters)
  BY DEF WriteQueue
<1>qq. WriteQueue' = QueueOf(first', writeMtx'.waiters)
  BY DEF WriteQueue
<1> HIDE DEF first
<1>1. ASSUME NEW c \in Calls, Dispatch(c)
      PROVE  WriteLock!Next
  <2>1. c \notin At({"waitWrite"}) /\ c \notin At({"wakeWrite"}) /\ c \notin At({"writing"})
    BY <1>1 DEF Dispatch, At
  <2>2. first' = IF IsFree(writeMtx) THEN {c} ELSE first
    <3>1. first' = IF IsFree(writeMtx) THEN first \cup {c} ELSE first
      BY <1>1 DEF Dispatch, Places, At, first
    <3>2. IsFree(writeMtx) => first = {}
      BY <1>a, <1>w, FreeWithoutOwner
    <3>3. QED
      BY <3>1, <3>2
  <2>3. WriteQueue' = QueueOf(first', Lock(writeMtx, c).waiters)
    BY <1>1, <1>qq DEF Dispatch
  <2>4. Enters(WriteQueue, c, WriteQueue')
    <3>1. (IsFree(writeMtx) => first' = {c}) /\ (~IsFree(writeMtx) => first' = first)
      BY <2>2
    <3>2. Enters(QueueOf(first, writeMtx.waiters), c, QueueOf(first', Lock(writeMtx, c).waiters))
      BY <1>a, <1>w, <2>1, <3>1, LockEnters
    <3>3. QED
      BY <1>q, <2>3, <3>2
  <2>5. WriteLock!Enter(c)
    BY <2>4 DEF WriteLock!Enter, Enters
  <2>6. QED
    BY <2>5 DEF WriteLock!Next
<1>2. ASSUME NEW c \in Calls, Written(c) \/ WriteFails(c)
      PROVE  WriteLock!Next
  <2>1. c \in At({"writing"})
    BY <1>2 DEF Written, WriteFails, At
  <2>2. At({"writing"}) = {c} /\ At({"wakeWrite"}) = {}
    BY <1>w, <2>1 DEF MutexOK
  <2>3. \A d \in Chosen(writeMtx) : d \in At({"waitWrite"})
    BY <1>a, <1>w, <2>1, UnlockChooses
  <2>4. /\ \A d \in Calls : d # c => pc'[d] = IF d \in Chosen(writeMtx) THEN "wakeWrite" ELSE pc[d]
        /\ pc'[c] \in {"done", "reading", "waitRead", "failed"}
    BY <1>2 DEF Written, WriteFails, Places
  <2>5. first' = Chosen(writeMtx)
    BY <2>1, <2>2, <2>3, <2>4 DEF At, first
  <2>6. WriteQueue' = QueueOf(first', Unlock(writeMtx).waiters)
    BY <1>2, <1>qq DEF Written, WriteFails
  <2>7. Leaves(WriteQueue, WriteQueue')
    <3>1. Leaves(QueueOf(At({"writing"}), writeMtx.waiters),
                 QueueOf(Chosen(writeMtx), Unlock(writeMtx).waiters))
      BY <1>a, <1>w, <2>1, UnlockLeaves
    <3>2. first = At({"writing"})
      BY <1>a, <2>2
    <3>3. QED
      BY <1>q, <2>5, <2>6, <3>1, <3>2
  <2>8. QED
    BY <2>7 DEF WriteLock!Next, WriteLock!Leave, Leaves
<1>3. ASSUME NEW c \in Calls, ResumeWrite(c)
      PROVE  UNCHANGED WriteQueue
  <2>1. first' = first
    BY <1>3 DEF ResumeWrite, Places, At, first
  <2>2. writeMtx'.waiters = writeMtx.waiters
    BY <1>3, <1>m DEF ResumeWrite, Resumed, Mutexes
  <2>3. QED
    BY <1>q, <1>qq, <2>1, <2>2
<1>4. ASSUME NEW c \in Calls, ResumeRead(c) \/ ReadPacket(c) \/ ReadFails(c)
      PROVE  UNCHANGED WriteQueue
  <2>r. MutexOK(readMtx, At({"waitRead"}), At({"wakeRead"}), At({"reading"}))
    BY DEF PipeInv, MutexInv
  <2>1. \A d \in Chosen(readMtx) : pc[d] = "waitRead"
    <3>1. At({"waitRead"}) \in SUBSET Calls /\ At({"wakeRead"}) \in SUBSET Calls
          /\ At({"reading"}) \in SUBSET Calls
      BY DEF At
    <3>2. \A d \in Chosen(readMtx) : d \in At({"waitRead"})
      BY <2>r, <3>1, FreeWithoutOwner DEF Chosen
    <3>3. QED
      BY <3>2 DEF At
  <2>2. first' = first
    BY <1>4, <2>1 DEF ResumeRead, ReadPacket, ReadFails, Places, At, first
  <2>3. writeMtx' = writeMtx
    BY <1>4 DEF ResumeRead, ReadPacket, ReadFails
  <2>4. QED
    BY <1>q, <1>qq, <2>2, <2>3
<1>5. ASSUME UNCHANGED <<writeMtx, pc>>
      PROVE  UNCHANGED WriteQueue
  <2>1. first' = first
    BY <1>5 DEF At, first
  <2>2. QED
    BY <1>5, <1>q, <1>qq, <2>1
<1>6. QED
  BY <1>1, <1>2, <1>3, <1>4, <1>5
     DEF Next, Coroutine, Server, ReadRequest, Execute, Disconnect, vars

LEMMA ReadLockNext ==
    PipeInv /\ [Next]_vars => [ReadLock!Next]_ReadQueue
<1> SUFFICES ASSUME PipeInv, [Next]_vars PROVE [ReadLock!Next]_ReadQueue
  OBVIOUS
<1> DEFINE first == At({"reading", "wakeRead"})
<1>w. MutexOK(writeMtx, At({"waitWrite"}), At({"wakeWrite"}), At({"writing"}))
  BY DEF PipeInv, MutexInv
<1>r. MutexOK(readMtx, At({"waitRead"}), At({"wakeRead"}), At({"reading"}))
  BY DEF PipeInv, MutexInv
<1>a. /\ At({"waitRead"}) \in SUBSET Calls /\ At({"wakeRead"}) \in SUBSET Calls
      /\ At({"reading"}) \in SUBSET Calls
      /\ first = At({"wakeRead"}) \cup At({"reading"})
  BY DEF At
<1>b. /\ At({"waitWrite"}) \in SUBSET Calls /\ At({"wakeWrite"}) \in SUBSET Calls
      /\ At({"writing"}) \in SUBSET Calls
  BY DEF At
<1>c. \A d \in Chosen(writeMtx) : pc[d] = "waitWrite"
  <2>1. \A d \in Chosen(writeMtx) : d \in At({"waitWrite"})
    BY <1>b, <1>w, FreeWithoutOwner DEF Chosen
  <2>2. QED
    BY <2>1 DEF At
<1>m. readMtx \in Mutexes
  BY <1>r DEF MutexOK
<1>q. ReadQueue = QueueOf(first, readMtx.waiters)
  BY DEF ReadQueue
<1>qq. ReadQueue' = QueueOf(first', readMtx'.waiters)
  BY DEF ReadQueue
<1> HIDE DEF first
<1>1. ASSUME NEW c \in Calls, Written(c), c \notin Events
      PROVE  ReadLock!Next
  <2>1. c \notin At({"waitRead"}) /\ c \notin At({"wakeRead"}) /\ c \notin At({"reading"})
    BY <1>1 DEF Written, At
  <2>2. first' = IF IsFree(readMtx) THEN {c} ELSE first
    <3>1. /\ \A d \in Calls : d # c => pc'[d] = IF d \in Chosen(writeMtx) THEN "wakeWrite" ELSE pc[d]
          /\ pc'[c] = IF IsFree(readMtx) THEN "reading" ELSE "waitRead"
      BY <1>1 DEF Written, Places
    <3>2. first' = IF IsFree(readMtx) THEN first \cup {c} ELSE first
      BY <1>1, <1>c, <2>1, <3>1 DEF At, first
    <3>3. IsFree(readMtx) => first = {}
      BY <1>a, <1>r, FreeWithoutOwner
    <3>4. QED
      BY <3>2, <3>3
  <2>3. ReadQueue' = QueueOf(first', Lock(readMtx, c).waiters)
    BY <1>1, <1>qq DEF Written
  <2>4. Enters(ReadQueue, c, ReadQueue')
    <3>1. (IsFree(readMtx) => first' = {c}) /\ (~IsFree(readMtx) => first' = first)
      BY <2>2
    <3>2. Enters(QueueOf(first, readMtx.waiters), c, QueueOf(first', Lock(readMtx, c).waiters))
      BY <1>a, <1>r, <2>1, <3>1, LockEnters
    <3>3. QED
      BY <1>q, <2>3, <3>2
  <2>5. ReadLock!Enter(c)
    BY <2>4 DEF ReadLock!Enter, Enters
  <2>6. QED
    BY <2>5 DEF ReadLock!Next
<1>2. ASSUME NEW c \in Calls, ReadPacket(c) \/ ReadFails(c)
      PROVE  ReadLock!Next
  <2>1. c \in At({"reading"})
    BY <1>2 DEF ReadPacket, ReadFails, At
  <2>2. At({"reading"}) = {c} /\ At({"wakeRead"}) = {}
    BY <1>r, <2>1 DEF MutexOK
  <2>3. \A d \in Chosen(readMtx) : d \in At({"waitRead"})
    BY <1>a, <1>r, <2>1, UnlockChooses
  <2>4. /\ \A d \in Calls : d # c => pc'[d] = IF d \in Chosen(readMtx) THEN "wakeRead" ELSE pc[d]
        /\ pc'[c] \in {"done", "failed"}
    BY <1>2 DEF ReadPacket, ReadFails, Places
  <2>5. first' = Chosen(readMtx)
    BY <2>1, <2>2, <2>3, <2>4 DEF At, first
  <2>6. ReadQueue' = QueueOf(first', Unlock(readMtx).waiters)
    BY <1>2, <1>qq DEF ReadPacket, ReadFails
  <2>7. Leaves(ReadQueue, ReadQueue')
    <3>1. Leaves(QueueOf(At({"reading"}), readMtx.waiters),
                 QueueOf(Chosen(readMtx), Unlock(readMtx).waiters))
      BY <1>a, <1>r, <2>1, UnlockLeaves
    <3>2. first = At({"reading"})
      BY <1>a, <2>2
    <3>3. QED
      BY <1>q, <2>5, <2>6, <3>1, <3>2
  <2>8. QED
    BY <2>7 DEF ReadLock!Next, ReadLock!Leave, Leaves
<1>3. ASSUME NEW c \in Calls, ResumeRead(c)
      PROVE  UNCHANGED ReadQueue
  <2>1. first' = first
    BY <1>3 DEF ResumeRead, Places, At, first
  <2>2. readMtx'.waiters = readMtx.waiters
    BY <1>3, <1>m DEF ResumeRead, Resumed, Mutexes
  <2>3. QED
    BY <1>q, <1>qq, <2>1, <2>2
<1>4. ASSUME NEW c \in Calls,
             Dispatch(c) \/ ResumeWrite(c) \/ (Written(c) /\ c \in Events) \/ WriteFails(c)
      PROVE  UNCHANGED ReadQueue
  <2>1. first' = first
    BY <1>4, <1>c DEF Dispatch, ResumeWrite, Written, WriteFails, Places, At, first
  <2>2. readMtx' = readMtx
    BY <1>4 DEF Dispatch, ResumeWrite, Written, WriteFails
  <2>3. QED
    BY <1>q, <1>qq, <2>1, <2>2
<1>5. ASSUME UNCHANGED <<readMtx, pc>>
      PROVE  UNCHANGED ReadQueue
  <2>1. first' = first
    BY <1>5 DEF At, first
  <2>2. QED
    BY <1>5, <1>q, <1>qq, <2>1
<1>6. QED
  BY <1>1, <1>2, <1>3, <1>4, <1>5
     DEF Next, Coroutine, Server, ReadRequest, Execute, Disconnect, vars
----
\* What the invariant says of the properties.

\* The variables keep their types, and counter_ of each CoroMutex counts its owner
\* and those that wait in Lock.
THEOREM TypeCorrect == Spec => []TypeOK
<1>1. PipeInv => TypeOK
  <2>1. SUFFICES ASSUME PipeInv PROVE TypeOK
    OBVIOUS
  <2>2. /\ At({"waitWrite"}) \cup At({"wakeWrite"}) \cup At({"writing"})
             = At({"waitWrite", "wakeWrite", "writing"})
        /\ At({"waitRead"}) \cup At({"wakeRead"}) \cup At({"reading"})
             = At({"waitRead", "wakeRead", "reading"})
    BY DEF At
  <2>3. /\ MutexOK(writeMtx, At({"waitWrite"}), At({"wakeWrite"}), At({"writing"}))
        /\ MutexOK(readMtx, At({"waitRead"}), At({"wakeRead"}), At({"reading"}))
    BY <2>1 DEF PipeInv, MutexInv
  <2>4. /\ writeMtx.counter = Cardinality(At({"waitWrite", "wakeWrite", "writing"}))
        /\ readMtx.counter = Cardinality(At({"waitRead", "wakeRead", "reading"}))
    BY <2>2, <2>3 DEF MutexOK
  <2>5. writeMtx \in Mutexes /\ readMtx \in Mutexes
    BY <2>3 DEF MutexOK
  <2>6. /\ writeMtx.waiters \in Seq(Calls) /\ readMtx.waiters \in Seq(Calls)
        /\ writeMtx.holdoff \in BOOLEAN /\ readMtx.holdoff \in BOOLEAN
    BY <2>5 DEF Mutexes
  <2>7. QED
    BY <2>1, <2>4, <2>6 DEF PipeInv, Types, TypeOK
<1>2. QED
  BY <1>1, PipeInvariant, PTL

\* The lock_guards of ReadPacket and WritePacket keep two coroutines from an
\* overlapped read or write of one pipe.
THEOREM NeverOverlapped == Spec => []OneAtATime
<1>1. PipeInv => OneAtATime
  BY DEF PipeInv, MutexInv, MutexOK, OneAtATime
<1>2. QED
  BY <1>1, PipeInvariant, PTL

\* SyncRequest takes the next packet for its response without looking at its
\* token, and it is the response to the request the call sent.
THEOREM ResponsesAreOwn == Spec => []OwnResponse
<1>1. PipeInv => OwnResponse
  BY DEF PipeInv
<1>2. QED
  BY <1>1, PipeInvariant, PTL

\* CoroMutex, with its count, queue and holdoff, implements a lock that is handed
\* on in the order in which it was asked for.
THEOREM MutexesImplementLocks == Spec => LocksAreFifo
<1>1. Init => WriteLock!Init /\ ReadLock!Init
  <2>1. SUFFICES ASSUME Init PROVE WriteQueue = <<>> /\ ReadQueue = <<>>
    BY DEF WriteLock!Init, ReadLock!Init
  <2>2. At({"writing", "wakeWrite"}) = {} /\ At({"reading", "wakeRead"}) = {}
    BY <2>1 DEF Init, At
  <2>3. writeMtx.waiters = <<>> /\ readMtx.waiters = <<>>
    BY <2>1 DEF Init, Free
  <2>4. QED
    BY <2>2, <2>3 DEF WriteQueue, ReadQueue, QueueOf
<1>2. QED
  BY <1>1, WriteLockNext, ReadLockNext, PipeInvariant, PTL
     DEF Spec, LocksAreFifo, WriteLock!Spec, ReadLock!Spec
====
