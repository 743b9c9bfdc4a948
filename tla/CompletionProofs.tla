---- MODULE CompletionProofs ----
(***************************************************************************)
(* Proofs about the completion of presents, for every set of threads and   *)
(* processes, ring size and number of presents.                            *)
(*                                                                         *)
(* A present ends up in one place because of Tables (which tables hold a   *)
(* present, by how far its completion is) and Kept (the ring, what was     *)
(* handed over and what was dropped have the completed ones, each once).   *)
(* Both need Stacked: a completed present is on the stack once or not at   *)
(* all.  Iterating says that an iterator stands on a present that is       *)
(* tracked; that none is erased below it follows from InOrder: a call      *)
(* within that of p is for an earlier present of its chain, which the      *)
(* iterator has passed, or for one of another process.  InOrder is also    *)
(* the bound of the recursion and the order of display.  OnThreads is what *)
(* the threads lead to; Waiting ties it to the present that a Present_Stop *)
(* is to come for, and Fresh is what the first completion leaves.  Listed  *)
(* is the list of those that wait for DWM, where dependents come from.     *)
(***************************************************************************)
EXTENDS Completion, PresentRingProofs, SequenceTheorems

----
\* The invariant.

Early(p) == at[p] \in {"deps", "earlier", "stop"}
Open(p) == p \in Created /\ p \notin completed
SameChain(p, q) == Process(p) = Process(q) /\ swap[p] = swap[q]

Tables ==
    /\ \A p \in Presents : p \in ordered <=> p \in Placed /\ (p \in completed => Early(p))
    /\ \A i \in 0 .. RingSize - 1 :
         tracked[i] # NoPresent => tracked[i] \in ordered /\ index[tracked[i]] = i + 1
    /\ \A p \in ordered : index[p] # None /\ tracked[index[p] - 1] = p
    /\ \A p \in Presents : p \notin ordered => index[p] = None
    /\ placing = "place" => tracked[next] = NoPresent \/ tracked[next] \in completed

Stacked ==
    /\ \A i \in 1 .. Len(stack) : stack[i] = Discarding => i = 1 /\ placing = "no" /\ ~hasCompleted
    /\ \A i, j \in 1 .. Len(stack) : stack[i] = stack[j] => i = j
    /\ \A i \in 1 .. Len(stack) : stack[i] # Discarding => stack[i] \in completed /\ at[stack[i]] # "none"
    /\ \A i \in 1 .. Len(stack) - 1 : stack[i] # Discarding => at[stack[i]] \in {"deps", "earlier"}
    /\ \A p \in Presents : at[p] # "none" => \E i \in 1 .. Len(stack) : stack[i] = p
    /\ placing # "no" => created > 0 /\ created \notin completed

Iterating ==
    /\ \A p \in Presents : \A i \in 1 .. Len(deps[p]) :
         /\ p \in Created /\ Process(p) = DwmProcess
         /\ deps[p][i] \in Created /\ Process(deps[p][i]) # DwmProcess
         /\ placing # "no" => deps[p][i] # created
    /\ \A p \in Presents : at[p] = "deps" => iter[p] <= Len(deps[p])
    /\ \A p \in Presents : at[p] = "earlier" /\ iter[p] # NoPresent =>
         iter[p] \in ordered /\ Process(iter[p]) = Process(p)

\* A present that waits for DWM is in the list once, unless it is of a composition
\* surface; the flag tells so, except of such a one that was in it twice and is not
\* tracked any more.
Listed ==
    /\ \A i \in 1 .. Len(waitingForDWM) :
         /\ waitingForDWM[i] \in Created /\ Process(waitingForDWM[i]) # DwmProcess
         /\ placing # "no" => waitingForDWM[i] # created
         /\ waitingForDWM[i] \in inDwm \/
              (waitingForDWM[i] \in Surfaces /\ waitingForDWM[i] \notin ordered)
    /\ \A i, j \in 1 .. Len(waitingForDWM) :
         waitingForDWM[i] = waitingForDWM[j] => i = j \/ waitingForDWM[i] \in Surfaces
    /\ \A p \in inDwm : \E i \in 1 .. Len(waitingForDWM) : waitingForDWM[i] = p

Fresh ==
    ~hasCompleted =>
        /\ completed \subseteq lost /\ waitStop = {} /\ waitType = {}
        /\ \A p \in Presents : at[p] = "deps" =>
             \A i \in 1 .. Len(deps[p]) : deps[p][i] \in lost

Waiting ==
    /\ waitStop \subseteq completed /\ waitStop \subseteq running
    /\ \A q \in waitType : q \in completed \/
         \E p \in Presents : at[p] = "deps" /\ \E i \in 1 .. Len(deps[p]) :
            i <= iter[p] /\ deps[p][i] = q

\* Thread t leads to no present, to one in flight, or to one for its Present_Stop.
Leads(t) ==
    byThread[t] # NoPresent =>
        \/ byThread[t] \notin completed
        \/ Early(byThread[t])
        \/ byThread[t] \in waitStop /\ t = tid[byThread[t]]

\* The thread of the runtime's present p leads to it.
Led(p) == (p = created /\ placing # "no") \/ byThread[tid[p]] = p

\* The present that SetThreadPresent found leaves the thread, or has left it.
Vacated ==
    placing = "emplace" /\ byThread[tid[created]] # NoPresent =>
        Early(byThread[tid[created]]) /\ byThread[tid[created]] \notin waitStop

OnThreads ==
    /\ \A p \in Created : tid[p] \in Threads
    /\ \A p \in Presents : driver[p] # None => p \in Created
    /\ \A t \in Threads : byThread[t] # NoPresent =>
         /\ byThread[t] \in Created
         /\ t = tid[byThread[t]] \/ t = driver[byThread[t]]
    /\ \A t \in Threads : Leads(t)
    /\ \A p \in waitStop : byThread[tid[p]] = p
    /\ \A p \in running : p \notin completed => Led(p)
    /\ \A p \in running : driver[p] # tid[p]
    /\ placing # "no" => \A t \in Threads : byThread[t] # created
    /\ Vacated

\* Frame i is below frame j.
Below(i, j) == i < j /\ stack[i] # Discarding
Alike(i, j) == Process(stack[i]) = Process(stack[j])

\* Frame j was begun for an earlier present of frame i's swap chain, or frame i is
\* of DWM and frame j of an application.
Nests(i, j) ==
    \/ Alike(i, j) /\ stack[j] < stack[i]
    \/ Process(stack[i]) = DwmProcess /\ Process(stack[j]) # DwmProcess

\* All presents of its chain before p are completed.
Passed(p) == \A r \in Created : r < p /\ SameChain(r, p) => r \in completed

\* Nothing is left for frame j to begin, and the iterator of frame i is past it.
Ends(i, j) ==
    /\ swap[stack[i]] = swap[stack[j]]
    /\ Passed(stack[j])
    /\ at[stack[i]] = "earlier" /\ iter[stack[i]] # NoPresent => stack[j] < iter[stack[i]]
    /\ stack[1] = Discarding => i # 2

\* What the iterator of p has passed is completed.
Ahead(p) ==
    at[p] = "earlier" =>
        \A r \in Created : r < p /\ SameChain(r, p) =>
            r \in completed \/ (iter[p] # NoPresent /\ iter[p] <= r)

InOrder ==
    /\ \A i, j \in 1 .. Len(stack) : Below(i, j) => Nests(i, j)
    /\ \A i, j \in 1 .. Len(stack) : Below(i, j) /\ Alike(i, j) => Ends(i, j)
    /\ \A i, j, k \in 1 .. Len(stack) : Below(i, j) /\ j < k => ~(Alike(i, j) /\ Alike(j, k))
    /\ Len(stack) >= 2 /\ stack[1] = Discarding =>
         \A r \in Created : Process(r) = Process(stack[2]) /\ r <= stack[2] => r \in completed
    /\ \A p \in Presents : Ahead(p)
    /\ \A p \in Presents : at[p] \in {"stop", "store"} /\ final[p] = "Presented" => Passed(p)

Numbers == 0 .. MaxPresents

Kept ==
    /\ RingOK(ring, Numbers)
    /\ Distinct(ring)
    /\ \A p \in Presents : p \in completed /\ at[p] = "none" <=>
                             p \in Entries(ring) \/ p \in handed \/ p \in dropped
    /\ Entries(ring) \cap handed = {} /\ Entries(ring) \cap dropped = {} /\ handed \cap dropped = {}
    /\ Entries(ring) \subseteq Presents

IInv ==
    /\ TypeOK /\ Tables /\ Stacked /\ Listed /\ Iterating /\ Fresh /\ Waiting /\ OnThreads /\ InOrder
    /\ Kept

----
\* The steps.

LEMMA BoundIsNat == MaxPresents \in Nat
BY CompletionAssumption DEF MaxPresents

LEMMA CreatedArePresents ==
    ASSUME TypeOK
    PROVE  /\ created \in Nat
           /\ \A p \in Created : p \in Presents
           /\ \A p \in Presents : p \in Nat /\ p # 0
           /\ \A p \in Presents : p \in Created <=> p <= created
BY BoundIsNat DEF TypeOK, Created, Presents

\* What is marked of p when its completion begins, the iterators being as in it.
Marked(p, it) ==
    /\ completed' = completed \cup {p}
    /\ lost \subseteq lost' /\ lost' \subseteq Created
    /\ p \in lost' => \A i \in 1 .. Len(deps[p]) : deps[p][i] \in lost'
    /\ waitStop' = IF p \in running' /\ p \notin lost' THEN waitStop \cup {p} ELSE waitStop
    /\ p \in lost' => waitType' = waitType
    /\ \A q \in waitType' : \/ q \in waitType \/ q = p
                            \/ \E i \in 1 .. Len(deps[p]) : deps[p][i] = q
    /\ final' \in [Presents -> Finals]
    /\ \A q \in completed : final'[q] = final[q]
    /\ stack' = Append(stack, p)
    /\ at' = [at EXCEPT ![p] = "deps"]
    /\ iter' = [it EXCEPT ![p] = Len(deps[p])]

LEMMA MarkedIs ==
    ASSUME NEW p \in Created, p \notin completed,
           NEW l \in SUBSET Created, lost \subseteq l,
           NEW f \in [Presents -> Finals], \A q \in completed : f[q] = final[q],
           NEW it,
           \A i \in 1 .. Len(deps[p]) : deps[p][i] \in Created,
           TypeOK, MarkCompleted(p, l, f, it)
    PROVE  Marked(p, it) /\ (p \in l => p \in lost')
<1>. DEFINE D == MembersOf(deps[p])
<1>1. p \in Presents /\ Created \subseteq Presents
  BY CreatedArePresents
<1>2. DOMAIN deps[p] = 1 .. Len(deps[p])
  BY <1>1 DEF TypeOK
<1>3. /\ \A q : q \in D <=> \E i \in 1 .. Len(deps[p]) : deps[p][i] = q
      /\ D \subseteq Created
  BY <1>2 DEF MembersOf
<1>. HIDE DEF D
<1>4. PICK wait \in {{}, {p}} :
         /\ p \in l => wait = {}
         /\ SettleDependents(p, l, f, waitType \cup wait)
  <2>. DEFINE W == IF p \notin l /\ f[p] = "Presented" THEN {{}, {p}} ELSE {{}}
              Settles(w) == SettleDependents(p, l, f, waitType \cup w)
  <2>1. \E wait \in W : Settles(wait)
    BY DEF MarkCompleted
  <2>2. \A w \in W : w \in {{}, {p}} /\ (p \in l => w = {})
    OBVIOUS
  <2>. HIDE DEF W, Settles
  <2>3. PICK w \in W : Settles(w)
    BY <2>1
  <2>4. w \in {{}, {p}} /\ (p \in l => w = {})
    BY <2>2
  <2>5. SettleDependents(p, l, f, waitType \cup w)
    BY <2>3 DEF Settles
  <2>. QED BY <2>4, <2>5, Zenon
<1>5. /\ l \subseteq lost' /\ lost' \subseteq Created
      /\ p \in l => D \subseteq lost' /\ lost' = l \cup D
      /\ p \notin l => lost' = l
      /\ p \in l => waitType' = waitType
      /\ \A q \in waitType' : q \in waitType \/ q = p \/ q \in D
      /\ final' \in [Presents -> Finals]
      /\ \A q \in completed : final'[q] = f[q]
  <2>1. CASE p \in l
    <3>1. lost' = l \cup D /\ final' = f /\ waitType' = waitType
      BY <1>4, <2>1, Zenon DEF SettleDependents, D
    <3>. QED BY <1>3, <2>1, <3>1
  <2>2. CASE p \notin l
    <3>1. lost' = l
      BY <1>4, <2>2, Zenon DEF SettleDependents
    <3>2. PICK superseded \in SUBSET (D \ completed), alike \in SUBSET (D \ completed) :
             /\ final' = [q \in Presents |-> IF q \in superseded THEN "Discarded"
                                             ELSE IF q \in alike THEN f[p] ELSE f[q]]
             /\ waitType' = IF p \in waitType \cup wait THEN waitType \cup wait \cup alike
                            ELSE (waitType \cup wait) \ alike
      BY <1>4, <2>2 DEF SettleDependents, D
    <3>3. final' \in [Presents -> Finals]
      BY <1>1, <3>2 DEF Finals
    <3>4. \A q \in completed : final'[q] = f[q]
      <4>1. completed \subseteq Presents
        BY <1>1 DEF TypeOK
      <4>. QED BY <3>2, <4>1
    <3>5. \A q \in waitType' : q \in waitType \/ q = p \/ q \in D
      BY <1>4, <3>2
    <3>. QED BY <2>2, <3>1, <3>3, <3>4, <3>5
  <2>. QED BY <2>1, <2>2
<1>6. p \in lost' <=> p \in l
  BY <1>5
<1>7. /\ completed' = completed \cup {p}
      /\ waitStop' = IF p \in running' /\ p \notin l THEN waitStop \cup {p} ELSE waitStop
      /\ stack' = Append(stack, p)
      /\ at' = [at EXCEPT ![p] = "deps"]
      /\ iter' = [it EXCEPT ![p] = Len(deps[p])]
  BY DEF MarkCompleted
<1>. QED BY <1>3, <1>5, <1>6, <1>7 DEF Marked

\* The completion of p begins: for an event or a new present ...
FromEvent(p) ==
    /\ stack = <<>>
    /\ Marked(p, iter)
    /\ \/ placing = "no" /\ placing' = "no"
       \/ placing = "evict" /\ placing' = "place" /\ p = tracked[next]
       \/ /\ placing = "clear" /\ placing' = "emplace"
          /\ p = byThread[tid[created]] /\ p \in lost'

\* ... in the first completion ...
FromDiscarding(p) ==
    /\ stack # <<>> /\ Top = Discarding
    /\ Marked(p, iter)
    /\ \A r \in OrderedOf(Process(p)) : p <= r
    /\ UNCHANGED placing

\* ... as a dependent present ...
FromDependents(p) ==
    /\ At("deps") /\ iter[Top] > 0
    /\ p = deps[Top][iter[Top]]
    /\ Marked(p, [iter EXCEPT ![Top] = @ - 1])
    /\ UNCHANGED placing

\* ... and as an earlier one.
FromEarlier(p) ==
    /\ At("earlier") /\ iter[Top] \in 1 .. Top - 1
    /\ p = iter[Top]
    /\ swap[p] = swap[Top]
    /\ \E n \in 0 .. created :
         /\ IsFirst(n, {r \in OrderedOf(Process(Top)) : r > p})
         /\ Marked(p, [iter EXCEPT ![Top] = n])
    /\ UNCHANGED placing

Begins(p) ==
    /\ p \in ordered /\ p \notin completed
    /\ hasCompleted \/ p \in lost'
    /\ running' \subseteq running /\ waitStop \subseteq running'
    /\ UNCHANGED <<created, tid, swap, next, driver, deps, tableVars, byThread, hasCompleted, ring,
                   outVars>>
    /\ FromEvent(p) \/ FromDiscarding(p) \/ FromDependents(p) \/ FromEarlier(p)

\* The first completion begins.
BeginsDiscarding ==
    /\ Idle /\ ~hasCompleted
    /\ stack' = Append(stack, Discarding)
    /\ final' \in [Presents -> Finals]
    /\ \A q \in completed : final'[q] = final[q]
    /\ running' \subseteq running /\ waitStop \subseteq running'
    /\ UNCHANGED <<newVars, driver, flagVars, deps, tableVars, byThread, hasCompleted, ring, outVars,
                   at, iter>>

\* A loop goes on without a completion.
SkipsDependent ==
    /\ At("deps") /\ iter[Top] > 0
    /\ deps[Top][iter[Top]] \in completed
    /\ iter' = [iter EXCEPT ![Top] = @ - 1]
    /\ UNCHANGED <<newVars, driver, final, running, flagVars, deps, tableVars, byThread,
                   hasCompleted, ring, outVars, stack, at>>

SkipsEarlier ==
    /\ At("earlier") /\ iter[Top] \in 1 .. Top - 1
    /\ swap[iter[Top]] # swap[Top] \/ iter[Top] \in completed
    /\ \E n \in 0 .. created :
         /\ IsFirst(n, {r \in OrderedOf(Process(Top)) : r > iter[Top]})
         /\ iter' = [iter EXCEPT ![Top] = n]
    /\ lost \subseteq lost' /\ lost' \subseteq Created
    /\ UNCHANGED <<newVars, driver, final, running, completed, waitStop, waitType, deps, tableVars,
                   byThread, hasCompleted, ring, outVars, stack, at>>

\* A completed present is lost.
LosesCompleted(p) ==
    /\ stack = <<>>
    /\ p \in Created /\ p \in completed
    /\ lost' = lost \cup {p}
    /\ waitStop' = waitStop \ {p}
    /\ IF p \in waitStop
       THEN /\ byThread' = Off({tid[p], driver[p]}, p)
            /\ ring' = UpdateReadyCount(ring, (waitStop \ {p}) \cup waitType)
       ELSE UNCHANGED <<byThread, ring>>
    /\ \/ placing = "no" /\ placing' = "no"
       \/ placing = "clear" /\ placing' = "emplace" /\ p = byThread[tid[created]]
    /\ UNCHANGED <<created, tid, swap, next, driver, final, running, completed, waitType, deps,
                   tableVars, hasCompleted, outVars, callVars>>

\* There is no present in the way of a new one.
EvictsNothing ==
    /\ stack = <<>>
    /\ \/ placing = "evict" /\ placing' = "place" /\ tracked[next] = NoPresent
       \/ placing = "clear" /\ placing' = "emplace" /\ byThread[tid[created]] = NoPresent
    /\ UNCHANGED <<created, tid, swap, next, driver, final, running, flagVars, deps, tableVars,
                   byThread, hasCompleted, ring, outVars, callVars>>

LEMMA StackIs ==
    ASSUME TypeOK
    PROVE  /\ Len(stack) \in Nat /\ DOMAIN stack = 1 .. Len(stack)
           /\ stack = <<>> <=> Len(stack) = 0
           /\ \A i \in 1 .. Len(stack) : stack[i] \in 0 .. MaxPresents
           /\ \A p \in Presents :
                /\ Len(deps[p]) \in Nat /\ DOMAIN deps[p] = 1 .. Len(deps[p])
                /\ \A i \in 1 .. Len(deps[p]) : deps[p][i] \in Presents
<1>1. stack \in Seq(0 .. MaxPresents)
  BY DEF TypeOK
<1>2. /\ Len(stack) \in Nat /\ DOMAIN stack = 1 .. Len(stack)
      /\ stack = <<>> <=> Len(stack) = 0
  <2>1. Len(stack) \in Nat /\ DOMAIN stack = 1 .. Len(stack)
    BY <1>1, LenProperties
  <2>2. Len(<<>>) = 0 /\ (stack # <<>> => Len(stack) \in Nat \ {0})
    BY <1>1, EmptySeq
  <2>. QED BY <2>1, <2>2
<1>3. \A i \in 1 .. Len(stack) : stack[i] \in 0 .. MaxPresents
  BY <1>1, ElementOfSeq
<1>4. ASSUME NEW p \in Presents
      PROVE  /\ Len(deps[p]) \in Nat /\ DOMAIN deps[p] = 1 .. Len(deps[p])
             /\ \A i \in 1 .. Len(deps[p]) : deps[p][i] \in Presents
  <2>1. deps[p] \in Seq(Presents)
    BY DEF TypeOK
  <2>. QED BY <2>1
<1>. QED BY <1>2, <1>3, <1>4

\* No completion is under way.
LEMMA IdleIs ==
    ASSUME IInv, stack = <<>>
    PROVE  /\ \A p \in Presents : at[p] = "none"
           /\ \A p \in Presents : p \in ordered <=> p \in Placed /\ p \notin completed
<1>1. Len(stack) = 0
  BY StackIs DEF IInv
<1>2. \A p \in Presents : at[p] = "none"
  BY <1>1 DEF IInv, Stacked
<1>. QED BY <1>2 DEF IInv, Tables, Early

\* The present on top of the stack.
LEMMA TopIs ==
    ASSUME IInv, stack # <<>>
    PROVE  /\ Len(stack) \in 1 .. Len(stack) /\ Top \in 0 .. MaxPresents
           /\ Top = Discarding => Len(stack) = 1 /\ placing = "no" /\ ~hasCompleted
           /\ Top # Discarding =>
                /\ Top \in Presents /\ Top \in Created /\ Top \in completed
                /\ at[Top] \in {"deps", "earlier", "stop", "store"}
                /\ hasCompleted \/ Top \in lost
<1>1. Len(stack) \in 1 .. Len(stack) /\ Top \in 0 .. MaxPresents
  <2>1. Len(stack) \in 1 .. Len(stack)
    BY StackIs DEF IInv
  <2>. QED BY <2>1, StackIs DEF IInv, Top
<1>2. ASSUME Top = Discarding PROVE Len(stack) = 1 /\ placing = "no" /\ ~hasCompleted
  BY <1>1, <1>2 DEF IInv, Stacked, Top
<1>3. ASSUME Top # Discarding
      PROVE  /\ Top \in Presents /\ Top \in Created /\ Top \in completed
             /\ at[Top] \in {"deps", "earlier", "stop", "store"}
             /\ hasCompleted \/ Top \in lost
  <2>1. Top \in completed /\ at[Top] # "none"
    BY <1>1, <1>3 DEF IInv, Stacked, Top
  <2>2. Top \in Created /\ Top \in Presents
    BY <2>1, CreatedArePresents DEF IInv, TypeOK
  <2>3. hasCompleted \/ Top \in lost
    BY <2>1 DEF IInv, Fresh
  <2>. QED BY <2>1, <2>2, <2>3 DEF IInv, TypeOK
<1>. QED BY <1>1, <1>2, <1>3

\* The first dependents and the earlier presents under way are in flight.
LEMMA BeginsFromEvent ==
    ASSUME IInv, NEW p \in Created, stack = <<>>, p \notin completed,
           \/ placing = "no" /\ placing' = "no"
           \/ placing = "evict" /\ placing' = "place" /\ p = tracked[next]
           \/ placing = "clear" /\ placing' = "emplace" /\ p = byThread[tid[created]],
           p \in Placed,
           NEW l \in SUBSET Created, lost \subseteq l,
           hasCompleted \/ p \in l, placing = "clear" => p \in l,
           NEW f \in [Presents -> Finals], \A q \in completed : f[q] = final[q],
           running' \subseteq running, waitStop \subseteq running',
           UNCHANGED <<created, tid, swap, next, driver, deps, tableVars, byThread, hasCompleted,
                       ring, outVars>>,
           CompletePresent(p, l, f, iter)
    PROVE  Begins(p)
<1>1. MarkCompleted(p, l, f, iter)
  BY DEF CompletePresent, IsCompleted
<1>2. p \in Presents
  BY CreatedArePresents DEF IInv
<1>3. \A i \in 1 .. Len(deps[p]) : deps[p][i] \in Created
  BY <1>2 DEF IInv, Iterating
<1>4. Marked(p, iter) /\ (p \in l => p \in lost')
  BY <1>1, <1>3, MarkedIs DEF IInv
<1>5. p \in ordered
  BY <1>2, IdleIs
<1>6. FromEvent(p)
  BY <1>4 DEF FromEvent
<1>. QED BY <1>4, <1>5, <1>6 DEF Begins

LEMMA RemoveOpen ==
    ASSUME IInv, NEW p \in Created, stack = <<>>, p \notin completed,
           \/ placing = "no" /\ placing' = "no"
           \/ placing = "evict" /\ placing' = "place" /\ p = tracked[next]
           \/ placing = "clear" /\ placing' = "emplace" /\ p = byThread[tid[created]],
           p \in Placed, running' = running,
           UNCHANGED <<created, tid, swap, next, driver, deps, tableVars, hasCompleted, outVars>>,
           RemoveLostPresent(p)
    PROVE  Begins(p)
<1>1. CompletePresent(p, lost \cup {p}, final, iter) /\ UNCHANGED <<byThread, ring>>
  BY DEF RemoveLostPresent
<1>2. /\ lost \cup {p} \in SUBSET Created /\ final \in [Presents -> Finals]
      /\ p \in lost \cup {p} /\ lost \subseteq lost \cup {p}
  BY DEF IInv, TypeOK
<1>3. running' \subseteq running /\ waitStop \subseteq running'
  BY DEF IInv, Waiting
<1>. HIDE DEF IInv
<1>. QED BY <1>1, <1>2, <1>3, BeginsFromEvent

LEMMA DiscardNextIs ==
    ASSUME IInv, DiscardNext
    PROVE  \E p \in Presents : Begins(p)
<1>1. PICK p \in ordered : IsFirst(p, OrderedOf(Process(p))) /\ RemoveLostPresent(p)
  BY DEF DiscardNext
<1>2. /\ stack # <<>> /\ Top = Discarding
      /\ UNCHANGED <<running, newVars, driver, deps, tableVars, hasCompleted, outVars>>
  BY DEF DiscardNext
<1>3. p \in Created /\ p \in Presents
  BY CreatedArePresents DEF IInv, TypeOK
<1>4. p \notin completed
  <2>1. Len(stack) = 1 /\ stack[1] = Discarding
    BY <1>2, TopIs DEF Top
  <2>2. p # 0
    BY <1>3, CreatedArePresents DEF IInv
  <2>3. at[p] = "none"
    BY <1>3, <2>1, <2>2 DEF IInv, Stacked, Discarding
  <2>. QED BY <1>3, <2>3 DEF IInv, Tables, Early
<1>5. /\ CompletePresent(p, lost \cup {p}, final, iter)
      /\ UNCHANGED <<byThread, ring>>
  BY <1>1, <1>4 DEF RemoveLostPresent
<1>6. MarkCompleted(p, lost \cup {p}, final, iter)
  BY <1>4, <1>5 DEF CompletePresent, IsCompleted
<1>7. \A i \in 1 .. Len(deps[p]) : deps[p][i] \in Created
  BY <1>3 DEF IInv, Iterating
<1>8. Marked(p, iter) /\ p \in lost'
  <2>1. lost \cup {p} \in SUBSET Created /\ final \in [Presents -> Finals]
    BY <1>3 DEF IInv, TypeOK
  <2>. QED BY <1>3, <1>4, <1>6, <1>7, <2>1, MarkedIs DEF IInv
<1>9. \A r \in OrderedOf(Process(p)) : p <= r
  BY <1>1 DEF IsFirst
<1>10. FromDiscarding(p)
  BY <1>2, <1>8, <1>9 DEF FromDiscarding, newVars
<1>11. running' \subseteq running /\ waitStop \subseteq running'
  BY <1>2 DEF IInv, Waiting
<1>. QED BY <1>2, <1>3, <1>4, <1>5, <1>8, <1>10, <1>11 DEF Begins, newVars

LEMMA CompleteDependentIs ==
    ASSUME IInv, CompleteDependent
    PROVE  SkipsDependent \/ \E p \in Presents : Begins(p)
<1>. DEFINE q == deps[Top][iter[Top]]
            it == [iter EXCEPT ![Top] = @ - 1]
<1>1. /\ At("deps") /\ iter[Top] > 0
      /\ UNCHANGED <<running, newVars, driver, deps, tableVars, byThread, hasCompleted, ring, outVars>>
      /\ IF q \in completed
         THEN iter' = it /\ UNCHANGED <<final, flagVars, stack, at>>
         ELSE CompletePresent(q, lost, final, it)
  BY DEF CompleteDependent
<1>2. hasCompleted \/ Top \in lost
  BY <1>1, TopIs DEF At
<1>3. /\ Top \in Presents /\ at[Top] = "deps"
      /\ iter[Top] \in 1 .. Len(deps[Top])
  <2>1. Top \in Presents /\ at[Top] = "deps"
    BY <1>1, TopIs DEF At
  <2>2. iter[Top] \in Nat /\ iter[Top] <= Len(deps[Top]) /\ Len(deps[Top]) \in Nat
    BY <2>1, StackIs DEF IInv, TypeOK, Iterating
  <2>. QED BY <1>1, <2>1, <2>2
<1>4. q \in Created /\ q \in Presents /\ (placing # "no" => q # created)
  BY <1>3, CreatedArePresents DEF IInv, Iterating
<1>5. CASE q \in completed
  BY <1>1, <1>5 DEF SkipsDependent
<1>6. CASE q \notin completed
  <2>1. CompletePresent(q, lost, final, it)
    BY <1>1, <1>6
  <2>2. hasCompleted \/ q \in lost
    BY <1>2, <1>3 DEF IInv, Fresh
  <2>. HIDE DEF q, it
  <2>3. MarkCompleted(q, lost, final, it)
    BY <1>6, <2>1, <2>2 DEF CompletePresent, IsCompleted
  <2>4. \A i \in 1 .. Len(deps[q]) : deps[q][i] \in Created
    BY <1>4 DEF IInv, Iterating
  <2>5. lost \in SUBSET Created /\ final \in [Presents -> Finals]
    BY DEF IInv, TypeOK
  <2>6. Marked(q, it) /\ (q \in lost => q \in lost')
    BY <1>4, <1>6, <2>3, <2>4, <2>5, MarkedIs DEF IInv
  <2>7. FromDependents(q)
    BY <1>1, <2>6 DEF FromDependents, newVars, q, it
  <2>8. q \in ordered
    BY <1>4, <1>6 DEF IInv, Tables, Placed
  <2>9. running' \subseteq running /\ waitStop \subseteq running'
    BY <1>1 DEF IInv, Waiting
  <2>10. Begins(q)
    BY <1>1, <1>6, <2>2, <2>6, <2>7, <2>8, <2>9 DEF Begins, newVars
  <2>. QED BY <1>4, <2>10
<1>. QED BY <1>5, <1>6

LEMMA CompleteEarlierIs ==
    ASSUME IInv, CompleteEarlier
    PROVE  SkipsEarlier \/ \E p \in Presents : Begins(p)
<1>. DEFINE q == iter[Top]
            l == IF Top \in lost THEN lost \cup {q} ELSE lost
<1>1. PICK n \in 0 .. created :
         /\ IsFirst(n, {r \in OrderedOf(Process(Top)) : r > q})
         /\ IF swap[q] = swap[Top]
            THEN CompletePresent(q, l, final, [iter EXCEPT ![Top] = n])
            ELSE /\ iter' = [iter EXCEPT ![Top] = n]
                 /\ UNCHANGED <<final, flagVars, stack, at>>
  BY DEF CompleteEarlier, After
<1>. DEFINE it == [iter EXCEPT ![Top] = n]
<1>2. /\ At("earlier") /\ q \in 1 .. Top - 1
      /\ UNCHANGED <<running, newVars, driver, deps, tableVars, byThread, hasCompleted, ring, outVars>>
  BY DEF CompleteEarlier, After
<1>3. /\ Top \in Presents /\ Top \in Created /\ at[Top] = "earlier"
      /\ hasCompleted \/ Top \in lost
  BY <1>2, TopIs DEF At
<1>4. q \in ordered /\ q # 0
  BY <1>2, <1>3 DEF IInv, Iterating, NoPresent
<1>5. q \in Created /\ q \in Presents
  BY <1>4, CreatedArePresents DEF IInv, TypeOK
<1>6. lost \subseteq Created /\ final \in [Presents -> Finals]
  BY DEF IInv, TypeOK
<1>. HIDE DEF q
<1>7. l \in SUBSET Created /\ lost \subseteq l /\ (hasCompleted \/ q \in l)
  BY <1>3, <1>5, <1>6
<1>8. CASE swap[q] # swap[Top]
  <2>1. iter' = it /\ UNCHANGED <<final, flagVars, stack, at>>
    BY <1>1, <1>8
  <2>. QED BY <1>1, <1>2, <1>6, <1>8, <2>1 DEF SkipsEarlier, flagVars, q
<1>9. CASE swap[q] = swap[Top] /\ q \in completed
  <2>1. /\ lost' = l /\ final' = final /\ iter' = it
        /\ UNCHANGED <<completed, waitStop, waitType, stack, at>>
    <3>1. CompletePresent(q, l, final, it)
      BY <1>1, <1>9
    <3>. HIDE DEF l, it
    <3>. QED BY <1>7, <1>9, <3>1 DEF CompletePresent, IsCompleted
  <2>. HIDE DEF l
  <2>. QED BY <1>1, <1>2, <1>7, <1>9, <2>1 DEF SkipsEarlier, q
<1>10. CASE swap[q] = swap[Top] /\ q \notin completed
  <2>1. CompletePresent(q, l, final, it)
    BY <1>1, <1>10
  <2>. HIDE DEF l, it
  <2>2. MarkCompleted(q, l, final, it)
    BY <1>7, <1>10, <2>1 DEF CompletePresent, IsCompleted
  <2>3. \A i \in 1 .. Len(deps[q]) : deps[q][i] \in Created
    BY <1>5 DEF IInv, Iterating
  <2>4. Marked(q, it) /\ (q \in l => q \in lost')
    BY <1>5, <1>6, <1>7, <1>10, <2>2, <2>3, MarkedIs DEF IInv
  <2>5. FromEarlier(q)
    BY <1>1, <1>2, <1>10, <2>4 DEF FromEarlier, newVars, q, it
  <2>6. running' \subseteq running /\ waitStop \subseteq running'
    BY <1>2 DEF IInv, Waiting
  <2>7. Begins(q)
    BY <1>2, <1>4, <1>7, <1>10, <2>4, <2>5, <2>6 DEF Begins, newVars
  <2>. QED BY <1>5, <2>7
<1>. QED BY <1>8, <1>9, <1>10

LEMMA EvictTrackedIs ==
    ASSUME IInv, EvictTracked
    PROVE  EvictsNothing \/ \E p \in Presents : Begins(p)
<1>. DEFINE p == tracked[next]
<1>1. /\ stack = <<>> /\ placing = "evict" /\ placing' = "place" /\ running' = running
      /\ RemoveIfPresent(p)
      /\ UNCHANGED <<created, tid, swap, next, driver, deps, tableVars, hasCompleted, outVars>>
  BY DEF EvictTracked
<1>2. CASE p = NoPresent
  BY <1>1, <1>2 DEF EvictsNothing, RemoveIfPresent
<1>3. CASE p # NoPresent
  <2>1. RemoveLostPresent(p)
    BY <1>1, <1>3 DEF RemoveIfPresent
  <2>2. p \in ordered
    BY <1>3 DEF IInv, Tables, TypeOK
  <2>3. p \in Created /\ p \in Presents
    BY <2>2, CreatedArePresents DEF IInv, TypeOK
  <2>4. p \in Placed /\ p \notin completed
    BY <1>1, <2>2, <2>3, IdleIs
  <2>5. Begins(p)
    BY <1>1, <2>1, <2>3, <2>4, RemoveOpen
  <2>. QED BY <2>3, <2>5
<1>. QED BY <1>2, <1>3

LEMMA EvictFromThreadIs ==
    ASSUME IInv, EvictFromThread
    PROVE  EvictsNothing \/ \E p \in Presents : Begins(p) \/ LosesCompleted(p)
<1>. DEFINE p == byThread[tid[created]]
<1>1. /\ stack = <<>> /\ placing = "clear" /\ placing' = "emplace" /\ running' = running
      /\ RemoveIfPresent(p)
      /\ UNCHANGED <<created, tid, swap, next, driver, deps, tableVars, hasCompleted, outVars>>
  BY DEF EvictFromThread
<1>2. CASE p = NoPresent
  BY <1>1, <1>2 DEF EvictsNothing, RemoveIfPresent
<1>3. CASE p # NoPresent
  <2>1. RemoveLostPresent(p)
    BY <1>1, <1>3 DEF RemoveIfPresent
  <2>2. tid[created] \in Threads
    <3>1. created \in Created
      BY <1>1, CreatedArePresents DEF IInv, Stacked, Created
    <3>. QED BY <3>1 DEF IInv, OnThreads
  <2>3. p \in Created /\ p \in Presents
    BY <1>3, <2>2, CreatedArePresents DEF IInv, OnThreads
  <2>4. CASE p \in completed
    BY <1>1, <2>1, <2>3, <2>4 DEF RemoveLostPresent, LosesCompleted
  <2>5. CASE p \notin completed
    <3>1. p \in Placed
      BY <1>1, <2>3 DEF Placed
    <3>2. Begins(p)
      BY <1>1, <2>1, <2>3, <2>5, <3>1, RemoveOpen
    <3>. QED BY <2>3, <3>2
  <2>. QED BY <2>3, <2>4, <2>5
<1>. QED BY <1>2, <1>3

\* An event completes p, with the final state f.
LEMMA EventIs ==
    ASSUME IInv, Idle, NEW p \in Created, NEW f \in [Presents -> Finals],
           \A q \in completed : f[q] = final[q],
           running' \subseteq running, waitStop \subseteq running',
           UNCHANGED <<newVars, driver, deps, tableVars, byThread, hasCompleted, ring, outVars>>,
           CompletePresent(p, lost, f, iter)
    PROVE  \/ p \notin completed /\ (Begins(p) \/ BeginsDiscarding)
           \/ /\ p \in completed
              /\ final' = f
              /\ UNCHANGED <<flagVars, callVars>>
<1>1. p \in completed => hasCompleted \/ p \in lost
  BY DEF IInv, Fresh
<1>2. CASE p \in completed
  <2>1. /\ lost' = lost /\ final' = f /\ iter' = iter
        /\ UNCHANGED <<completed, waitStop, waitType, stack, at>>
    BY <1>1, <1>2 DEF CompletePresent, IsCompleted
  <2>. QED BY <1>2, <2>1 DEF flagVars, callVars
<1>3. CASE p \notin completed /\ (hasCompleted \/ p \in lost)
  <2>1. p \in Placed
    BY DEF Placed, Idle
  <2>2. lost \in SUBSET Created /\ lost \subseteq lost
    BY DEF IInv, TypeOK
  <2>3. stack = <<>> /\ placing = "no" /\ placing' = "no"
    BY DEF Idle, newVars
  <2>4. UNCHANGED <<created, tid, swap, next, driver, deps, tableVars, byThread, hasCompleted,
                    ring, outVars>>
    BY DEF newVars
  <2>5. placing = "clear" => p \in lost
    BY <2>3
  <2>6. Begins(p)
    BY <1>3, <2>1, <2>2, <2>3, <2>4, <2>5, BeginsFromEvent
  <2>. QED BY <1>3, <2>6
<1>4. CASE p \notin completed /\ ~hasCompleted /\ p \notin lost
  <2>1. /\ stack' = Append(stack, Discarding)
        /\ lost' = lost /\ final' = f /\ iter' = iter
        /\ UNCHANGED <<completed, waitStop, waitType, at>>
    BY <1>4 DEF CompletePresent, IsCompleted
  <2>. QED BY <1>4, <2>1 DEF BeginsDiscarding, flagVars
<1>. QED BY <1>2, <1>3, <1>4

LEMMA PresentStopCompletesIs ==
    ASSUME IInv, NEW t \in Threads, NEW g \in Finals, PresentStopCompletes(t, g)
    PROVE  BeginsDiscarding \/ \E p \in Presents : Begins(p)
<1>. DEFINE p == byThread[t]
            f == [final EXCEPT ![p] = g]
<1>1. /\ Idle
      /\ p \notin waitStop /\ p # NoPresent
      /\ running' = running \ {p}
      /\ CompletePresent(p, lost, f, iter)
      /\ UNCHANGED <<newVars, driver, deps, tableVars, byThread, hasCompleted, ring, outVars>>
  BY DEF PresentStopCompletes
<1>2. p \in Created /\ p \in Presents
  BY <1>1, CreatedArePresents DEF IInv, OnThreads
<1>3. p \notin completed
  <2>1. at[p] = "none"
    BY <1>1, <1>2, IdleIs DEF Idle
  <2>. QED BY <1>1, <2>1 DEF IInv, OnThreads, Leads, Early
<1>. HIDE DEF p
<1>4. f \in [Presents -> Finals] /\ \A q \in completed : f[q] = final[q]
  <2>1. final \in [Presents -> Finals] /\ completed \subseteq Created
    BY DEF IInv, TypeOK
  <2>2. \A q \in completed : q \in Presents
    BY <2>1, CreatedArePresents DEF IInv
  <2>. QED BY <1>2, <1>3, <2>1, <2>2
<1>. HIDE DEF f
<1>5. running' \subseteq running /\ waitStop \subseteq running'
  BY <1>1 DEF IInv, Waiting
<1>. QED BY <1>1, <1>2, <1>3, <1>4, <1>5, EventIs

LEMMA EventCompletesIs ==
    ASSUME IInv, NEW p \in Created, NEW g \in Finals, EventCompletes(p, g)
    PROVE  Begins(p) \/ BeginsDiscarding \/ UNCHANGED vars
<1>. DEFINE f == [final EXCEPT ![p] = g]
<1>1. /\ Idle
      /\ running' = running
      /\ p \in completed => g = final[p]
      /\ CompletePresent(p, lost, f, iter)
      /\ UNCHANGED <<newVars, driver, deps, tableVars, byThread, hasCompleted, ring, outVars>>
  BY DEF EventCompletes
<1>2. p \in Presents
  BY CreatedArePresents DEF IInv
<1>3. f \in [Presents -> Finals] /\ \A q \in completed : f[q] = final[q]
  <2>1. final \in [Presents -> Finals] /\ completed \subseteq Created
    BY DEF IInv, TypeOK
  <2>2. \A q \in completed : q \in Presents
    BY <2>1, CreatedArePresents DEF IInv
  <2>. QED BY <1>1, <1>2, <2>1, <2>2
<1>4. p \in completed => f = final
  BY <1>1, <1>2 DEF IInv, TypeOK
<1>. HIDE DEF f
<1>5. running' \subseteq running /\ waitStop \subseteq running'
  BY <1>1 DEF IInv, Waiting
<1>6. \/ p \notin completed /\ (Begins(p) \/ BeginsDiscarding)
      \/ /\ p \in completed
         /\ final' = f
         /\ UNCHANGED <<flagVars, callVars>>
  BY <1>1, <1>3, <1>5, EventIs
<1>. QED BY <1>1, <1>4, <1>6 DEF vars

LEMMA EventLosesIs ==
    ASSUME IInv, NEW p \in Created, EventLoses(p)
    PROVE  Begins(p) \/ LosesCompleted(p)
<1>1. /\ stack = <<>> /\ placing = "no" /\ placing' = "no" /\ running' = running
      /\ UNCHANGED <<created, tid, swap, next, driver, deps, tableVars, hasCompleted, outVars>>
      /\ RemoveLostPresent(p)
  BY DEF EventLoses, Idle, newVars
<1>2. CASE p \in completed
  BY <1>1, <1>2 DEF RemoveLostPresent, LosesCompleted
<1>3. CASE p \notin completed
  <2>1. p \in Placed
    BY <1>1 DEF Placed
  <2>. QED BY <1>1, <1>3, <2>1, RemoveOpen
<1>. QED BY <1>2, <1>3

\* A step, its calls of CompletePresent told apart by what they begin.
Step ==
    \/ \E p \in Presents : Begins(p) \/ LosesCompleted(p)
    \/ BeginsDiscarding \/ SkipsDependent \/ SkipsEarlier \/ EvictsNothing
    \/ DiscardEnds \/ DependentsCompleted \/ EarlierCompleted \/ StopTracking \/ StoreCompleted
    \/ PlaceTracked \/ EmplaceOnThread
    \/ \E t \in Threads :
         \/ \E chain \in SwapChains, runtime \in BOOLEAN : TrackPresent(t, chain, runtime)
         \/ \E p \in Created : SubmitOnDriverThread(t, p)
         \/ LeaveThread(t) \/ PresentStopSettles(t) \/ PresentStopLeaves(t)
    \/ \E p \in Created :
         \/ \E f \in Finals : EventDisplays(p, f)
         \/ WaitForDwm(p) \/ AttachDependents(p) \/ EndFlipFrameTypes(p)
    \/ DequeuePresentEvents
    \/ UNCHANGED vars

LEMMA NextIsStep == IInv /\ [Next]_vars => Step
<1>. SUFFICES ASSUME IInv, [Next]_vars PROVE Step
  OBVIOUS
<1>. HIDE DEF IInv
<1>0. \A p \in Created : p \in Presents
  BY CreatedArePresents DEF IInv
<1>1. CASE Completing
  <2>1. CASE DiscardNext
    BY <2>1, DiscardNextIs DEF Step
  <2>2. CASE CompleteDependent
    BY <2>2, CompleteDependentIs DEF Step
  <2>3. CASE CompleteEarlier
    BY <2>3, CompleteEarlierIs DEF Step
  <2>. QED BY <1>1, <2>1, <2>2, <2>3 DEF Completing, Step
<1>2. CASE Placing
  <2>1. CASE EvictTracked
    BY <2>1, EvictTrackedIs DEF Step
  <2>2. CASE EvictFromThread
    BY <2>2, EvictFromThreadIs DEF Step
  <2>. QED BY <1>2, <2>1, <2>2 DEF Placing, Step
<1>3. CASE ThreadEvent
  <2>1. ASSUME NEW t \in Threads, NEW f \in Finals, PresentStopCompletes(t, f) PROVE Step
    BY <2>1, PresentStopCompletesIs DEF Step
  <2>. QED BY <1>3, <2>1 DEF ThreadEvent, Step
<1>4. CASE PresentEvent
  <2>1. ASSUME NEW p \in Created, NEW f \in Finals, EventCompletes(p, f) PROVE Step
    <3>1. Begins(p) \/ BeginsDiscarding \/ UNCHANGED vars
      BY <2>1, EventCompletesIs
    <3>. QED BY <1>0, <3>1 DEF Step
  <2>2. ASSUME NEW p \in Created, EventLoses(p) PROVE Step
    <3>1. Begins(p) \/ LosesCompleted(p)
      BY <2>2, EventLosesIs
    <3>. QED BY <1>0, <3>1 DEF Step
  <2>. QED BY <1>4, <2>1, <2>2 DEF PresentEvent, Step
<1>. QED BY <1>1, <1>2, <1>3, <1>4 DEF Next, Step

----
\* What the stack and the ring become.

LEMMA PushIs ==
    ASSUME TypeOK, NEW p \in Numbers, stack' = Append(stack, p)
    PROVE  /\ stack' \in Seq(Numbers)
           /\ Len(stack) \in Nat /\ Len(stack') = Len(stack) + 1
           /\ \A i : i \in 1 .. Len(stack') <=> i \in 1 .. Len(stack) \/ i = Len(stack')
           /\ \A i \in 1 .. Len(stack) : stack'[i] = stack[i] /\ i < Len(stack')
           /\ stack'[Len(stack')] = p
<1>1. stack \in Seq(Numbers)
  BY DEF TypeOK, Numbers
<1>2. /\ stack' \in Seq(Numbers)
      /\ Len(stack) \in Nat /\ Len(stack') = Len(stack) + 1
      /\ \A i \in 1 .. Len(stack) : stack'[i] = stack[i]
      /\ stack'[Len(stack')] = p
  BY <1>1
<1>. QED BY <1>2

LEMMA PopIs ==
    ASSUME TypeOK, stack # <<>>, stack' = Pop
    PROVE  /\ stack' \in Seq(Numbers)
           /\ Len(stack) \in Nat /\ Len(stack') = Len(stack) - 1
           /\ \A i : i \in 1 .. Len(stack') <=> i \in 1 .. Len(stack) /\ i # Len(stack)
           /\ \A i \in 1 .. Len(stack') : stack'[i] = stack[i] /\ i < Len(stack)
<1>. DEFINE n == Len(stack)
<1>1. stack \in Seq(Numbers)
  BY DEF TypeOK, Numbers
<1>2. n \in Nat \ {0}
  BY <1>1, EmptySeq
<1>3. \A i \in 1 .. n - 1 : stack[i] \in Numbers
  BY <1>1, <1>2, ElementOfSeq
<1>4. /\ SubSeq(stack, 1, n - 1) \in Seq(Numbers)
      /\ Len(SubSeq(stack, 1, n - 1)) = IF 1 <= n - 1 THEN (n - 1) - 1 + 1 ELSE 0
      /\ \A i \in 1 .. (n - 1) - 1 + 1 : SubSeq(stack, 1, n - 1)[i] = stack[1 + i - 1]
  <2>1. 1 \in Int /\ n - 1 \in Int
    BY <1>2
  <2>. HIDE DEF n
  <2>. QED BY <1>3, <2>1, SubSeqProperties
<1>5. stack' = SubSeq(stack, 1, n - 1)
  BY DEF Pop
<1>. HIDE DEF n
<1>6. Len(stack') = n - 1
  BY <1>2, <1>4, <1>5
<1>7. \A i \in 1 .. n - 1 : stack'[i] = stack[i]
  <2>. SUFFICES ASSUME NEW i \in 1 .. n - 1 PROVE stack'[i] = stack[i]
    OBVIOUS
  <2>1. i \in 1 .. (n - 1) - 1 + 1 /\ 1 + i - 1 = i
    BY <1>2
  <2>. QED BY <1>4, <1>5, <2>1
<1>8. \A i : i \in 1 .. n - 1 <=> i \in 1 .. n /\ i # n
  BY <1>2
<1>. QED BY <1>2, <1>4, <1>5, <1>6, <1>7, <1>8 DEF n

\* A completed present that is deferred is given up.
GivesUp(h) ==
    /\ h \in completed /\ at[h] = "none"
    /\ waitStop' = waitStop \ {h}
    /\ waitType' = waitType \ {h}
    /\ lost \subseteq lost' /\ lost' \subseteq Created
    /\ StopTrackingPresent(h, FALSE)

LEMMA SettleIs ==
    ASSUME IInv, NEW r, RingOK(r, Numbers), Distinct(r), Settle(r),
           \A h \in Entries(r) : h = Top \/ h \in Entries(ring),
           Top \in Nat
    PROVE  /\ RingOK(ring', Numbers) /\ Distinct(ring') /\ Entries(ring') = Entries(r)
           /\ \/ UNCHANGED <<lost, waitStop, waitType, tableVars, byThread>>
              \/ \E h \in Presents : GivesUp(h)
<1>1. CASE ring' = r /\ UNCHANGED <<lost, waitStop, waitType, tableVars, byThread>>
  BY <1>1
<1>2. CASE ClearStaleDeferral(r)
  <2>. DEFINE h == Entry(r, 0)
  <2>1. /\ r.count > 0 /\ Top > h
        /\ waitStop' = waitStop \ {h}
        /\ lost' = IF h \in waitStop THEN lost \cup {h} ELSE lost
        /\ waitType' = waitType \ {h}
        /\ StopTrackingPresent(h, FALSE)
        /\ ring' = UpdateReadyCount(r, Deferred \ {h})
    BY <1>2 DEF ClearStaleDeferral
  <2>2. r.count \in Nat
    BY RingSizeAssumption DEF RingOK, RingType
  <2>3. h \in Entries(r)
    BY <2>1, <2>2 DEF Entries
  <2>. HIDE DEF h
  <2>4. RingOK(ring', Numbers)
    BY <2>1, ReadyCountIs
  <2>5. Distinct(ring') /\ Entries(ring') = Entries(r)
    BY <2>1, ReadyEntries
  <2>6. h \in Entries(ring)
    BY <2>1, <2>3
  <2>7. h \in Presents /\ h \in completed /\ at[h] = "none"
    BY <2>6 DEF IInv, Kept
  <2>8. lost \subseteq lost' /\ lost' \subseteq Created
    BY <2>1, <2>7 DEF IInv, TypeOK
  <2>9. GivesUp(h)
    BY <2>1, <2>7, <2>8 DEF GivesUp
  <2>. QED BY <2>4, <2>5, <2>7, <2>9
<1>. QED BY <1>1, <1>2 DEF Settle

LEMMA StoreCompletedIs ==
    ASSUME IInv, StoreCompleted
    PROVE  /\ Top \in Presents /\ at[Top] = "store" /\ Top \in completed /\ stack # <<>>
           /\ at' = [at EXCEPT ![Top] = "none"]
           /\ stack' = Pop
           /\ UNCHANGED <<newVars, driver, final, running, completed, deps, hasCompleted, iter, handed>>
           /\ RingOK(ring', Numbers) /\ Distinct(ring')
           /\ \A p : p \in Entries(ring') \/ p \in dropped' <=>
                       p \in Entries(ring) \/ p \in dropped \/ p = Top
           /\ Entries(ring') \cap dropped' = {}
           /\ Entries(ring') \subseteq Presents
           /\ \/ UNCHANGED <<lost, waitStop, waitType, tableVars, byThread>>
              \/ \E h \in Presents : GivesUp(h)
<1>1. /\ At("store")
      /\ AppendPresent \/ Refuse \/ Overflow
      /\ at' = [at EXCEPT ![Top] = "none"]
      /\ stack' = Pop
      /\ UNCHANGED <<newVars, driver, final, running, completed, deps, hasCompleted, iter>>
  BY DEF StoreCompleted
<1>2. Top \in Presents /\ at[Top] = "store" /\ Top \in completed /\ stack # <<>>
  BY <1>1, TopIs DEF At
<1>3. Top \in Nat /\ Top \in Numbers
  BY <1>2, BoundIsNat DEF Presents, Numbers
<1>4. /\ RingOK(ring, Numbers) /\ Distinct(ring)
      /\ Entries(ring) \cap dropped = {} /\ Entries(ring) \subseteq Presents
      /\ Top \notin Entries(ring) /\ Top \notin dropped /\ Top \notin handed
  BY <1>2 DEF IInv, Kept
<1>. HIDE DEF IInv
<1>5. CASE AppendPresent
  <2>. DEFINE r == AppendCompleted(ring, Top)
              u == UpdateReadyCount(r, Deferred)
  <2>1. ring.count < RingSize /\ Settle(u) /\ UNCHANGED outVars
    BY <1>5 DEF AppendPresent
  <2>2. RingOK(r, Numbers) /\ Entries(r) = Entries(ring) \cup {Top} /\ Distinct(r)
    BY <1>3, <1>4, <2>1, AppendIs, AppendEntries
  <2>. HIDE DEF r
  <2>3. RingOK(u, Numbers) /\ Entries(u) = Entries(r) /\ Distinct(u)
    BY <2>2, ReadyCountIs, ReadyEntries
  <2>. HIDE DEF u
  <2>4. /\ RingOK(ring', Numbers) /\ Distinct(ring') /\ Entries(ring') = Entries(u)
        /\ \/ UNCHANGED <<lost, waitStop, waitType, tableVars, byThread>>
           \/ \E h \in Presents : GivesUp(h)
    BY <1>3, <2>1, <2>2, <2>3, SettleIs
  <2>. QED BY <1>1, <1>2, <1>4, <2>1, <2>2, <2>3, <2>4 DEF outVars
<1>6. CASE Refuse
  <2>1. /\ dropped' = dropped \cup {Top} /\ handed' = handed /\ ring' = ring
        /\ UNCHANGED <<lost, waitStop, waitType, tableVars, byThread>>
    BY <1>6 DEF Refuse
  <2>. QED BY <1>1, <1>2, <1>4, <2>1
<1>7. CASE Overflow
  <2>. DEFINE r == OverwriteOldest(ring, Top)
              u == UpdateReadyCount(r, Deferred)
  <2>1. /\ ring.count = RingSize /\ Settle(u)
        /\ dropped' = dropped \cup {Entry(ring, 0)} /\ handed' = handed
    BY <1>7 DEF Overflow, Overflows
  <2>2. /\ RingOK(r, Numbers) /\ Distinct(r)
        /\ Entry(ring, 0) \in Entries(ring)
        /\ Entries(r) = (Entries(ring) \ {Entry(ring, 0)}) \cup {Top}
    BY <1>3, <1>4, <2>1, OverwriteIs, OverwriteEntries
  <2>. HIDE DEF r
  <2>3. RingOK(u, Numbers) /\ Entries(u) = Entries(r) /\ Distinct(u)
    BY <2>2, ReadyCountIs, ReadyEntries
  <2>. HIDE DEF u
  <2>4. /\ RingOK(ring', Numbers) /\ Distinct(ring') /\ Entries(ring') = Entries(u)
        /\ \/ UNCHANGED <<lost, waitStop, waitType, tableVars, byThread>>
           \/ \E h \in Presents : GivesUp(h)
    BY <1>3, <2>1, <2>2, <2>3, SettleIs
  <2>. QED BY <1>1, <1>2, <1>4, <2>1, <2>2, <2>3, <2>4
<1>. QED BY <1>1, <1>5, <1>6, <1>7

\* What the beginning of a completion leaves.
LEMMA BeginsIs ==
    ASSUME IInv, NEW p \in Presents, Begins(p)
    PROVE  /\ p \in Created /\ p \in Numbers /\ p # Discarding
           /\ p \notin completed /\ p \in ordered
           /\ at[p] = "none" /\ \A i \in 1 .. Len(stack) : stack[i] # p
           /\ Len(deps[p]) \in Nat
           /\ \E it : Marked(p, it)
           /\ iter' \in [Presents -> Nat] /\ iter'[p] = Len(deps[p])
           /\ \A q \in Presents : q # p /\ iter'[q] # iter[q] =>
                \/ /\ At("deps") /\ q = Top /\ p = deps[Top][iter[Top]]
                   /\ iter[Top] > 0 /\ iter'[Top] = iter[Top] - 1
                \/ /\ At("earlier") /\ q = Top /\ p = iter[Top] /\ p < Top
                   /\ iter'[Top] \in 0 .. created
                   /\ IsFirst(iter'[Top], {r \in OrderedOf(Process(Top)) : r > p})
<1>1. /\ p \in ordered /\ p \notin completed
      /\ FromEvent(p) \/ FromDiscarding(p) \/ FromDependents(p) \/ FromEarlier(p)
  BY DEF Begins
<1>2. p \in Created /\ p \in Numbers /\ p # Discarding /\ Len(deps[p]) \in Nat
  <2>1. p \in Created
    BY <1>1 DEF IInv, TypeOK
  <2>2. p \in Nat /\ p # 0 /\ p <= MaxPresents
    BY BoundIsNat DEF Presents
  <2>. QED BY <2>1, <2>2, StackIs, BoundIsNat DEF Numbers, Discarding, IInv
<1>3. at[p] = "none" /\ \A i \in 1 .. Len(stack) : stack[i] # p
  BY <1>1, <1>2 DEF IInv, Stacked
<1>4. iter \in [Presents -> Nat]
  BY DEF IInv, TypeOK
<1>5. CASE FromEvent(p) \/ FromDiscarding(p)
  <2>1. Marked(p, iter)
    BY <1>5 DEF FromEvent, FromDiscarding
  <2>2. iter' = [iter EXCEPT ![p] = Len(deps[p])]
    BY <2>1 DEF Marked
  <2>. QED BY <1>1, <1>2, <1>3, <1>4, <2>1, <2>2
<1>6. CASE FromDependents(p)
  <2>1. /\ At("deps") /\ iter[Top] > 0
        /\ p = deps[Top][iter[Top]]
        /\ Marked(p, [iter EXCEPT ![Top] = @ - 1])
    BY <1>6 DEF FromDependents
  <2>2. Top \in Presents /\ at[Top] = "deps"
    BY <2>1, TopIs DEF At
  <2>3. iter' = [[iter EXCEPT ![Top] = @ - 1] EXCEPT ![p] = Len(deps[p])] /\ p # Top
    BY <1>3, <2>1, <2>2 DEF Marked
  <2>4. iter' \in [Presents -> Nat] /\ iter'[p] = Len(deps[p]) /\ iter'[Top] = iter[Top] - 1
        /\ \A q \in Presents : q # p /\ q # Top => iter'[q] = iter[q]
    BY <1>2, <1>4, <2>1, <2>2, <2>3
  <2>5. \E it : Marked(p, it)
    BY <2>1
  <2>6. /\ At("deps") /\ p = deps[Top][iter[Top]] /\ iter[Top] > 0 /\ iter'[Top] = iter[Top] - 1
        /\ \A q \in Presents : q # p /\ iter'[q] # iter[q] => q = Top
    BY <2>1, <2>4
  <2>. QED BY <1>1, <1>2, <1>3, <2>4, <2>5, <2>6
<1>7. CASE FromEarlier(p)
  <2>1. /\ At("earlier") /\ iter[Top] \in 1 .. Top - 1
        /\ p = iter[Top]
    BY <1>7 DEF FromEarlier
  <2>2. PICK n \in 0 .. created : /\ IsFirst(n, {r \in OrderedOf(Process(Top)) : r > p})
                                  /\ Marked(p, [iter EXCEPT ![Top] = n])
    BY <1>7 DEF FromEarlier
  <2>3. Top \in Presents /\ at[Top] = "earlier"
    BY <2>1, TopIs DEF At
  <2>4. iter' = [[iter EXCEPT ![Top] = n] EXCEPT ![p] = Len(deps[p])] /\ p # Top
    BY <1>3, <2>2, <2>3 DEF Marked
  <2>5. iter' \in [Presents -> Nat] /\ iter'[p] = Len(deps[p]) /\ iter'[Top] = n
        /\ \A q \in Presents : q # p /\ q # Top => iter'[q] = iter[q]
    BY <1>2, <1>4, <2>3, <2>4
  <2>6. p < Top
    BY <2>1, <2>3, CreatedArePresents DEF IInv
  <2>7. \E it : Marked(p, it)
    BY <2>2
  <2>. QED BY <1>1, <1>2, <1>3, <2>1, <2>2, <2>3, <2>5, <2>6, <2>7
<1>. QED BY <1>1, <1>5, <1>6, <1>7

LEMMA BeginsIters ==
    ASSUME IInv, NEW p \in Presents, Begins(p), NEW q \in Presents, q # p, iter'[q] # iter[q]
    PROVE  /\ stack # <<>> /\ q = Top /\ at[q] \in {"deps", "earlier"}
           /\ at[q] = "deps" => p = deps[q][iter[q]] /\ iter[q] > 0 /\ iter'[q] = iter[q] - 1
           /\ at[q] = "earlier" =>
                /\ p = iter[q] /\ p < q /\ iter'[q] \in 0 .. created
                /\ IsFirst(iter'[q], {r \in OrderedOf(Process(q)) : r > p})
<1>. DEFINE First == IsFirst(iter'[Top], {r \in OrderedOf(Process(Top)) : r > p})
<1>1. \/ /\ At("deps") /\ q = Top /\ p = deps[Top][iter[Top]]
         /\ iter[Top] > 0 /\ iter'[Top] = iter[Top] - 1
      \/ /\ At("earlier") /\ q = Top /\ p = iter[Top] /\ p < Top
         /\ iter'[Top] \in 0 .. created
         /\ First
  BY BeginsIs, ZenonT(40)
<1>2. First /\ q = Top => IsFirst(iter'[q], {r \in OrderedOf(Process(q)) : r > p})
  OBVIOUS
<1>3. q = Top => iter'[q] = iter'[Top]
  OBVIOUS
<1>. HIDE DEF First
<1>4. CASE At("deps") /\ q = Top /\ p = deps[Top][iter[Top]] /\ iter[Top] > 0
           /\ iter'[Top] = iter[Top] - 1
  <2>1. stack # <<>> /\ at[q] = "deps" /\ at[q] # "earlier"
    BY <1>4 DEF At
  <2>. QED BY <1>3, <1>4, <2>1
<1>5. CASE At("earlier") /\ q = Top /\ p = iter[Top] /\ p < Top /\ iter'[Top] \in 0 .. created
           /\ First
  <2>1. stack # <<>> /\ at[q] = "earlier" /\ at[q] # "deps"
    BY <1>5 DEF At
  <2>. QED BY <1>2, <1>3, <1>5, <2>1
<1>. QED BY <1>1, <1>4, <1>5

\* What leaving the threads and the tables leaves.
LEMMA OffIs ==
    ASSUME TypeOK, NEW S, NEW p, byThread' = Off(S, p)
    PROVE  /\ byThread' \in [Threads -> 0 .. MaxPresents]
           /\ \A t \in Threads : byThread'[t] = IF t \in S /\ byThread[t] = p THEN NoPresent
                                                ELSE byThread[t]
<1>1. NoPresent \in 0 .. MaxPresents
  BY BoundIsNat DEF NoPresent
<1>2. byThread \in [Threads -> 0 .. MaxPresents]
  BY DEF TypeOK
<1>. QED BY <1>1, <1>2 DEF Off

\* What is left of a sequence when its first e is removed.
LEMMA RemoveFirstIs ==
    ASSUME NEW S, NEW s \in Seq(S), NEW e, \E i \in 1 .. Len(s) : s[i] = e
    PROVE  \E k \in 1 .. Len(s) :
             /\ s[k] = e
             /\ RemoveFirst(s, e) \in Seq(S)
             /\ Len(RemoveFirst(s, e)) = Len(s) - 1
             /\ \A i \in 1 .. Len(s) - 1 :
                  RemoveFirst(s, e)[i] = IF i < k THEN s[i] ELSE s[i + 1]
<1>. DEFINE I == {i \in 1 .. Len(s) : s[i] = e}
            k == Min(I)
            a == SubSeq(s, 1, k - 1)
            b == SubSeq(s, k + 1, Len(s))
<1>1. RemoveFirst(s, e) = a \o b
  BY DEF RemoveFirst, RemoveAt, SelectInSeq
<1>2. k \in I
  <2>1. I \subseteq Nat /\ I # {}
    OBVIOUS
  <2>. HIDE DEF I
  <2>2. \E n \in I : \A m \in I : n <= m
    BY <2>1, LeastNatural
  <2>. QED BY <2>2 DEF Min
<1>3. Len(s) \in Nat /\ k \in 1 .. Len(s) /\ s[k] = e
  BY <1>2
<1>. HIDE DEF k, I
<1>4. a \in Seq(S) /\ Len(a) = k - 1 /\ \A i \in 1 .. k - 1 : a[i] = s[i]
  <2>1. \A i \in 1 .. k - 1 : s[i] \in S
    BY <1>3
  <2>2. 1 \in Int /\ k - 1 \in Int
    BY <1>3
  <2>. QED BY <1>3, <2>1, <2>2, SubSeqProperties
<1>5. b \in Seq(S) /\ Len(b) = Len(s) - k /\ \A i \in 1 .. Len(s) - k : b[i] = s[k + i]
  <2>1. \A i \in k + 1 .. Len(s) : s[i] \in S
    BY <1>3
  <2>2. k + 1 \in Int /\ Len(s) \in Int
    BY <1>3
  <2>. QED BY <1>3, <2>1, <2>2, SubSeqProperties
<1>. HIDE DEF a, b
<1>6. a \o b \in Seq(S) /\ Len(a \o b) = Len(s) - 1
  <2>1. a \o b \in Seq(S) /\ Len(a \o b) = Len(a) + Len(b)
    BY <1>4, <1>5, ConcatProperties
  <2>. QED BY <1>3, <1>4, <1>5, <2>1
<1>7. \A i \in 1 .. Len(s) - 1 : (a \o b)[i] = IF i <= Len(a) THEN a[i] ELSE b[i - Len(a)]
  <2>1. Len(a) + Len(b) = Len(s) - 1
    BY <1>3, <1>4, <1>5
  <2>. QED BY <1>4, <1>5, <2>1, ConcatProperties
<1>8. ASSUME NEW i \in 1 .. Len(s) - 1
      PROVE  (a \o b)[i] = IF i < k THEN s[i] ELSE s[i + 1]
  <2>1. CASE i < k
    BY <1>3, <1>4, <1>5, <2>1
  <2>2. CASE ~(i < k)
    <3>1. i - (k - 1) \in 1 .. Len(s) - k /\ k + (i - (k - 1)) = i + 1
      BY <1>3, <2>2
    <3>2. (a \o b)[i] = IF i <= Len(a) THEN a[i] ELSE b[i - Len(a)]
      BY <1>7
    <3>3. ~(i <= k - 1) /\ Len(a) = k - 1
      BY <1>3, <1>4, <2>2
    <3>. QED BY <1>5, <2>2, <3>1, <3>2, <3>3
  <2>. QED BY <2>1, <2>2
<1>. QED BY <1>1, <1>3, <1>6, <1>8

\* A present that leaves the list of those waiting for DWM leaves the others there.
LEMMA LeavesIs ==
    ASSUME TypeOK, NEW p \in Presents,
           p \in inDwm => \E i \in 1 .. Len(waitingForDWM) : waitingForDWM[i] = p
    PROVE  LET l == LeavesDwm(p)
               w == waitingForDWM
           IN /\ l \in Seq(Presents)
              /\ \A i \in 1 .. Len(l) : \E j \in 1 .. Len(w) : w[j] = l[i]
              /\ \A j \in 1 .. Len(w) : w[j] # p => \E i \in 1 .. Len(l) : l[i] = w[j]
              /\ \A i, j \in 1 .. Len(l) : l[i] = l[j] /\ i # j =>
                   \E a, b \in 1 .. Len(w) : a # b /\ w[a] = l[i] /\ w[b] = l[i]
              /\ p \in inDwm => \A i \in 1 .. Len(l) : l[i] = p =>
                   \E a, b \in 1 .. Len(w) : a # b /\ w[a] = p /\ w[b] = p
<1>. DEFINE l == LeavesDwm(p)
            w == waitingForDWM
            n == Len(w)
<1>1. w \in Seq(Presents)
  BY DEF TypeOK
<1>2. CASE p \notin inDwm
  <2>1. l = w
    BY <1>2 DEF LeavesDwm
  <2>. QED BY <1>1, <1>2, <2>1
<1>3. CASE p \in inDwm
  <2>1. l = RemoveFirst(w, p)
    BY <1>3 DEF LeavesDwm
  <2>2. \E i \in 1 .. n : w[i] = p
    BY <1>3
  <2>3. n \in Nat
    BY <1>1
  <2>. HIDE DEF w
  <2>4. PICK k \in 1 .. n : /\ w[k] = p
                            /\ RemoveFirst(w, p) \in Seq(Presents)
                            /\ Len(RemoveFirst(w, p)) = n - 1
                            /\ \A i \in 1 .. n - 1 :
                                 RemoveFirst(w, p)[i] = IF i < k THEN w[i] ELSE w[i + 1]
    BY <1>1, <2>2, RemoveFirstIs
  <2>5. /\ l \in Seq(Presents) /\ Len(l) = n - 1
        /\ \A i \in 1 .. n - 1 : l[i] = IF i < k THEN w[i] ELSE w[i + 1]
    BY <2>1, <2>4
  <2>. HIDE DEF l, n
  <2>. DEFINE m(i) == IF i < k THEN i ELSE i + 1
  <2>6. /\ \A i \in 1 .. n - 1 : m(i) \in 1 .. n /\ m(i) # k
        /\ \A i, j \in 1 .. n - 1 : i # j => m(i) # m(j)
        /\ \A j \in 1 .. n : j # k => \E i \in 1 .. n - 1 : m(i) = j
    <3>1. ASSUME NEW j \in 1 .. n, j # k PROVE \E i \in 1 .. n - 1 : m(i) = j
      <4>1. CASE j < k
        BY <2>3, <4>1
      <4>2. CASE j > k
        <5>1. j - 1 \in 1 .. n - 1 /\ m(j - 1) = j
          BY <2>3, <4>2
        <5>. QED BY <5>1
      <4>. QED BY <2>3, <3>1, <4>1, <4>2
    <3>2. \A i \in 1 .. n - 1 : m(i) \in 1 .. n /\ m(i) # k
      BY <2>3
    <3>3. \A i, j \in 1 .. n - 1 : i # j => m(i) # m(j)
      BY <2>3
    <3>. QED BY <3>1, <3>2, <3>3
  <2>7. \A i \in 1 .. n - 1 : l[i] = w[m(i)]
    BY <2>5
  <2>. HIDE DEF m
  <2>8. \A i \in 1 .. Len(l) : \E j \in 1 .. n : w[j] = l[i]
    BY <2>5, <2>6, <2>7
  <2>9. \A j \in 1 .. n : w[j] # p => \E i \in 1 .. Len(l) : l[i] = w[j]
    BY <2>4, <2>5, <2>6, <2>7
  <2>10. \A i, j \in 1 .. Len(l) : l[i] = l[j] /\ i # j =>
           \E a, b \in 1 .. n : a # b /\ w[a] = l[i] /\ w[b] = l[i]
    BY <2>5, <2>6, <2>7
  <2>11. \A i \in 1 .. Len(l) : l[i] = p => \E a, b \in 1 .. n : a # b /\ w[a] = p /\ w[b] = p
    BY <2>4, <2>5, <2>6, <2>7
  <2>. QED BY <2>5, <2>8, <2>9, <2>10, <2>11 DEF l, w, n
<1>. QED BY <1>2, <1>3

LEMMA StopTrackingIs ==
    ASSUME TypeOK, NEW p \in Presents, NEW waits, StopTrackingPresent(p, waits)
    PROVE  /\ ordered' = ordered \ {p}
           /\ tracked' \in [0 .. RingSize - 1 -> 0 .. MaxPresents]
           /\ \A i \in 0 .. RingSize - 1 :
                tracked'[i] = IF index[p] = i + 1 THEN NoPresent ELSE tracked[i]
           /\ index' \in [Presents -> 0 .. RingSize]
           /\ \A q \in Presents : index'[q] = IF q = p THEN None ELSE index[q]
           /\ byThread' \in [Threads -> 0 .. MaxPresents]
           /\ waits => \A t \in Threads :
                byThread'[t] = IF t = driver[p] /\ byThread[t] = p THEN NoPresent ELSE byThread[t]
           /\ ~waits => \A t \in Threads :
                byThread'[t] = IF (t = tid[p] \/ t = driver[p]) /\ byThread[t] = p THEN NoPresent
                               ELSE byThread[t]
<1>1. /\ ordered' = ordered \ {p}
      /\ tracked' = IF index[p] = None THEN tracked ELSE [tracked EXCEPT ![index[p] - 1] = NoPresent]
      /\ index' = [index EXCEPT ![p] = None]
      /\ byThread' = Off(IF waits THEN {driver[p]} ELSE {tid[p], driver[p]}, p)
  BY DEF StopTrackingPresent
<1>2. /\ NoPresent = 0 /\ None = 0 /\ NoPresent \in 0 .. MaxPresents /\ None \in 0 .. RingSize
      /\ RingSize \in Nat
  BY BoundIsNat, RingSizeAssumption DEF NoPresent, None
<1>3. /\ tracked \in [0 .. RingSize - 1 -> 0 .. MaxPresents]
      /\ index \in [Presents -> 0 .. RingSize]
  BY DEF TypeOK
<1>4. index' \in [Presents -> 0 .. RingSize]
      /\ \A q \in Presents : index'[q] = IF q = p THEN None ELSE index[q]
  BY <1>1, <1>2, <1>3
<1>5. /\ tracked' \in [0 .. RingSize - 1 -> 0 .. MaxPresents]
      /\ \A i \in 0 .. RingSize - 1 :
           tracked'[i] = IF index[p] = i + 1 THEN NoPresent ELSE tracked[i]
  <2>1. CASE index[p] = None
    BY <1>1, <1>2, <1>3, <2>1
  <2>2. CASE index[p] # None
    <3>1. index[p] \in 1 .. RingSize
      BY <1>2, <1>3, <2>2
    <3>2. index[p] - 1 \in 0 .. RingSize - 1
          /\ \A i \in 0 .. RingSize - 1 : index[p] = i + 1 <=> i = index[p] - 1
      BY <1>2, <3>1
    <3>. DEFINE k == index[p] - 1
    <3>3. tracked' = [tracked EXCEPT ![k] = NoPresent]
      BY <1>1, <2>2
    <3>4. k \in 0 .. RingSize - 1
      BY <3>2
    <3>5. \A i \in 0 .. RingSize - 1 : index[p] = i + 1 <=> i = k
      BY <3>2
    <3>. HIDE DEF k
    <3>. QED BY <1>2, <1>3, <3>3, <3>4, <3>5
  <2>. QED BY <2>1, <2>2
<1>6. byThread' \in [Threads -> 0 .. MaxPresents]
  BY <1>1, OffIs
<1>7. ASSUME waits
      PROVE  \A t \in Threads :
               byThread'[t] = IF t = driver[p] /\ byThread[t] = p THEN NoPresent ELSE byThread[t]
  <2>1. byThread' = Off({driver[p]}, p)
    BY <1>1, <1>7
  <2>. QED BY <2>1, OffIs
<1>8. ASSUME ~waits
      PROVE  \A t \in Threads :
               byThread'[t] = IF (t = tid[p] \/ t = driver[p]) /\ byThread[t] = p THEN NoPresent
                              ELSE byThread[t]
  <2>1. byThread' = Off({tid[p], driver[p]}, p)
    BY <1>1, <1>8
  <2>. QED BY <2>1, OffIs
<1>. QED BY <1>1, <1>4, <1>5, <1>6, <1>7, <1>8

----
\* The types, in parts; that of the ring is in Kept.

ScalarTypes ==
    /\ created \in 0 .. MaxPresents
    /\ hasCompleted \in BOOLEAN
    /\ next \in 0 .. RingSize - 1
    /\ placing \in {"no", "evict", "place", "clear", "emplace"}

PresentTypes ==
    /\ tid \in [Presents -> Threads \cup {None}]
    /\ driver \in [Presents -> Threads \cup {None}]
    /\ swap \in [Presents -> SwapChains \cup {None}]
    /\ final \in [Presents -> Finals]
    /\ deps \in [Presents -> Seq(Presents)]

SetTypes ==
    /\ running \subseteq Created /\ lost \subseteq Created /\ completed \subseteq Created
    /\ waitStop \subseteq Created /\ waitType \subseteq Created
    /\ ordered \subseteq Created
    /\ handed \subseteq Created /\ dropped \subseteq Created

TableTypes ==
    /\ tracked \in [0 .. RingSize - 1 -> 0 .. MaxPresents]
    /\ index \in [Presents -> 0 .. RingSize]
    /\ byThread \in [Threads -> 0 .. MaxPresents]

DwmTypes == waitingForDWM \in Seq(Presents) /\ inDwm \subseteq Created

CallTypes ==
    /\ stack \in Seq(0 .. MaxPresents)
    /\ at \in [Presents -> {"none", "deps", "earlier", "stop", "store"}]
    /\ iter \in [Presents -> Nat]

LEMMA TypesAre ==
    TypeOK <=> /\ ScalarTypes /\ PresentTypes /\ SetTypes /\ TableTypes /\ DwmTypes
               /\ CallTypes /\ ring \in RingType(0 .. MaxPresents)
BY Zenon DEF TypeOK, ScalarTypes, PresentTypes, SetTypes, TableTypes, DwmTypes, CallTypes,
             RingType

LEMMA ScalarTypesNext == IInv /\ Step => ScalarTypes'
<1>. SUFFICES ASSUME IInv, Step PROVE ScalarTypes'
  OBVIOUS
<1>1. CASE UNCHANGED <<created, hasCompleted, next, placing>>
  BY <1>1 DEF IInv, TypeOK, ScalarTypes
<1>2. ASSUME NEW p \in Presents, Begins(p) PROVE ScalarTypes'
  BY <1>2 DEF Begins, FromEvent, FromDiscarding, FromDependents, FromEarlier, IInv, TypeOK,
     ScalarTypes
<1>3. ASSUME NEW p \in Presents, LosesCompleted(p) PROVE ScalarTypes'
  BY <1>3 DEF LosesCompleted, IInv, TypeOK, ScalarTypes, newVars
<1>4. CASE EvictsNothing
  BY <1>4 DEF EvictsNothing, IInv, TypeOK, ScalarTypes, newVars
<1>5. CASE DiscardEnds
  BY <1>5 DEF DiscardEnds, IInv, TypeOK, ScalarTypes, newVars
<1>6. CASE PlaceTracked
  <2>1. next' = GetRingIndex(next + 1) /\ placing' = "clear" /\ UNCHANGED <<created, hasCompleted>>
    BY <1>6 DEF PlaceTracked
  <2>2. next \in Nat /\ next + 1 < 2 * RingSize /\ next + 1 \in Nat /\ next < RingSize
    BY RingSizeAssumption DEF IInv, TypeOK
  <2>3. next' \in 0 .. RingSize - 1
    BY <2>1, <2>2, RingIndexIs, RingSizeAssumption
  <2>. QED BY <2>1, <2>3 DEF IInv, TypeOK, ScalarTypes
<1>7. CASE EmplaceOnThread
  BY <1>7 DEF EmplaceOnThread, IInv, TypeOK, ScalarTypes, newVars
<1>8. ASSUME NEW t \in Threads, NEW chain \in SwapChains, NEW runtime \in BOOLEAN, TrackPresent(t,
             chain, runtime) PROVE ScalarTypes'
  BY <1>8, BoundIsNat DEF TrackPresent, IInv, TypeOK, ScalarTypes
<1>. QED BY <1>1, <1>2, <1>3, <1>4, <1>5, <1>6, <1>7, <1>8 DEF Step, BeginsDiscarding,
     SkipsDependent, SkipsEarlier, DependentsCompleted, EarlierCompleted, StopTracking,
     StoreCompleted, SubmitOnDriverThread, LeaveThread, PresentStopSettles, PresentStopLeaves,
     EventDisplays, WaitForDwm, AttachDependents, EndFlipFrameTypes, DequeuePresentEvents,
     newVars, vars

LEMMA PresentTypesNext == IInv /\ Step => PresentTypes'
<1>. SUFFICES ASSUME IInv, Step PROVE PresentTypes'
  OBVIOUS
<1>1. CASE UNCHANGED <<tid, driver, swap, final, deps>>
  BY <1>1 DEF IInv, TypeOK, PresentTypes
<1>2. ASSUME NEW p \in Presents, Begins(p) PROVE PresentTypes'
  <2>1. final' \in [Presents -> Finals] /\ UNCHANGED <<tid, driver, swap, deps>>
    BY <1>2, BeginsIs DEF Begins, Marked
  <2>. QED BY <2>1 DEF IInv, TypeOK, PresentTypes
<1>3. CASE BeginsDiscarding
  BY <1>3 DEF BeginsDiscarding, IInv, TypeOK, PresentTypes, newVars
<1>4. CASE DependentsCompleted
  <2>1. /\ deps' = IF Top \in waitType THEN deps ELSE [deps EXCEPT ![Top] = <<>>]
        /\ UNCHANGED <<tid, driver, swap, final>>
    BY <1>4 DEF DependentsCompleted, newVars
  <2>2. deps' \in [Presents -> Seq(Presents)]
    <3>1. <<>> \in Seq(Presents)
      OBVIOUS
    <3>. QED BY <2>1, <3>1 DEF IInv, TypeOK
  <2>. QED BY <2>1, <2>2 DEF IInv, TypeOK, PresentTypes
<1>5. ASSUME NEW t \in Threads, NEW chain \in SwapChains, NEW runtime \in BOOLEAN, TrackPresent(t,
             chain, runtime) PROVE PresentTypes'
  BY <1>5 DEF TrackPresent, IInv, TypeOK, PresentTypes, newVars
<1>6. ASSUME NEW t \in Threads, NEW p \in Created, SubmitOnDriverThread(t, p) PROVE PresentTypes'
  BY <1>6 DEF SubmitOnDriverThread, IInv, TypeOK, PresentTypes, newVars
<1>7. ASSUME NEW p \in Created, NEW f \in Finals, EventDisplays(p, f) PROVE PresentTypes'
  BY <1>7 DEF EventDisplays, IInv, TypeOK, PresentTypes, newVars
<1>8. ASSUME NEW p \in Created, AttachDependents(p) PROVE PresentTypes'
  <2>1. /\ deps' = [deps EXCEPT ![p] = waitingForDWM] /\ p \in Presents
        /\ UNCHANGED <<tid, driver, swap, final>>
    BY <1>8, CreatedArePresents DEF AttachDependents, newVars, IInv
  <2>2. deps' \in [Presents -> Seq(Presents)]
    BY <2>1 DEF IInv, TypeOK
  <2>. QED BY <2>1, <2>2 DEF IInv, TypeOK, PresentTypes
<1>. QED BY <1>1, <1>2, <1>3, <1>4, <1>5, <1>6, <1>7, <1>8 DEF Step, LosesCompleted,
     SkipsDependent, SkipsEarlier, EvictsNothing, DiscardEnds, EarlierCompleted, StopTracking,
     StoreCompleted, PlaceTracked, EmplaceOnThread, LeaveThread, PresentStopSettles,
     PresentStopLeaves, WaitForDwm, EndFlipFrameTypes, DequeuePresentEvents, newVars, vars

LEMMA SetTypesNext == IInv /\ Step => SetTypes'
<1>. SUFFICES ASSUME IInv, Step PROVE SetTypes'
  OBVIOUS
<1>1. CASE UNCHANGED <<created, running, lost, completed, waitStop, waitType, ordered, handed,
                       dropped>>
  BY <1>1 DEF IInv, TypeOK, SetTypes, Created
<1>2. ASSUME NEW p \in Presents, Begins(p) PROVE SetTypes'
  <2>1. /\ p \in Created /\ created' = created
        /\ UNCHANGED <<ordered, handed, dropped>>
        /\ running' \subseteq running
    BY <1>2, BeginsIs DEF Begins, newVars, tableVars, outVars
  <2>2. PICK it : Marked(p, it)
    BY <1>2, BeginsIs
  <2>3. \A i \in 1 .. Len(deps[p]) : deps[p][i] \in Created
    BY DEF IInv, Iterating
  <2>4. /\ completed' \subseteq completed \cup {p} /\ lost' \subseteq Created
        /\ waitStop' \subseteq waitStop \cup {p}
        /\ \A q \in waitType' : q \in waitType \/ q \in Created
    BY <2>1, <2>2, <2>3 DEF Marked
  <2>. HIDE DEF IInv
  <2>5. SetTypes
    BY TypesAre DEF IInv
  <2>6. completed' \subseteq Created /\ waitStop' \subseteq Created /\ waitType' \subseteq Created
    BY <2>1, <2>4, <2>5 DEF SetTypes
  <2>7. Created' = Created
    BY <2>1 DEF Created
  <2>. QED BY <2>1, <2>4, <2>5, <2>6, <2>7 DEF SetTypes
<1>3. ASSUME NEW p \in Presents, LosesCompleted(p) PROVE SetTypes'
  BY <1>3 DEF LosesCompleted, IInv, TypeOK, SetTypes, Created, newVars, tableVars, outVars,
     flagVars
<1>4. CASE BeginsDiscarding
  BY <1>4 DEF BeginsDiscarding, IInv, TypeOK, SetTypes, Created, newVars, tableVars, outVars,
     flagVars
<1>5. CASE SkipsEarlier
  BY <1>5 DEF SkipsEarlier, IInv, TypeOK, SetTypes, Created, newVars, tableVars, outVars, flagVars
<1>6. CASE StopTracking
  <2>1. Top \in Presents /\ StopTrackingPresent(Top, Top \in waitStop)
    BY <1>6, TopIs DEF StopTracking, At
  <2>2. /\ ordered' \subseteq ordered
        /\ UNCHANGED <<created, running, lost, completed, waitStop, waitType, handed, dropped>>
    BY <1>6, <2>1 DEF StopTracking, StopTrackingPresent, newVars, flagVars, outVars
  <2>. QED BY <2>2 DEF IInv, TypeOK, SetTypes, Created
<1>7. CASE StoreCompleted
  <2>1. /\ UNCHANGED <<created, running, completed, handed>>
        /\ \A p : p \in dropped' => p \in Entries(ring) \/ p \in dropped \/ p = Top
        /\ Top \in completed
        /\ \/ UNCHANGED <<lost, waitStop, waitType, ordered>>
           \/ \E h \in Presents : GivesUp(h)
    BY <1>7, StoreCompletedIs DEF newVars, tableVars
  <2>2. /\ lost' \subseteq Created
        /\ waitStop' \subseteq waitStop /\ waitType' \subseteq waitType /\ ordered' \subseteq ordered
    <3>1. lost \subseteq Created
      BY DEF IInv, TypeOK
    <3>. HIDE DEF IInv
    <3>. QED BY <2>1, <3>1 DEF GivesUp, StopTrackingPresent
  <2>3. \A p \in Entries(ring) : p \in completed
    BY DEF IInv, Kept
  <2>4. dropped' \subseteq Created
    BY <2>1, <2>3 DEF IInv, TypeOK
  <2>. QED BY <2>1, <2>2, <2>4 DEF IInv, TypeOK, SetTypes, Created
<1>8. CASE PlaceTracked
  <2>1. /\ ordered' = ordered \cup {created}
        /\ UNCHANGED <<created, running, lost, completed, waitStop, waitType, handed, dropped>>
    BY <1>8 DEF PlaceTracked, flagVars, outVars
  <2>2. created \in Created
    BY <1>8 DEF PlaceTracked, IInv, TypeOK, Stacked, Created
  <2>. QED BY <2>1, <2>2 DEF IInv, TypeOK, SetTypes, Created
<1>9. ASSUME NEW t \in Threads, NEW chain \in SwapChains, NEW runtime \in BOOLEAN, TrackPresent(t,
             chain, runtime) PROVE SetTypes'
  <2>1. /\ created' = created + 1 /\ running' \subseteq running \cup {created + 1}
        /\ UNCHANGED <<ordered, lost, completed, waitStop, waitType, handed, dropped>>
    BY <1>9 DEF TrackPresent, flagVars, tableVars, outVars
  <2>2. SetTypes
    BY TypesAre DEF IInv
  <2>3. Created \subseteq Created' /\ created + 1 \in Created'
    BY <2>1, CreatedArePresents DEF IInv, Created
  <2>. HIDE DEF IInv
  <2>. QED BY <2>1, <2>2, <2>3 DEF SetTypes
<1>10. ASSUME NEW t \in Threads, PresentStopSettles(t) PROVE SetTypes'
  BY <1>10 DEF PresentStopSettles, IInv, TypeOK, SetTypes, Created, newVars, tableVars, outVars,
     flagVars
<1>11. ASSUME NEW t \in Threads, PresentStopLeaves(t) PROVE SetTypes'
  BY <1>11 DEF PresentStopLeaves, IInv, TypeOK, SetTypes, Created, newVars, tableVars, outVars,
     flagVars
<1>12. ASSUME NEW p \in Created, EndFlipFrameTypes(p) PROVE SetTypes'
  <2>1. p \in Presents /\ StopTrackingPresent(p, p \in waitStop)
    BY <1>12, CreatedArePresents DEF EndFlipFrameTypes, IInv
  <2>2. /\ ordered' \subseteq ordered /\ waitType' \subseteq waitType
        /\ UNCHANGED <<created, running, lost, completed, waitStop, handed, dropped>>
    BY <1>12, <2>1 DEF EndFlipFrameTypes, StopTrackingPresent, newVars, flagVars, outVars
  <2>. QED BY <2>2 DEF IInv, TypeOK, SetTypes, Created
<1>13. CASE DequeuePresentEvents
  <2>1. /\ handed' = handed \cup {Entry(ring, i) : i \in 0 .. ring.ready - 1}
        /\ UNCHANGED <<created, running, ordered, lost, completed, waitStop, waitType, dropped>>
    BY <1>13 DEF DequeuePresentEvents, newVars, flagVars, tableVars
  <2>2. {Entry(ring, i) : i \in 0 .. ring.ready - 1} \subseteq Entries(ring)
    <3>1. NoPresent \in Numbers
      BY BoundIsNat DEF NoPresent, Numbers
    <3>. QED BY <3>1, TakeEntries DEF IInv, Kept
  <2>3. Entries(ring) \subseteq completed
    BY DEF IInv, Kept
  <2>4. SetTypes
    BY TypesAre DEF IInv
  <2>5. Created' = Created
    BY <2>1 DEF Created
  <2>. HIDE DEF IInv
  <2>6. handed' \subseteq Created
    BY <2>1, <2>2, <2>3, <2>4 DEF SetTypes
  <2>. QED BY <2>1, <2>4, <2>5, <2>6 DEF SetTypes
<1>. QED BY <1>1, <1>2, <1>3, <1>4, <1>5, <1>6, <1>7, <1>8, <1>9, <1>10, <1>11, <1>12, <1>13 DEF
     Step, SkipsDependent, EvictsNothing, DiscardEnds, DependentsCompleted, EarlierCompleted,
     EmplaceOnThread, SubmitOnDriverThread, LeaveThread, EventDisplays, WaitForDwm,
     AttachDependents, newVars, tableVars, outVars, flagVars, vars

LEMMA TableTypesNext == IInv /\ Step => TableTypes'
<1>. SUFFICES ASSUME IInv, Step PROVE TableTypes'
  OBVIOUS
<1>1. CASE UNCHANGED <<tracked, index, byThread>>
  BY <1>1 DEF IInv, TypeOK, TableTypes
<1>2. ASSUME NEW p \in Presents, LosesCompleted(p) PROVE TableTypes'
  <2>1. UNCHANGED <<tracked, index>> /\ (byThread' = byThread \/ byThread' = Off({tid[p], driver[p]}, p))
    BY <1>2 DEF LosesCompleted, tableVars
  <2>2. byThread' \in [Threads -> 0 .. MaxPresents]
    BY <2>1, OffIs DEF IInv, TypeOK
  <2>. QED BY <2>1, <2>2 DEF IInv, TypeOK, TableTypes
<1>3. CASE StopTracking
  <2>1. Top \in Presents /\ StopTrackingPresent(Top, Top \in waitStop)
    BY <1>3, TopIs DEF StopTracking, At
  <2>. QED BY <2>1, StopTrackingIs DEF IInv, TableTypes
<1>4. CASE StoreCompleted
  <2>1. \/ UNCHANGED <<tracked, index, byThread>>
        \/ \E h \in Presents : StopTrackingPresent(h, FALSE)
    BY <1>4, StoreCompletedIs DEF GivesUp, tableVars
  <2>2. ASSUME NEW h \in Presents, StopTrackingPresent(h, FALSE) PROVE TableTypes'
    BY <2>2, StopTrackingIs DEF IInv, TableTypes
  <2>. QED BY <2>1, <2>2 DEF IInv, TypeOK, TableTypes
<1>5. CASE PlaceTracked
  <2>1. /\ index' = [index EXCEPT ![created] = next + 1]
        /\ tracked' = [tracked EXCEPT ![next] = created]
        /\ UNCHANGED byThread
    BY <1>5 DEF PlaceTracked
  <2>2. next + 1 \in 0 .. RingSize /\ created \in 0 .. MaxPresents
    BY RingSizeAssumption DEF IInv, TypeOK
  <2>3. TableTypes
    BY TypesAre DEF IInv
  <2>. HIDE DEF IInv
  <2>. QED BY <2>1, <2>2, <2>3 DEF TableTypes
<1>6. CASE EmplaceOnThread
  BY <1>6 DEF EmplaceOnThread, IInv, TypeOK, TableTypes, tableVars
<1>7. ASSUME NEW t \in Threads, NEW p \in Created, SubmitOnDriverThread(t, p) PROVE TableTypes'
  <2>1. byThread \in [Threads -> 0 .. MaxPresents] /\ NoPresent \in 0 .. MaxPresents
    BY BoundIsNat DEF IInv, TypeOK, NoPresent
  <2>2. byThread' = [byThread EXCEPT ![t] = p] /\ UNCHANGED <<tracked, index>>
    BY <1>7 DEF SubmitOnDriverThread, tableVars
  <2>3. p \in 0 .. MaxPresents
    BY CreatedArePresents, BoundIsNat DEF IInv, Presents
  <2>. QED BY <2>1, <2>2, <2>3 DEF IInv, TypeOK, TableTypes
<1>8. ASSUME NEW t \in Threads, LeaveThread(t) PROVE TableTypes'
  <2>1. byThread \in [Threads -> 0 .. MaxPresents] /\ NoPresent \in 0 .. MaxPresents
    BY BoundIsNat DEF IInv, TypeOK, NoPresent
  <2>2. byThread' = [byThread EXCEPT ![t] = NoPresent] /\ UNCHANGED <<tracked, index>>
    BY <1>8 DEF LeaveThread, tableVars
  <2>. QED BY <2>1, <2>2 DEF IInv, TypeOK, TableTypes
<1>9. ASSUME NEW t \in Threads, PresentStopSettles(t) PROVE TableTypes'
  <2>1. byThread \in [Threads -> 0 .. MaxPresents] /\ NoPresent \in 0 .. MaxPresents
    BY BoundIsNat DEF IInv, TypeOK, NoPresent
  <2>2. byThread' = [byThread EXCEPT ![t] = NoPresent] /\ UNCHANGED <<tracked, index>>
    BY <1>9 DEF PresentStopSettles, tableVars
  <2>. QED BY <2>1, <2>2 DEF IInv, TypeOK, TableTypes
<1>10. ASSUME NEW t \in Threads, PresentStopLeaves(t) PROVE TableTypes'
  <2>1. byThread \in [Threads -> 0 .. MaxPresents] /\ NoPresent \in 0 .. MaxPresents
    BY BoundIsNat DEF IInv, TypeOK, NoPresent
  <2>2. byThread' = [byThread EXCEPT ![t] = NoPresent] /\ UNCHANGED <<tracked, index>>
    BY <1>10 DEF PresentStopLeaves, tableVars
  <2>. QED BY <2>1, <2>2 DEF IInv, TypeOK, TableTypes
<1>11. ASSUME NEW p \in Created, EndFlipFrameTypes(p) PROVE TableTypes'
  <2>1. p \in Presents /\ StopTrackingPresent(p, p \in waitStop)
    BY <1>11, CreatedArePresents DEF EndFlipFrameTypes, IInv
  <2>. QED BY <2>1, StopTrackingIs DEF IInv, TableTypes
<1>. QED BY <1>1, <1>2, <1>3, <1>4, <1>5, <1>6, <1>7, <1>8, <1>9, <1>10, <1>11 DEF Step, Begins,
     BeginsDiscarding, SkipsDependent, SkipsEarlier, EvictsNothing, DiscardEnds,
     DependentsCompleted, EarlierCompleted, TrackPresent, EventDisplays, WaitForDwm,
     AttachDependents, DequeuePresentEvents, tableVars, vars


\* Presents that leave the tables and the list leave a list.
LEMMA DwmTypesLeave ==
    ASSUME IInv, NEW p \in Presents, NEW waits, StopTrackingPresent(p, waits), created' = created
    PROVE  DwmTypes'
<1>1. waitingForDWM' = LeavesDwm(p) /\ inDwm' = inDwm \ {p} /\ Created' = Created
  BY DEF StopTrackingPresent, Created
<1>2. LeavesDwm(p) \in Seq(Presents)
  <2>1. p \in inDwm => \E i \in 1 .. Len(waitingForDWM) : waitingForDWM[i] = p
    BY DEF IInv, Listed
  <2>. QED BY <2>1, LeavesIs DEF IInv
<1>3. inDwm \subseteq Created
  BY DEF IInv, TypeOK
<1>. QED BY <1>1, <1>2, <1>3 DEF DwmTypes

LEMMA DwmTypesNext == IInv /\ Step => DwmTypes'
<1>. SUFFICES ASSUME IInv, Step PROVE DwmTypes'
  OBVIOUS
<1>1. CASE UNCHANGED <<created, waitingForDWM, inDwm>>
  BY <1>1 DEF IInv, TypeOK, DwmTypes, Created
<1>2. CASE StopTracking
  <2>1. Top \in Presents /\ StopTrackingPresent(Top, Top \in waitStop)
    BY <1>2, TopIs DEF StopTracking, At
  <2>2. created' = created
    BY <1>2 DEF StopTracking, newVars
  <2>. QED BY <2>1, <2>2, DwmTypesLeave
<1>3. CASE StoreCompleted
  <2>1. /\ created' = created
        /\ \/ UNCHANGED <<waitingForDWM, inDwm>>
           \/ \E h \in Presents : StopTrackingPresent(h, FALSE)
    BY <1>3, StoreCompletedIs DEF GivesUp, tableVars, dwmVars, newVars
  <2>2. CASE UNCHANGED <<waitingForDWM, inDwm>>
    BY <2>1, <2>2 DEF IInv, TypeOK, DwmTypes, Created
  <2>. QED BY <2>1, <2>2, DwmTypesLeave
<1>4. ASSUME NEW t \in Threads, NEW chain \in SwapChains, NEW runtime \in BOOLEAN, TrackPresent(t,
             chain, runtime) PROVE DwmTypes'
  <2>1. created' = created + 1 /\ UNCHANGED <<waitingForDWM, inDwm>>
    BY <1>4 DEF TrackPresent, tableVars, dwmVars
  <2>2. Created \subseteq Created'
    BY <2>1, CreatedArePresents DEF IInv, Created
  <2>. QED BY <2>1, <2>2 DEF IInv, TypeOK, DwmTypes
<1>5. ASSUME NEW p \in Created, WaitForDwm(p) PROVE DwmTypes'
  <2>1. /\ waitingForDWM' = Append(waitingForDWM, p) /\ inDwm' = inDwm \cup {p}
        /\ created' = created /\ p \in Presents
    BY <1>5, CreatedArePresents DEF WaitForDwm, newVars, IInv
  <2>. QED BY <2>1 DEF IInv, TypeOK, DwmTypes, Created
<1>6. ASSUME NEW p \in Created, AttachDependents(p) PROVE DwmTypes'
  <2>1. waitingForDWM' = <<>> /\ inDwm' \subseteq inDwm /\ created' = created
    BY <1>6 DEF AttachDependents, newVars
  <2>. QED BY <2>1 DEF IInv, TypeOK, DwmTypes, Created
<1>7. ASSUME NEW p \in Created, EndFlipFrameTypes(p) PROVE DwmTypes'
  <2>1. p \in Presents /\ StopTrackingPresent(p, p \in waitStop)
    BY <1>7, CreatedArePresents DEF EndFlipFrameTypes, IInv
  <2>2. created' = created
    BY <1>7 DEF EndFlipFrameTypes, newVars
  <2>. QED BY <2>1, <2>2, DwmTypesLeave
<1>. QED BY <1>1, <1>2, <1>3, <1>4, <1>5, <1>6, <1>7 DEF Step, Begins, LosesCompleted,
     BeginsDiscarding, SkipsDependent, SkipsEarlier, EvictsNothing, DiscardEnds,
     DependentsCompleted, EarlierCompleted, PlaceTracked, EmplaceOnThread, SubmitOnDriverThread,
     LeaveThread, PresentStopSettles, PresentStopLeaves, EventDisplays, DequeuePresentEvents,
     newVars, tableVars, dwmVars, vars

LEMMA CallTypesNext == IInv /\ Step => CallTypes'
<1>. SUFFICES ASSUME IInv, Step PROVE CallTypes'
  OBVIOUS
<1>1. CASE UNCHANGED <<stack, at, iter>>
  BY <1>1 DEF IInv, TypeOK, CallTypes
<1>2. ASSUME NEW p \in Presents, Begins(p) PROVE CallTypes'
  <2>1. /\ p \in Numbers /\ iter' \in [Presents -> Nat] /\ \E it : Marked(p, it)
    BY <1>2, BeginsIs
  <2>2. stack' = Append(stack, p) /\ at' = [at EXCEPT ![p] = "deps"]
    BY <2>1 DEF Marked
  <2>3. stack' \in Seq(0 .. MaxPresents)
    BY <2>1, <2>2, PushIs DEF IInv, Numbers
  <2>. QED BY <2>1, <2>2, <2>3 DEF IInv, TypeOK, CallTypes
<1>3. CASE BeginsDiscarding
  <2>1. stack' = Append(stack, Discarding) /\ UNCHANGED <<at, iter>>
    BY <1>3 DEF BeginsDiscarding
  <2>2. Discarding \in Numbers
    BY BoundIsNat DEF Discarding, Numbers
  <2>3. stack' \in Seq(0 .. MaxPresents)
    BY <2>1, <2>2, PushIs DEF IInv, Numbers
  <2>. QED BY <2>1, <2>3 DEF IInv, TypeOK, CallTypes
<1>4. CASE SkipsDependent
  <2>1. /\ iter[Top] > 0 /\ iter' = [iter EXCEPT ![Top] = iter[Top] - 1] /\ UNCHANGED <<stack, at>>
        /\ Top \in Presents
    BY <1>4, TopIs DEF SkipsDependent, At
  <2>2. iter \in [Presents -> Nat]
    BY DEF IInv, TypeOK
  <2>3. iter[Top] - 1 \in Nat
    BY <2>1, <2>2
  <2>. QED BY <2>1, <2>2, <2>3 DEF IInv, TypeOK, CallTypes
<1>5. CASE SkipsEarlier
  <2>1. PICK n \in 0 .. created : iter' = [iter EXCEPT ![Top] = n]
    BY <1>5 DEF SkipsEarlier
  <2>2. n \in Nat /\ UNCHANGED <<stack, at>>
    BY <1>5, CreatedArePresents DEF SkipsEarlier, IInv
  <2>. QED BY <2>1, <2>2 DEF IInv, TypeOK, CallTypes
<1>6. CASE DiscardEnds
  <2>1. stack' = Pop /\ stack # <<>>
    BY <1>6 DEF DiscardEnds, At
  <2>2. stack' \in Seq(0 .. MaxPresents)
    BY <2>1, PopIs DEF IInv, Numbers
  <2>3. UNCHANGED <<at, iter>>
    BY <1>6 DEF DiscardEnds
  <2>. QED BY <2>2, <2>3 DEF IInv, TypeOK, CallTypes
<1>7. CASE DependentsCompleted
  <2>1. /\ \/ iter' = iter
           \/ \E n \in 0 .. created : iter' = [iter EXCEPT ![Top] = n]
        /\ at' = [at EXCEPT ![Top] = "earlier"] \/ at' = [at EXCEPT ![Top] = "stop"]
        /\ UNCHANGED stack
    BY <1>7 DEF DependentsCompleted
  <2>2. \A n \in 0 .. created : n \in Nat
    BY CreatedArePresents DEF IInv
  <2>3. iter' \in [Presents -> Nat]
    BY <2>1, <2>2 DEF IInv, TypeOK
  <2>. QED BY <2>1, <2>3 DEF IInv, TypeOK, CallTypes
<1>8. CASE EarlierCompleted
  BY <1>8 DEF EarlierCompleted, IInv, TypeOK, CallTypes, callVars
<1>9. CASE StopTracking
  BY <1>9 DEF StopTracking, IInv, TypeOK, CallTypes, callVars
<1>10. CASE StoreCompleted
  <2>1. stack' = Pop /\ stack # <<>>
    BY <1>10 DEF StoreCompleted, At
  <2>2. stack' \in Seq(0 .. MaxPresents)
    BY <2>1, PopIs DEF IInv, Numbers
  <2>3. at' = [at EXCEPT ![Top] = "none"] /\ UNCHANGED iter
    BY <1>10 DEF StoreCompleted
  <2>. QED BY <2>2, <2>3 DEF IInv, TypeOK, CallTypes
<1>. QED BY <1>1, <1>2, <1>3, <1>4, <1>5, <1>6, <1>7, <1>8, <1>9, <1>10 DEF Step, LosesCompleted,
     EvictsNothing, PlaceTracked, EmplaceOnThread, TrackPresent, SubmitOnDriverThread,
     LeaveThread, PresentStopSettles, PresentStopLeaves, EventDisplays, WaitForDwm,
     AttachDependents, EndFlipFrameTypes, DequeuePresentEvents, callVars, vars

----
\* The ring.

\* Only the ready count of the ring moves.
LEMMA KeptReady ==
    ASSUME IInv, NEW D, ring' = UpdateReadyCount(ring, D) \/ ring' = ring,
           UNCHANGED <<completed, at, handed, dropped>>
    PROVE  Kept'
<1>1. RingOK(ring, Numbers) /\ Distinct(ring)
  BY DEF IInv, Kept
<1>2. RingOK(ring', Numbers) /\ Distinct(ring') /\ Entries(ring') = Entries(ring)
  <2>1. CASE ring' = UpdateReadyCount(ring, D)
    BY <1>1, <2>1, ReadyCountIs, ReadyEntries
  <2>. QED BY <1>1, <2>1
<1>. QED BY <1>2 DEF IInv, Kept

\* The present on top of the stack goes on.
LEMMA KeptGoesOn ==
    ASSUME IInv, stack # <<>>, Top # Discarding, NEW x, x # "none", at' = [at EXCEPT ![Top] = x],
           UNCHANGED <<completed, ring, handed, dropped>>
    PROVE  Kept'
<1>1. Top \in Presents /\ at[Top] # "none"
  BY TopIs
<1>2. \A p \in Presents : at'[p] = "none" <=> at[p] = "none"
  BY <1>1 DEF IInv, TypeOK
<1>. QED BY <1>2 DEF IInv, Kept

LEMMA KeptNext == IInv /\ Step => Kept'
<1>. SUFFICES ASSUME IInv, Step PROVE Kept'
  OBVIOUS
<1>1. CASE UNCHANGED <<completed, at, ring, handed, dropped>>
  BY <1>1 DEF IInv, Kept
<1>2. ASSUME NEW p \in Presents, Begins(p) PROVE Kept'
  <2>1. /\ p \notin completed /\ at[p] = "none" /\ UNCHANGED <<ring, handed, dropped>>
        /\ \E it : Marked(p, it)
    BY <1>2, BeginsIs DEF Begins, outVars
  <2>2. completed' = completed \cup {p} /\ at' = [at EXCEPT ![p] = "deps"]
    BY <2>1 DEF Marked
  <2>3. at' \in [Presents -> {"none", "deps", "earlier", "stop", "store"}] /\ at'[p] = "deps"
        /\ \A q \in Presents : q # p => at'[q] = at[q]
    BY <2>2 DEF IInv, TypeOK
  <2>4. \A q \in Presents : q \in completed' /\ at'[q] = "none" <=> q \in completed /\ at[q] = "none"
    <3>. SUFFICES ASSUME NEW q \in Presents
                  PROVE  q \in completed' /\ at'[q] = "none" <=> q \in completed /\ at[q] = "none"
      OBVIOUS
    <3>1. CASE q = p
      BY <2>1, <2>3, <3>1
    <3>2. CASE q # p
      BY <2>2, <2>3, <3>2
    <3>. QED BY <3>1, <3>2
  <2>. QED BY <2>1, <2>4 DEF IInv, Kept
<1>3. ASSUME NEW p \in Presents, LosesCompleted(p) PROVE Kept'
  <2>1. /\ ring' = UpdateReadyCount(ring, (waitStop \ {p}) \cup waitType) \/ ring' = ring
        /\ UNCHANGED <<completed, at, handed, dropped>>
    BY <1>3 DEF LosesCompleted, outVars, callVars
  <2>. QED BY <2>1, KeptReady
<1>4. CASE DependentsCompleted
  <2>1. stack # <<>> /\ Top # Discarding /\ UNCHANGED <<completed, ring, handed, dropped>>
    BY <1>4 DEF DependentsCompleted, At, flagVars, outVars
  <2>2. at' = [at EXCEPT ![Top] = "earlier"] \/ at' = [at EXCEPT ![Top] = "stop"]
    BY <1>4 DEF DependentsCompleted
  <2>3. "earlier" # "none" /\ "stop" # "none"
    OBVIOUS
  <2>. QED BY <2>1, <2>2, <2>3, KeptGoesOn
<1>5. CASE EarlierCompleted
  <2>1. stack # <<>> /\ Top # Discarding /\ UNCHANGED <<completed, ring, handed, dropped>>
    BY <1>5 DEF EarlierCompleted, At, flagVars, outVars
  <2>2. at' = [at EXCEPT ![Top] = "stop"] /\ "stop" # "none"
    BY <1>5 DEF EarlierCompleted
  <2>. QED BY <2>1, <2>2, KeptGoesOn
<1>6. CASE StopTracking
  <2>1. stack # <<>> /\ Top # Discarding /\ UNCHANGED <<completed, ring, handed, dropped>>
    BY <1>6 DEF StopTracking, At, flagVars, outVars
  <2>2. at' = [at EXCEPT ![Top] = "store"] /\ "store" # "none"
    BY <1>6 DEF StopTracking
  <2>. QED BY <2>1, <2>2, KeptGoesOn
<1>7. CASE StoreCompleted
  <2>1. /\ Top \in Presents /\ at[Top] = "store" /\ Top \in completed
        /\ at' = [at EXCEPT ![Top] = "none"]
        /\ UNCHANGED <<completed, handed>>
        /\ RingOK(ring', Numbers) /\ Distinct(ring')
        /\ \A p : p \in Entries(ring') \/ p \in dropped' <=>
                    p \in Entries(ring) \/ p \in dropped \/ p = Top
        /\ Entries(ring') \cap dropped' = {}
        /\ Entries(ring') \subseteq Presents
    BY <1>7, StoreCompletedIs
  <2>. DEFINE T == Top
  <2>2. /\ \A p \in Presents : p \in completed' /\ at'[p] = "none" <=>
               (p \in completed /\ at[p] = "none") \/ p = T
        /\ T \notin handed
    BY <2>1 DEF IInv, TypeOK, Kept
  <2>3. \A p : p \in Entries(ring') \/ p \in dropped' <=>
               p \in Entries(ring) \/ p \in dropped \/ p = T
    BY <2>1
  <2>. HIDE DEF T
  <2>4. Entries(ring') \cap handed' = {} /\ handed' \cap dropped' = {}
    BY <2>1, <2>2, <2>3 DEF IInv, Kept
  <2>. QED BY <2>1, <2>2, <2>3, <2>4 DEF IInv, Kept
<1>8. ASSUME NEW t \in Threads, PresentStopSettles(t) PROVE Kept'
  <2>1. /\ \E D : ring' = UpdateReadyCount(ring, D)
        /\ UNCHANGED <<completed, at, handed, dropped>>
    BY <1>8 DEF PresentStopSettles, outVars, callVars
  <2>. QED BY <2>1, KeptReady
<1>9. ASSUME NEW p \in Created, EndFlipFrameTypes(p) PROVE Kept'
  <2>1. /\ \E D : ring' = UpdateReadyCount(ring, D)
        /\ UNCHANGED <<completed, at, handed, dropped>>
    BY <1>9 DEF EndFlipFrameTypes, outVars, callVars
  <2>. QED BY <2>1, KeptReady
<1>10. CASE DequeuePresentEvents
  <2>. DEFINE taken == {Entry(ring, i) : i \in 0 .. ring.ready - 1}
  <2>1. ring' = TakeReady(ring) /\ handed' = handed \cup taken /\ UNCHANGED <<completed, at, dropped>>
    BY <1>10 DEF DequeuePresentEvents, flagVars, callVars
  <2>2. NoPresent \in Numbers /\ RingOK(ring, Numbers) /\ Distinct(ring)
    BY BoundIsNat DEF NoPresent, Numbers, IInv, Kept
  <2>3. RingOK(ring', Numbers)
    BY <2>1, <2>2, TakeIs
  <2>4. taken \subseteq Entries(ring) /\ Entries(ring') = Entries(ring) \ taken /\ Distinct(ring')
    BY <2>1, <2>2, TakeEntries
  <2>. HIDE DEF taken
  <2>. QED BY <2>1, <2>3, <2>4 DEF IInv, Kept
<1>. QED BY <1>1, <1>2, <1>3, <1>4, <1>5, <1>6, <1>7, <1>8, <1>9, <1>10 DEF Step,
     BeginsDiscarding, SkipsDependent, SkipsEarlier, EvictsNothing, DiscardEnds, PlaceTracked,
     EmplaceOnThread, TrackPresent, SubmitOnDriverThread, LeaveThread, PresentStopLeaves,
     EventDisplays, WaitForDwm, AttachDependents, outVars, flagVars, callVars, vars

LEMMA TypeOKNext == IInv /\ Step => TypeOK'
<1>. SUFFICES ASSUME IInv, Step PROVE TypeOK'
  OBVIOUS
<1>1. ScalarTypes' /\ PresentTypes' /\ SetTypes' /\ TableTypes' /\ DwmTypes' /\ CallTypes'
  BY ScalarTypesNext, PresentTypesNext, SetTypesNext, TableTypesNext, DwmTypesNext, CallTypesNext
<1>2. (ring \in RingType(0 .. MaxPresents))'
  BY KeptNext DEF Kept, RingOK, Numbers
<1>3. TypeOK' <=> /\ ScalarTypes' /\ PresentTypes' /\ SetTypes' /\ TableTypes' /\ DwmTypes'
                  /\ CallTypes' /\ (ring \in RingType(0 .. MaxPresents))'
  BY TypesAre, PTL
<1>. QED BY <1>1, <1>2, <1>3

----
\* The tables.

LEMMA PlacedIs ==
    /\ \A p : p \in Placed <=> p \in Created /\ (placing \in {"evict", "place"} => p # created)
    /\ UNCHANGED created /\ (placing' \in {"evict", "place"} <=> placing \in {"evict", "place"}) =>
         Placed' = Placed
BY DEF Placed, Created

\* A present that is not in the tables cannot leave them.
LEMMA NotTracked ==
    ASSUME IInv, NEW p \in Presents, p \notin ordered, NEW waits, StopTrackingPresent(p, waits)
    PROVE  UNCHANGED <<ordered, tracked, index>>
<1>1. index[p] = None
  BY DEF IInv, Tables
<1>2. index \in [Presents -> 0 .. RingSize]
  BY DEF IInv, TypeOK
<1>. HIDE DEF IInv
<1>3. tracked' = tracked /\ index' = [index EXCEPT ![p] = None] /\ ordered' = ordered \ {p}
  BY <1>1 DEF StopTrackingPresent
<1>4. index' = index
  BY <1>1, <1>2, <1>3
<1>. QED BY <1>3, <1>4

\* The present on top of the stack goes on, or leaves the stack, and the tables stay.
LEMMA TablesGoOn ==
    ASSUME IInv, stack # <<>>, Top # Discarding, NEW x, at' = [at EXCEPT ![Top] = x],
           Early(Top) <=> x \in {"deps", "earlier", "stop"},
           UNCHANGED <<created, completed, ordered, tracked, index, next, placing>>
    PROVE  Tables'
<1>1. Top \in Presents
  BY TopIs
<1>2. \A p \in Presents : Early(p)' <=> Early(p)
  BY <1>1 DEF IInv, TypeOK, Early
<1>3. Placed' = Placed
  BY PlacedIs
<1>. QED BY <1>2, <1>3 DEF IInv, Tables

LEMMA TablesNext == IInv /\ Step => Tables'
<1>. SUFFICES ASSUME IInv, Step PROVE Tables'
  OBVIOUS
<1>1. CASE UNCHANGED <<created, completed, ordered, tracked, index, next, placing, at>>
  BY <1>1 DEF IInv, Tables, Early, Placed, Created
<1>2. ASSUME NEW p \in Presents, Begins(p) PROVE Tables'
  <2>1. /\ p \in ordered /\ p \notin completed
        /\ UNCHANGED <<created, ordered, tracked, index, next>>
        /\ \E it : Marked(p, it)
    BY <1>2, BeginsIs DEF Begins, tableVars
  <2>2. completed' = completed \cup {p} /\ at' = [at EXCEPT ![p] = "deps"]
    BY <2>1 DEF Marked
  <2>3. /\ placing' \in {"evict", "place"} <=> placing \in {"evict", "place"}
        /\ placing' = "place" => placing = "place" \/ p = tracked[next]
    BY <1>2 DEF Begins, FromEvent, FromDiscarding, FromDependents, FromEarlier
  <2>4. Placed' = Placed
    BY <2>1, <2>3, PlacedIs
  <2>5. at' \in [Presents -> {"none", "deps", "earlier", "stop", "store"}] /\ at'[p] = "deps"
        /\ \A q \in Presents : q # p => at'[q] = at[q]
    BY <2>2 DEF IInv, TypeOK
  <2>6. Early(p)' /\ \A q \in Presents : q # p => (Early(q)' <=> Early(q))
    BY <2>5 DEF Early
  <2>7. \A q \in Presents : q \in ordered' <=> q \in Placed' /\ (q \in completed' => Early(q)')
    <3>. SUFFICES ASSUME NEW q \in Presents
                  PROVE  q \in ordered' <=> q \in Placed' /\ (q \in completed' => Early(q)')
      OBVIOUS
    <3>1. CASE q = p
      BY <2>1, <2>4, <2>6, <3>1 DEF IInv, Tables
    <3>2. CASE q # p
      BY <2>1, <2>2, <2>4, <2>6, <3>2 DEF IInv, Tables
    <3>. QED BY <3>1, <3>2
  <2>. QED BY <2>1, <2>2, <2>3, <2>7 DEF IInv, Tables
<1>3. ASSUME NEW p \in Presents, LosesCompleted(p) PROVE Tables'
  <2>1. /\ UNCHANGED <<created, completed, ordered, tracked, index, next, at>>
        /\ placing' \in {"evict", "place"} <=> placing \in {"evict", "place"}
        /\ placing' # "place"
    BY <1>3 DEF LosesCompleted, tableVars, callVars
  <2>2. Placed' = Placed
    BY <2>1, PlacedIs
  <2>. QED BY <2>1, <2>2 DEF IInv, Tables, Early
<1>4. CASE EvictsNothing
  <2>1. /\ UNCHANGED <<created, completed, ordered, tracked, index, next, at>>
        /\ placing' \in {"evict", "place"} <=> placing \in {"evict", "place"}
        /\ placing' = "place" => tracked[next] = NoPresent
    BY <1>4 DEF EvictsNothing, tableVars, callVars, flagVars
  <2>2. Placed' = Placed
    BY <2>1, PlacedIs
  <2>. QED BY <2>1, <2>2 DEF IInv, Tables, Early
<1>5. CASE DependentsCompleted
  <2>1. /\ stack # <<>> /\ Top # Discarding /\ Early(Top)
        /\ UNCHANGED <<created, completed, ordered, tracked, index, next, placing>>
    BY <1>5 DEF DependentsCompleted, At, flagVars, tableVars, newVars, Early
  <2>2. at' = [at EXCEPT ![Top] = "earlier"] \/ at' = [at EXCEPT ![Top] = "stop"]
    BY <1>5 DEF DependentsCompleted
  <2>3. "earlier" \in {"deps", "earlier", "stop"} /\ "stop" \in {"deps", "earlier", "stop"}
    OBVIOUS
  <2>. QED BY <2>1, <2>2, <2>3, TablesGoOn
<1>6. CASE EarlierCompleted
  <2>1. /\ stack # <<>> /\ Top # Discarding /\ Early(Top)
        /\ UNCHANGED <<created, completed, ordered, tracked, index, next, placing>>
    BY <1>6 DEF EarlierCompleted, At, flagVars, tableVars, newVars, Early
  <2>2. at' = [at EXCEPT ![Top] = "stop"] /\ "stop" \in {"deps", "earlier", "stop"}
    BY <1>6 DEF EarlierCompleted
  <2>. QED BY <2>1, <2>2, TablesGoOn
<1>7. CASE StopTracking
  <2>1. /\ Top \in Presents /\ Top \in completed /\ at[Top] = "stop"
        /\ StopTrackingPresent(Top, Top \in waitStop)
        /\ at' = [at EXCEPT ![Top] = "store"]
        /\ UNCHANGED <<created, completed, next, placing>>
    BY <1>7, TopIs DEF StopTracking, At, newVars, flagVars
  <2>. PICK T \in Presents : T = Top
    BY <2>1
  <2>2. /\ T \in Presents /\ T \in completed
        /\ ordered' = ordered \ {T}
        /\ \A i \in 0 .. RingSize - 1 : tracked'[i] = IF index[T] = i + 1 THEN NoPresent ELSE tracked[i]
        /\ \A q \in Presents : index'[q] = IF q = T THEN None ELSE index[q]
    BY <2>1, StopTrackingIs DEF IInv
  <2>3. ~Early(T)' /\ \A q \in Presents : q # T => (Early(q)' <=> Early(q))
    <3>1. at'[T] = "store" /\ \A q \in Presents : q # T => at'[q] = at[q]
      BY <2>1, <2>2 DEF IInv, TypeOK
    <3>. QED BY <2>2, <3>1 DEF Early
  <2>4. Placed' = Placed
    BY <2>1, PlacedIs
  <2>5. \A p \in Presents : p \in ordered' <=> p \in Placed' /\ (p \in completed' => Early(p)')
    <3>. SUFFICES ASSUME NEW p \in Presents
                  PROVE  p \in ordered' <=> p \in Placed' /\ (p \in completed' => Early(p)')
      OBVIOUS
    <3>1. CASE p = T
      BY <2>1, <2>2, <2>3, <3>1
    <3>2. CASE p # T
      BY <2>1, <2>2, <2>3, <2>4, <3>2 DEF IInv, Tables
    <3>. QED BY <3>1, <3>2
  <2>6. \A i \in 0 .. RingSize - 1 :
          tracked'[i] # NoPresent => tracked'[i] \in ordered' /\ index'[tracked'[i]] = i + 1
    <3>. SUFFICES ASSUME NEW i \in 0 .. RingSize - 1, tracked'[i] # NoPresent
                  PROVE  tracked'[i] \in ordered' /\ index'[tracked'[i]] = i + 1
      OBVIOUS
    <3>1. tracked'[i] = tracked[i] /\ index[T] # i + 1 /\ tracked[i] # NoPresent
      BY <2>2
    <3>2. tracked[i] \in ordered /\ index[tracked[i]] = i + 1
      BY <3>1 DEF IInv, Tables
    <3>3. tracked[i] \in Presents /\ tracked[i] # T
      BY <3>1, <3>2, CreatedArePresents DEF IInv, TypeOK
    <3>. QED BY <2>2, <3>1, <3>2, <3>3
  <2>7. \A p \in ordered' : index'[p] # None /\ tracked'[index'[p] - 1] = p
    <3>. SUFFICES ASSUME NEW p \in ordered, p # T PROVE index'[p] # None /\ tracked'[index'[p] - 1] = p
      BY <2>2
    <3>1. p \in Presents
      BY CreatedArePresents DEF IInv, TypeOK
    <3>2. index'[p] = index[p] /\ index[p] # None /\ tracked[index[p] - 1] = p
      BY <2>2, <3>1 DEF IInv, Tables
    <3>3. index[p] - 1 \in 0 .. RingSize - 1
      <4>1. index[p] \in 0 .. RingSize
        BY <3>1 DEF IInv, TypeOK
      <4>2. index[p] # 0
        BY <3>2 DEF None
      <4>. QED BY <4>1, <4>2, RingSizeAssumption
    <3>4. index[T] # (index[p] - 1) + 1
      <4>1. CASE T \in ordered
        <5>1. tracked[index[T] - 1] = T
          BY <4>1 DEF IInv, Tables
        <5>2. index[T] # index[p]
          BY <3>2, <5>1
        <5>3. index[T] \in Nat /\ index[p] \in Nat
          <6>1. index \in [Presents -> 0 .. RingSize]
            BY DEF IInv, TypeOK
          <6>. QED BY <2>2, <3>1, <6>1, RingSizeAssumption
        <5>. QED BY <5>2, <5>3
      <4>2. CASE T \notin ordered
        BY <2>2, <3>3, <4>2 DEF IInv, Tables, None
      <4>. QED BY <4>1, <4>2
    <3>. QED BY <2>2, <3>2, <3>3, <3>4
  <2>8. \A p \in Presents : p \notin ordered' => index'[p] = None
    BY <2>2 DEF IInv, Tables
  <2>9. placing' = "place" => tracked'[next'] = NoPresent \/ tracked'[next'] \in completed'
    <3>1. next \in 0 .. RingSize - 1
      BY DEF IInv, TypeOK
    <3>. QED BY <2>1, <2>2, <3>1 DEF IInv, Tables
  <2>. QED BY <2>5, <2>6, <2>7, <2>8, <2>9 DEF Tables
<1>8. CASE StoreCompleted
  <2>1. /\ stack # <<>> /\ Top # Discarding /\ at[Top] = "store" /\ at' = [at EXCEPT ![Top] = "none"]
        /\ UNCHANGED <<created, completed, next, placing>>
        /\ UNCHANGED tableVars \/ \E h \in Presents : GivesUp(h)
    BY <1>8, StoreCompletedIs DEF newVars, StoreCompleted, At
  <2>2. ASSUME NEW h \in Presents, GivesUp(h) PROVE UNCHANGED <<ordered, tracked, index>>
    <3>1. h \in completed /\ at[h] = "none" /\ StopTrackingPresent(h, FALSE)
      BY <2>2 DEF GivesUp
    <3>2. h \notin ordered
      BY <3>1 DEF IInv, Tables, Early
    <3>. QED BY <3>1, <3>2, NotTracked
  <2>3. UNCHANGED <<ordered, tracked, index>>
    BY <2>1, <2>2 DEF tableVars
  <2>4. Early(Top) <=> "none" \in {"deps", "earlier", "stop"}
    BY <2>1 DEF Early
  <2>. QED BY <2>1, <2>3, <2>4, TablesGoOn
<1>9. CASE PlaceTracked
  <2>. DEFINE c == created
  <2>1. /\ stack = <<>> /\ placing = "place" /\ placing' = "clear"
        /\ index' = [index EXCEPT ![c] = next + 1]
        /\ tracked' = [tracked EXCEPT ![next] = c]
        /\ ordered' = ordered \cup {c}
        /\ UNCHANGED <<created, completed, at>>
    BY <1>9 DEF PlaceTracked, flagVars, callVars
  <2>2. /\ c \in Created /\ c \in Presents /\ c \notin completed /\ c # NoPresent
        /\ next \in 0 .. RingSize - 1 /\ next + 1 # None
    <3>1. created > 0 /\ created \notin completed /\ created \in Nat /\ next \in 0 .. RingSize - 1
      BY <2>1, CreatedArePresents DEF IInv, Stacked, TypeOK
    <3>2. created \in Created
      BY <3>1 DEF Created
    <3>. QED BY <3>1, <3>2, CreatedArePresents DEF NoPresent, None, IInv
  <2>3. \A p \in Presents : at[p] = "none" /\ ~Early(p) /\ ~Early(p)'
    BY <2>1, IdleIs DEF Early
  <2>4. c \notin ordered
    BY <2>1, <2>2, PlacedIs DEF IInv, Tables
  <2>5. \A p : p \in Placed' <=> p \in Placed \/ p = c
    BY <2>1, <2>2 DEF Placed, Created
  <2>6. tracked[next] = NoPresent
    <3>1. tracked[next] # NoPresent => tracked[next] \in ordered /\ tracked[next] \in completed
      BY <2>1, <2>2 DEF IInv, Tables
    <3>2. \A p \in ordered : p \notin completed
      BY <2>1, IdleIs, CreatedArePresents DEF IInv, TypeOK
    <3>. QED BY <3>1, <3>2
  <2>7. /\ \A i \in 0 .. RingSize - 1 : tracked'[i] = IF i = next THEN c ELSE tracked[i]
        /\ \A p \in Presents : index'[p] = IF p = c THEN next + 1 ELSE index[p]
    BY <2>1, <2>2 DEF IInv, TypeOK
  <2>. HIDE DEF c
  <2>8. \A p \in Presents : p \in ordered' <=> p \in Placed' /\ (p \in completed' => Early(p)')
    BY <2>1, <2>2, <2>3, <2>5 DEF IInv, Tables
  <2>9. \A i \in 0 .. RingSize - 1 :
          tracked'[i] # NoPresent => tracked'[i] \in ordered' /\ index'[tracked'[i]] = i + 1
    <3>. SUFFICES ASSUME NEW i \in 0 .. RingSize - 1, tracked'[i] # NoPresent
                  PROVE  tracked'[i] \in ordered' /\ index'[tracked'[i]] = i + 1
      OBVIOUS
    <3>1. CASE i = next
      BY <2>1, <2>2, <2>7, <3>1
    <3>2. CASE i # next
      <4>1. tracked'[i] = tracked[i] /\ tracked[i] \in ordered /\ index[tracked[i]] = i + 1
        BY <2>7, <3>2 DEF IInv, Tables
      <4>2. tracked[i] \in Presents /\ tracked[i] # c
        BY <2>4, <4>1, CreatedArePresents DEF IInv, TypeOK
      <4>. QED BY <2>1, <2>7, <4>1, <4>2
    <3>. QED BY <3>1, <3>2
  <2>10. \A p \in ordered' : index'[p] # None /\ tracked'[index'[p] - 1] = p
    <3>1. index'[c] = next + 1 /\ (next + 1) - 1 = next /\ tracked'[next] = c
      BY <2>2, <2>7
    <3>2. ASSUME NEW p \in ordered PROVE index'[p] # None /\ tracked'[index'[p] - 1] = p
      <4>1. p \in Presents /\ p # c /\ p # NoPresent
        BY <2>4, CreatedArePresents DEF IInv, TypeOK, NoPresent
      <4>2. index'[p] = index[p] /\ index[p] # None /\ tracked[index[p] - 1] = p
        BY <2>7, <4>1 DEF IInv, Tables
      <4>3. index[p] - 1 \in 0 .. RingSize - 1
        <5>1. index[p] \in 0 .. RingSize
          BY <4>1 DEF IInv, TypeOK
        <5>2. index[p] # 0
          BY <4>2 DEF None
        <5>. QED BY <5>1, <5>2, RingSizeAssumption
      <4>4. index[p] - 1 # next
        BY <2>6, <4>1, <4>2
      <4>. QED BY <2>7, <4>2, <4>3, <4>4
    <3>. QED BY <2>1, <2>2, <3>1, <3>2
  <2>11. \A p \in Presents : p \notin ordered' => index'[p] = None
    BY <2>1, <2>7 DEF IInv, Tables
  <2>. QED BY <2>1, <2>8, <2>9, <2>10, <2>11 DEF Tables
<1>10. CASE EmplaceOnThread
  <2>1. /\ UNCHANGED <<created, completed, ordered, tracked, index, next, at>>
        /\ placing' \in {"evict", "place"} <=> placing \in {"evict", "place"}
        /\ placing' # "place"
    BY <1>10 DEF EmplaceOnThread, tableVars, callVars, flagVars
  <2>2. Placed' = Placed
    BY <2>1, PlacedIs
  <2>. QED BY <2>1, <2>2 DEF IInv, Tables, Early
<1>11. ASSUME NEW t \in Threads, NEW chain \in SwapChains, NEW runtime \in BOOLEAN,
             TrackPresent(t, chain, runtime) PROVE Tables'
  <2>1. /\ UNCHANGED <<completed, ordered, tracked, index, next, at>>
        /\ placing = "no" /\ placing' = "evict" /\ created' = created + 1
    BY <1>11 DEF TrackPresent, Idle, tableVars, callVars, flagVars
  <2>2. Placed' = Placed
    BY <2>1, CreatedArePresents DEF IInv, Placed, Created
  <2>. QED BY <2>1, <2>2 DEF IInv, Tables, Early
<1>12. ASSUME NEW p \in Created, EndFlipFrameTypes(p) PROVE Tables'
  <2>1. /\ stack = <<>> /\ p \in waitType /\ StopTrackingPresent(p, p \in waitStop)
        /\ UNCHANGED <<created, completed, next, placing, at>>
    BY <1>12 DEF EndFlipFrameTypes, Idle, newVars, callVars
  <2>2. p \in Presents
    BY CreatedArePresents DEF IInv
  <2>3. p \in completed
    BY <2>1, IdleIs DEF IInv, Waiting
  <2>4. p \notin ordered
    BY <2>1, <2>2, <2>3, IdleIs
  <2>5. UNCHANGED <<ordered, tracked, index>>
    BY <2>1, <2>2, <2>4, NotTracked
  <2>6. Placed' = Placed
    BY <2>1, PlacedIs
  <2>. QED BY <2>1, <2>5, <2>6 DEF IInv, Tables, Early
<1>. QED BY <1>1, <1>2, <1>3, <1>4, <1>5, <1>6, <1>7, <1>8, <1>9, <1>10, <1>11, <1>12 DEF Step,
     BeginsDiscarding, SkipsDependent, SkipsEarlier, DiscardEnds, SubmitOnDriverThread,
     LeaveThread, PresentStopSettles, PresentStopLeaves, EventDisplays, WaitForDwm,
     AttachDependents, DequeuePresentEvents, newVars, tableVars, flagVars, callVars, vars

----
\* The stack.

\* The present on top is on the stack once.
LEMMA TopOnce ==
    ASSUME IInv, stack # <<>>
    PROVE  /\ \A i \in 1 .. Len(stack) : stack[i] = Top <=> i = Len(stack)
           /\ \A i \in 1 .. Len(stack) - 1 : i \in 1 .. Len(stack) /\ stack[i] # Top
<1>1. Len(stack) \in 1 .. Len(stack)
  BY TopIs
<1>2. \A i \in 1 .. Len(stack) - 1 : i \in 1 .. Len(stack) /\ i # Len(stack)
  <2>1. Len(stack) \in Nat
    BY StackIs DEF IInv
  <2>. QED BY <2>1
<1>. QED BY <1>1, <1>2 DEF IInv, Stacked, Top

\* The iterator of the loop over the dependents is in their list.
LEMMA DependentIs ==
    ASSUME IInv, At("deps"), iter[Top] > 0
    PROVE  Top \in Presents /\ iter[Top] \in 1 .. Len(deps[Top])
<1>1. Top \in Presents /\ at[Top] = "deps"
  BY TopIs DEF At
<1>2. iter[Top] \in Nat /\ iter[Top] <= Len(deps[Top]) /\ Len(deps[Top]) \in Nat
  BY <1>1, StackIs DEF IInv, TypeOK, Iterating
<1>. QED BY <1>1, <1>2

LEMMA StackedEmpty ==
    ASSUME IInv, stack = <<>>, UNCHANGED <<stack, at>>,
           placing' # "no" => created' > 0 /\ created' \notin completed'
    PROVE  Stacked'
<1>1. Len(stack') = 0 /\ \A p \in Presents : at'[p] = "none"
  BY StackIs, IdleIs DEF IInv
<1>2. \A i : i \notin 1 .. Len(stack') /\ i \notin 1 .. Len(stack') - 1
  BY <1>1
<1>. QED BY <1>1, <1>2 DEF Stacked

LEMMA StackedGoesOn ==
    ASSUME IInv, stack # <<>>, Top # Discarding, NEW x, x # "none", at' = [at EXCEPT ![Top] = x],
           UNCHANGED <<created, completed, placing, hasCompleted, stack>>
    PROVE  Stacked'
<1>1. PICK T \in Presents : T = Top
  BY TopIs
<1>2. at'[T] = x /\ \A q \in Presents : q # T => at'[q] = at[q]
  BY <1>1 DEF IInv, TypeOK
<1>3. /\ at[T] # "none"
      /\ \A i \in 1 .. Len(stack) - 1 : i \in 1 .. Len(stack) /\ stack[i] # T
      /\ \A i \in 1 .. Len(stack) : stack[i] # Discarding => stack[i] \in Presents
  <2>1. \A i \in 1 .. Len(stack) : stack[i] # Discarding => stack[i] \in Presents
    BY CreatedArePresents DEF IInv, Stacked, TypeOK
  <2>. QED BY <1>1, <2>1, TopIs, TopOnce
<1>4. \A i \in 1 .. Len(stack) : stack[i] # Discarding => at'[stack[i]] # "none"
  BY <1>2, <1>3 DEF IInv, Stacked
<1>5. \A i \in 1 .. Len(stack) - 1 : stack[i] # Discarding => at'[stack[i]] = at[stack[i]]
  BY <1>2, <1>3
<1>6. \A p \in Presents : at'[p] # "none" => at[p] # "none"
  BY <1>2, <1>3
<1>. QED BY <1>4, <1>5, <1>6 DEF IInv, Stacked

LEMMA StackedNext == IInv /\ Step => Stacked'
<1>. SUFFICES ASSUME IInv, Step PROVE Stacked'
  OBVIOUS
<1>1. CASE UNCHANGED <<created, placing, hasCompleted, completed, stack, at>>
  BY <1>1 DEF IInv, Stacked
<1>2. ASSUME NEW p \in Presents, Begins(p) PROVE Stacked'
  <2>1. /\ p \notin completed /\ p # Discarding /\ p \in Numbers /\ p \in ordered
        /\ \A i \in 1 .. Len(stack) : stack[i] # p
        /\ created' = created /\ hasCompleted' = hasCompleted
        /\ \E it : Marked(p, it)
    BY <1>2, BeginsIs DEF Begins
  <2>2. /\ completed' = completed \cup {p} /\ at' = [at EXCEPT ![p] = "deps"]
        /\ stack' = Append(stack, p)
    BY <2>1 DEF Marked
  <2>3. at'[p] = "deps" /\ \A q \in Presents : q # p => at'[q] = at[q]
    BY <2>2 DEF IInv, TypeOK
  <2>4. /\ Len(stack) \in Nat /\ Len(stack') = Len(stack) + 1
        /\ \A i : i \in 1 .. Len(stack') <=> i \in 1 .. Len(stack) \/ i = Len(stack')
        /\ \A i \in 1 .. Len(stack) : stack'[i] = stack[i] /\ i < Len(stack')
        /\ stack'[Len(stack')] = p
    BY <2>1, <2>2, PushIs DEF IInv
  <2>5. \A i \in 1 .. Len(stack) :
          /\ stack[i] = Discarding => i = 1 /\ placing' = "no"
          /\ i = Len(stack) /\ stack[i] # Discarding => at[stack[i]] \in {"deps", "earlier"}
    <3>1. CASE FromEvent(p)
      <4>1. Len(stack) = 0
        BY <3>1, StackIs DEF FromEvent, IInv
      <4>. QED BY <4>1
    <3>2. CASE FromDiscarding(p) \/ FromDependents(p) \/ FromEarlier(p)
      <4>1. /\ Top = Discarding \/ at[Top] \in {"deps", "earlier"}
            /\ placing' = placing
        BY <3>2 DEF FromDiscarding, FromDependents, FromEarlier, At
      <4>. QED BY <4>1 DEF IInv, Stacked, Top
    <3>. QED BY <1>2, <3>1, <3>2 DEF Begins
  <2>6. \A i \in 1 .. Len(stack) : stack[i] # Discarding => stack[i] \in Presents
    BY CreatedArePresents DEF IInv, Stacked, TypeOK
  <2>7. \A i \in 1 .. Len(stack') : stack'[i] = Discarding =>
          i = 1 /\ placing' = "no" /\ ~hasCompleted'
    BY <2>1, <2>4, <2>5 DEF IInv, Stacked
  <2>8. \A i, j \in 1 .. Len(stack') : stack'[i] = stack'[j] => i = j
    BY <2>1, <2>4 DEF IInv, Stacked
  <2>9. \A i \in 1 .. Len(stack') : stack'[i] # Discarding =>
          stack'[i] \in completed' /\ at'[stack'[i]] # "none"
    BY <2>1, <2>2, <2>3, <2>4, <2>6 DEF IInv, Stacked
  <2>10. \A i \in 1 .. Len(stack') - 1 : stack'[i] # Discarding => at'[stack'[i]] \in {"deps", "earlier"}
    <3>. SUFFICES ASSUME NEW i \in 1 .. Len(stack), stack[i] # Discarding
                  PROVE  at'[stack[i]] \in {"deps", "earlier"}
      BY <2>4
    <3>1. at'[stack[i]] = at[stack[i]]
      BY <2>1, <2>3, <2>6
    <3>2. i = Len(stack) \/ i \in 1 .. Len(stack) - 1
      BY <2>4
    <3>. QED BY <2>5, <3>1, <3>2 DEF IInv, Stacked
  <2>11. \A q \in Presents : at'[q] # "none" => \E i \in 1 .. Len(stack') : stack'[i] = q
    <3>. SUFFICES ASSUME NEW q \in Presents, at'[q] # "none"
                  PROVE  \E i \in 1 .. Len(stack') : stack'[i] = q
      OBVIOUS
    <3>1. CASE q = p
      BY <2>4, <3>1
    <3>2. CASE q # p
      <4>1. PICK i \in 1 .. Len(stack) : stack[i] = q
        BY <2>3, <3>2 DEF IInv, Stacked
      <4>. QED BY <2>4, <4>1
    <3>. QED BY <3>1, <3>2
  <2>12. placing' # "no" => created' > 0 /\ created' \notin completed'
    <3>. SUFFICES ASSUME placing' # "no"
                  PROVE  placing # "no" /\ p # created
      BY <2>1, <2>2 DEF IInv, Stacked
    <3>1. CASE FromEvent(p)
      <4>1. CASE placing = "evict"
        BY <2>1, <4>1, PlacedIs DEF IInv, Tables
      <4>2. CASE placing = "clear" /\ p = byThread[tid[created]]
        <5>1. tid[created] \in Threads
          BY <4>2, CreatedArePresents DEF IInv, Stacked, OnThreads, Created
        <5>. QED BY <4>2, <5>1 DEF IInv, OnThreads
      <4>. QED BY <3>1, <4>1, <4>2 DEF FromEvent
    <3>2. CASE FromDiscarding(p)
      <4>1. stack # <<>> /\ Top = Discarding /\ placing' = placing
        BY <3>2 DEF FromDiscarding
      <4>. QED BY <4>1, TopIs
    <3>3. CASE FromDependents(p)
      <4>1. At("deps") /\ iter[Top] > 0 /\ p = deps[Top][iter[Top]] /\ placing' = placing
        BY <3>3 DEF FromDependents
      <4>2. Top \in Presents /\ iter[Top] \in 1 .. Len(deps[Top])
        BY <4>1, DependentIs
      <4>. QED BY <4>1, <4>2 DEF IInv, Iterating
    <3>4. CASE FromEarlier(p)
      <4>1. At("earlier") /\ iter[Top] \in 1 .. Top - 1 /\ p = iter[Top] /\ placing' = placing
        BY <3>4 DEF FromEarlier
      <4>2. Top \in Created
        BY <4>1, TopIs DEF At
      <4>3. created \in Nat
        BY CreatedArePresents DEF IInv
      <4>. QED BY <4>1, <4>2, <4>3 DEF Created
    <3>. QED BY <1>2, <3>1, <3>2, <3>3, <3>4 DEF Begins
  <2>. QED BY <2>7, <2>8, <2>9, <2>10, <2>11, <2>12 DEF Stacked
<1>3. ASSUME NEW p \in Presents, LosesCompleted(p) PROVE Stacked'
  <2>1. /\ stack = <<>> /\ UNCHANGED <<completed, stack, at, created>>
        /\ placing # "no" \/ placing' = "no"
    BY <1>3 DEF LosesCompleted, flagVars, callVars
  <2>2. placing' # "no" => created' > 0 /\ created' \notin completed'
    BY <2>1 DEF IInv, Stacked
  <2>. QED BY <2>1, <2>2, StackedEmpty
<1>4. CASE BeginsDiscarding
  <2>1. /\ Len(stack) = 0 /\ placing = "no" /\ ~hasCompleted
        /\ UNCHANGED <<created, placing, hasCompleted, completed, at>>
        /\ stack' = Append(stack, Discarding)
    BY <1>4, StackIs DEF BeginsDiscarding, Idle, IInv, newVars, flagVars
  <2>2. Discarding \in Numbers
    BY BoundIsNat DEF Discarding, Numbers
  <2>3. Len(stack') = 1 /\ stack'[1] = Discarding
    BY <2>1, <2>2, PushIs DEF IInv
  <2>4. /\ \A i : i \in 1 .. 1 <=> i = 1
        /\ \A i : i \notin 1 .. 0
        /\ \A i : i \notin 1 .. 1 - 1
    OBVIOUS
  <2>. QED BY <2>1, <2>3, <2>4 DEF IInv, Stacked
<1>5. CASE EvictsNothing
  <2>1. /\ stack = <<>> /\ UNCHANGED <<completed, stack, at, created>>
        /\ placing # "no" \/ placing' = "no"
    BY <1>5 DEF EvictsNothing, flagVars, callVars
  <2>2. placing' # "no" => created' > 0 /\ created' \notin completed'
    BY <2>1 DEF IInv, Stacked
  <2>. QED BY <2>1, <2>2, StackedEmpty
<1>6. CASE DiscardEnds
  <2>1. /\ stack # <<>> /\ Top = Discarding /\ stack' = Pop
        /\ UNCHANGED <<created, placing, completed, at>>
    BY <1>6 DEF DiscardEnds, newVars, flagVars
  <2>2. Len(stack) = 1 /\ stack[1] = Discarding /\ placing = "no"
    BY <2>1, TopIs DEF Top
  <2>3. Len(stack') = 0
    BY <2>1, <2>2, PopIs DEF IInv
  <2>4. \A p \in Presents : at[p] = "none"
    BY <2>2, CreatedArePresents DEF IInv, Stacked, Discarding
  <2>5. /\ \A i : i \notin 1 .. 0
        /\ \A i : i \notin 1 .. 0 - 1
    OBVIOUS
  <2>. QED BY <2>1, <2>2, <2>3, <2>4, <2>5 DEF Stacked
<1>7. CASE DependentsCompleted
  <2>1. /\ stack # <<>> /\ Top # Discarding
        /\ UNCHANGED <<created, completed, placing, hasCompleted, stack>>
    BY <1>7 DEF DependentsCompleted, At, flagVars, newVars
  <2>2. at' = [at EXCEPT ![Top] = "earlier"] \/ at' = [at EXCEPT ![Top] = "stop"]
    BY <1>7 DEF DependentsCompleted
  <2>3. "earlier" # "none" /\ "stop" # "none"
    OBVIOUS
  <2>. QED BY <2>1, <2>2, <2>3, StackedGoesOn
<1>8. CASE EarlierCompleted
  <2>1. /\ stack # <<>> /\ Top # Discarding
        /\ UNCHANGED <<created, completed, placing, hasCompleted, stack>>
    BY <1>8 DEF EarlierCompleted, At, flagVars, newVars
  <2>2. at' = [at EXCEPT ![Top] = "stop"] /\ "stop" # "none"
    BY <1>8 DEF EarlierCompleted
  <2>. QED BY <2>1, <2>2, StackedGoesOn
<1>9. CASE StopTracking
  <2>1. /\ stack # <<>> /\ Top # Discarding
        /\ UNCHANGED <<created, completed, placing, hasCompleted, stack>>
    BY <1>9 DEF StopTracking, At, flagVars, newVars
  <2>2. at' = [at EXCEPT ![Top] = "store"] /\ "store" # "none"
    BY <1>9 DEF StopTracking
  <2>. QED BY <2>1, <2>2, StackedGoesOn
<1>10. CASE StoreCompleted
  <2>1. /\ Top \in Presents /\ stack # <<>> /\ Top # Discarding
        /\ at' = [at EXCEPT ![Top] = "none"] /\ stack' = Pop
        /\ UNCHANGED <<created, placing, hasCompleted, completed>>
    BY <1>10, StoreCompletedIs DEF newVars, StoreCompleted, At
  <2>2. PICK T \in Presents : T = Top
    BY <2>1
  <2>3. at'[T] = "none" /\ \A q \in Presents : q # T => at'[q] = at[q]
    BY <2>1, <2>2 DEF IInv, TypeOK
  <2>4. /\ Len(stack) \in Nat /\ Len(stack') = Len(stack) - 1
        /\ \A i : i \in 1 .. Len(stack') <=> i \in 1 .. Len(stack) /\ i # Len(stack)
        /\ \A i \in 1 .. Len(stack') : stack'[i] = stack[i] /\ i < Len(stack)
    BY <2>1, PopIs DEF IInv
  <2>5. \A i \in 1 .. Len(stack) : stack[i] = T <=> i = Len(stack)
    BY <2>1, <2>2, TopOnce
  <2>6. \A i \in 1 .. Len(stack) : stack[i] # Discarding => stack[i] \in Presents
    BY CreatedArePresents DEF IInv, Stacked, TypeOK
  <2>7. \A i \in 1 .. Len(stack') :
          /\ i \in 1 .. Len(stack) /\ i \in 1 .. Len(stack) - 1
          /\ stack'[i] = stack[i]
          /\ stack[i] # Discarding => at'[stack[i]] = at[stack[i]]
    BY <2>3, <2>4, <2>5, <2>6
  <2>8. \A i \in 1 .. Len(stack') - 1 : i \in 1 .. Len(stack')
    BY <2>4
  <2>9. \A q \in Presents : at'[q] # "none" => \E i \in 1 .. Len(stack') : stack'[i] = q
    <3>. SUFFICES ASSUME NEW q \in Presents, at'[q] # "none"
                  PROVE  \E i \in 1 .. Len(stack') : stack'[i] = q
      OBVIOUS
    <3>1. q # T /\ at[q] # "none"
      BY <2>3
    <3>2. PICK i \in 1 .. Len(stack) : stack[i] = q
      BY <3>1 DEF IInv, Stacked
    <3>. QED BY <2>4, <2>5, <2>7, <3>1, <3>2
  <2>10. \A i \in 1 .. Len(stack') : stack'[i] = Discarding =>
           i = 1 /\ placing' = "no" /\ ~hasCompleted'
    BY <2>1, <2>7 DEF IInv, Stacked
  <2>11. \A i, j \in 1 .. Len(stack') : stack'[i] = stack'[j] => i = j
    BY <2>7 DEF IInv, Stacked
  <2>12. \A i \in 1 .. Len(stack') : stack'[i] # Discarding =>
           stack'[i] \in completed' /\ at'[stack'[i]] # "none"
    BY <2>1, <2>7 DEF IInv, Stacked
  <2>13. \A i \in 1 .. Len(stack') - 1 : stack'[i] # Discarding => at'[stack'[i]] \in {"deps", "earlier"}
    BY <2>7, <2>8 DEF IInv, Stacked
  <2>14. placing' # "no" => created' > 0 /\ created' \notin completed'
    BY <2>1 DEF IInv, Stacked
  <2>. QED BY <2>9, <2>10, <2>11, <2>12, <2>13, <2>14 DEF Stacked
<1>11. CASE PlaceTracked
  <2>1. /\ stack = <<>> /\ UNCHANGED <<completed, stack, at, created>>
        /\ placing # "no" \/ placing' = "no"
    BY <1>11 DEF PlaceTracked, flagVars, callVars
  <2>2. placing' # "no" => created' > 0 /\ created' \notin completed'
    BY <2>1 DEF IInv, Stacked
  <2>. QED BY <2>1, <2>2, StackedEmpty
<1>12. CASE EmplaceOnThread
  <2>1. /\ stack = <<>> /\ UNCHANGED <<completed, stack, at, created>>
        /\ placing # "no" \/ placing' = "no"
    BY <1>12 DEF EmplaceOnThread, flagVars, callVars
  <2>2. placing' # "no" => created' > 0 /\ created' \notin completed'
    BY <2>1 DEF IInv, Stacked
  <2>. QED BY <2>1, <2>2, StackedEmpty
<1>13. ASSUME NEW t \in Threads, NEW chain \in SwapChains, NEW runtime \in BOOLEAN,
             TrackPresent(t, chain, runtime) PROVE Stacked'
  <2>1. stack = <<>> /\ UNCHANGED <<completed, stack, at>> /\ created' = created + 1
    BY <1>13 DEF TrackPresent, Idle, flagVars, callVars
  <2>2. created + 1 > 0 /\ created + 1 \notin completed
    BY CreatedArePresents DEF IInv, TypeOK, Created
  <2>. QED BY <2>1, <2>2, StackedEmpty
<1>. QED BY <1>1, <1>2, <1>3, <1>4, <1>5, <1>6, <1>7, <1>8, <1>9, <1>10, <1>11, <1>12, <1>13 DEF
     Step, SkipsDependent, SkipsEarlier, SubmitOnDriverThread, LeaveThread, PresentStopSettles,
     PresentStopLeaves, EventDisplays, WaitForDwm, AttachDependents, EndFlipFrameTypes,
     DequeuePresentEvents, newVars, flagVars, callVars, vars

----
\* The list of the presents that wait for DWM.

\* Present p leaves the list and the tables.
LEMMA ListedLeaves ==
    ASSUME IInv, NEW p \in Presents, NEW waits, StopTrackingPresent(p, waits),
           UNCHANGED <<created, tid>>, placing' # "no" => placing # "no"
    PROVE  Listed'
<1>. DEFINE l == LeavesDwm(p)
            w == waitingForDWM
<1>1. waitingForDWM' = l /\ inDwm' = inDwm \ {p} /\ ordered' = ordered \ {p} /\ Created' = Created
  BY DEF StopTrackingPresent, Created
<1>2. /\ \A j \in 1 .. Len(w) :
           /\ w[j] \in Created /\ Process(w[j]) # DwmProcess
           /\ placing # "no" => w[j] # created
           /\ w[j] \in inDwm \/ (w[j] \in Surfaces /\ w[j] \notin ordered)
      /\ \A i, j \in 1 .. Len(w) : w[i] = w[j] => i = j \/ w[i] \in Surfaces
      /\ \A q \in inDwm : \E j \in 1 .. Len(w) : w[j] = q
  BY DEF IInv, Listed
<1>3. /\ \A i \in 1 .. Len(l) : \E j \in 1 .. Len(w) : w[j] = l[i]
      /\ \A j \in 1 .. Len(w) : w[j] # p => \E i \in 1 .. Len(l) : l[i] = w[j]
      /\ \A i, j \in 1 .. Len(l) : l[i] = l[j] /\ i # j =>
           \E a, b \in 1 .. Len(w) : a # b /\ w[a] = l[i] /\ w[b] = l[i]
      /\ p \in inDwm => \A i \in 1 .. Len(l) : l[i] = p =>
           \E a, b \in 1 .. Len(w) : a # b /\ w[a] = p /\ w[b] = p
  BY <1>2, LeavesIs DEF IInv
<1>. HIDE DEF IInv, l, w
<1>4. ASSUME NEW i \in 1 .. Len(l)
      PROVE  /\ l[i] \in Created /\ ProcessOf[tid'[l[i]]] # DwmProcess
             /\ placing' # "no" => l[i] # created'
             /\ l[i] \in inDwm' \/ (l[i] \in Surfaces /\ l[i] \notin ordered')
  <2>1. PICK j \in 1 .. Len(w) : w[j] = l[i]
    BY <1>3
  <2>2. l[i] \in inDwm' \/ (l[i] \in Surfaces /\ l[i] \notin ordered')
    <3>1. CASE l[i] = p /\ p \in inDwm
      <4>1. PICK a \in 1 .. Len(w), b \in 1 .. Len(w) : a # b /\ w[a] = p /\ w[b] = p
        BY <1>3, <3>1
      <4>2. p \in Surfaces
        BY <1>2, <4>1
      <4>. QED BY <1>1, <3>1, <4>2
    <3>2. CASE ~(l[i] = p /\ p \in inDwm)
      BY <1>1, <1>2, <2>1, <3>2
    <3>. QED BY <3>1, <3>2
  <2>3. ProcessOf[tid'[l[i]]] = Process(l[i])
    BY DEF Process
  <2>4. l[i] \in Created /\ Process(l[i]) # DwmProcess /\ (placing # "no" => l[i] # created)
    BY <1>2, <2>1
  <2>. QED BY <2>2, <2>3, <2>4
<1>5. ASSUME NEW i \in 1 .. Len(l), NEW j \in 1 .. Len(l), l[i] = l[j], i # j
      PROVE  l[i] \in Surfaces
  <2>1. PICK a \in 1 .. Len(w), b \in 1 .. Len(w) : a # b /\ w[a] = l[i] /\ w[b] = l[i]
    BY <1>3, <1>5
  <2>. QED BY <1>2, <2>1
<1>6. ASSUME NEW q \in inDwm' PROVE \E i \in 1 .. Len(l) : l[i] = q
  <2>1. q \in inDwm /\ q # p
    BY <1>1
  <2>2. PICK j \in 1 .. Len(w) : w[j] = q
    BY <1>2, <2>1
  <2>. QED BY <1>3, <2>1, <2>2
<1>. QED BY <1>1, <1>4, <1>5, <1>6 DEF Listed, Process

\* Nothing happens to the list, and no present in it comes into the tables.
LEMMA ListedStays ==
    ASSUME IInv, UNCHANGED <<waitingForDWM, inDwm>>,
           \A i \in 1 .. Len(waitingForDWM) :
             LET q == waitingForDWM[i]
             IN /\ q \in Created => q \in Created' /\ tid'[q] = tid[q]
                /\ placing' # "no" => q # created'
                /\ q \in ordered' => q \in ordered
    PROVE  Listed'
<1>1. Listed
  BY DEF IInv
<1>. HIDE DEF IInv
<1>. QED BY <1>1 DEF Listed, Process

LEMMA ListedNext == IInv /\ Step => Listed'
<1>. SUFFICES ASSUME IInv, Step PROVE Listed'
  OBVIOUS
<1>1. CASE UNCHANGED <<created, tid, placing, ordered, waitingForDWM, inDwm>>
  BY <1>1 DEF IInv, Listed, Created, Process
<1>2. ASSUME NEW p \in Presents, Begins(p) PROVE Listed'
  <2>1. /\ UNCHANGED <<created, tid, ordered, waitingForDWM, inDwm>>
        /\ placing' # "no" => placing # "no"
    BY <1>2 DEF Begins, FromEvent, FromDiscarding, FromDependents, FromEarlier, tableVars, dwmVars, newVars
  <2>2. Created' = Created
    BY <2>1 DEF Created
  <2>. QED BY <2>1, <2>2, ListedStays DEF IInv, Listed
<1>3. ASSUME NEW p \in Presents, LosesCompleted(p) PROVE Listed'
  <2>1. /\ UNCHANGED <<created, tid, ordered, waitingForDWM, inDwm>>
        /\ placing' # "no" => placing # "no"
    BY <1>3 DEF LosesCompleted, tableVars, dwmVars, newVars
  <2>2. Created' = Created
    BY <2>1 DEF Created
  <2>. QED BY <2>1, <2>2, ListedStays DEF IInv, Listed
<1>4. CASE EvictsNothing
  <2>1. /\ UNCHANGED <<created, tid, ordered, waitingForDWM, inDwm>>
        /\ placing' # "no" => placing # "no"
    BY <1>4 DEF EvictsNothing, tableVars, dwmVars, newVars
  <2>2. Created' = Created
    BY <2>1 DEF Created
  <2>. QED BY <2>1, <2>2, ListedStays DEF IInv, Listed
<1>5. CASE StopTracking
  <2>1. Top \in Presents /\ StopTrackingPresent(Top, Top \in waitStop)
    BY <1>5, TopIs DEF StopTracking, At
  <2>2. UNCHANGED <<created, tid, placing>>
    BY <1>5 DEF StopTracking, newVars
  <2>. QED BY <2>1, <2>2, ListedLeaves
<1>6. CASE StoreCompleted
  <2>1. /\ UNCHANGED <<created, tid, placing>>
        /\ \/ UNCHANGED <<ordered, waitingForDWM, inDwm>>
           \/ \E h \in Presents : StopTrackingPresent(h, FALSE)
    BY <1>6, StoreCompletedIs DEF GivesUp, tableVars, dwmVars, newVars
  <2>2. CASE UNCHANGED <<ordered, waitingForDWM, inDwm>>
    <3>1. Created' = Created
      BY <2>1 DEF Created
    <3>. QED BY <2>1, <2>2, <3>1, ListedStays DEF IInv, Listed
  <2>. QED BY <2>1, <2>2, ListedLeaves
<1>7. CASE PlaceTracked
  <2>1. /\ UNCHANGED <<created, tid, waitingForDWM, inDwm>>
        /\ placing # "no" /\ ordered' = ordered \cup {created}
    BY <1>7 DEF PlaceTracked, dwmVars
  <2>2. Created' = Created
    BY <2>1 DEF Created
  <2>. QED BY <2>1, <2>2, ListedStays DEF IInv, Listed
<1>8. CASE EmplaceOnThread
  <2>1. /\ UNCHANGED <<created, tid, ordered, waitingForDWM, inDwm>>
        /\ placing' # "no" => placing # "no"
    BY <1>8 DEF EmplaceOnThread, tableVars, dwmVars, newVars
  <2>2. Created' = Created
    BY <2>1 DEF Created
  <2>. QED BY <2>1, <2>2, ListedStays DEF IInv, Listed
<1>9. ASSUME NEW t \in Threads, NEW chain \in SwapChains, NEW runtime \in BOOLEAN, TrackPresent(t,
             chain, runtime) PROVE Listed'
  <2>1. /\ created' = created + 1 /\ tid' = [tid EXCEPT ![created + 1] = t]
        /\ UNCHANGED <<ordered, waitingForDWM, inDwm>>
    BY <1>9 DEF TrackPresent, tableVars, dwmVars
  <2>2. \A q \in Created : q \in Created' /\ q \in Presents /\ q # created + 1
    BY <2>1, CreatedArePresents DEF IInv, Created
  <2>3. \A q \in Created : tid'[q] = tid[q]
    BY <2>1, <2>2 DEF IInv, TypeOK
  <2>. QED BY <2>1, <2>2, <2>3, ListedStays DEF IInv, Listed
<1>10. ASSUME NEW p \in Created, WaitForDwm(p) PROVE Listed'
  <2>1. /\ Process(p) # DwmProcess /\ placing = "no"
        /\ p \in MembersOf(waitingForDWM) => p \in Surfaces
        /\ waitingForDWM' = Append(waitingForDWM, p) /\ inDwm' = inDwm \cup {p}
        /\ UNCHANGED <<created, tid, placing, ordered>>
    BY <1>10 DEF WaitForDwm, Idle, newVars
  <2>2. /\ waitingForDWM \in Seq(Presents) /\ p \in Presents
    BY CreatedArePresents DEF IInv, TypeOK
  <2>. DEFINE n == Len(waitingForDWM)
  <2>3. /\ n \in Nat /\ Len(waitingForDWM') = n + 1 /\ waitingForDWM'[n + 1] = p
        /\ \A i \in 1 .. n : waitingForDWM'[i] = waitingForDWM[i]
        /\ \A i : i \in 1 .. n + 1 <=> i \in 1 .. n \/ i = n + 1
    BY <2>1, <2>2
  <2>4. (\E i \in 1 .. n : waitingForDWM[i] = p) => p \in Surfaces
    BY <2>1, <2>2 DEF MembersOf
  <2>5. Created' = Created /\ tid' = tid
    BY <2>1 DEF Created
  <2>6. Listed
    BY DEF IInv
  <2>. HIDE DEF n, IInv
  <2>7. ASSUME NEW i \in 1 .. n + 1
        PROVE  /\ waitingForDWM'[i] \in Created'
               /\ ProcessOf[tid'[waitingForDWM'[i]]] # DwmProcess
               /\ waitingForDWM'[i] \in inDwm' \/
                    (waitingForDWM'[i] \in Surfaces /\ waitingForDWM'[i] \notin ordered')
    <3>1. CASE i \in 1 .. n
      <4>1. /\ waitingForDWM[i] \in Created /\ ProcessOf[tid[waitingForDWM[i]]] # DwmProcess
            /\ waitingForDWM[i] \in inDwm \/
                 (waitingForDWM[i] \in Surfaces /\ waitingForDWM[i] \notin ordered)
        BY <2>6, <3>1 DEF Listed, Process, n
      <4>2. waitingForDWM'[i] = waitingForDWM[i]
        BY <2>3, <3>1
      <4>. QED BY <2>1, <2>5, <4>1, <4>2
    <3>2. CASE i = n + 1
      <4>1. waitingForDWM'[i] = p
        BY <2>3, <3>2
      <4>. QED BY <2>1, <2>5, <4>1 DEF Process
    <3>. QED BY <2>3, <3>1, <3>2
  <2>8. ASSUME NEW i \in 1 .. n + 1, NEW j \in 1 .. n + 1, waitingForDWM'[i] = waitingForDWM'[j]
        PROVE  i = j \/ waitingForDWM'[i] \in Surfaces
    <3>1. CASE i \in 1 .. n /\ j \in 1 .. n
      BY <2>3, <2>6, <2>8, <3>1 DEF Listed, n
    <3>2. CASE i = n + 1 \/ j = n + 1
      BY <2>3, <2>4, <2>8, <3>2
    <3>. QED BY <2>3, <3>1, <3>2
  <2>9. ASSUME NEW q \in inDwm' PROVE \E i \in 1 .. n + 1 : waitingForDWM'[i] = q
    <3>1. CASE q \in inDwm
      <4>1. PICK i \in 1 .. n : waitingForDWM[i] = q
        BY <2>6, <3>1 DEF Listed, n
      <4>2. i \in 1 .. n + 1 /\ waitingForDWM'[i] = q
        BY <2>3, <4>1
      <4>. QED BY <4>2
    <3>2. CASE q = p
      <4>1. n + 1 \in 1 .. n + 1
        BY <2>3
      <4>. QED BY <2>3, <3>2, <4>1
    <3>. QED BY <2>1, <3>1, <3>2
  <2>. QED BY <2>1, <2>3, <2>7, <2>8, <2>9 DEF Listed, Process
<1>11. ASSUME NEW p \in Created, AttachDependents(p) PROVE Listed'
  <2>1. waitingForDWM' = <<>> /\ inDwm' = inDwm \ MembersOf(waitingForDWM)
    BY <1>11 DEF AttachDependents
  <2>2. \A q \in inDwm : q \in MembersOf(waitingForDWM)
    <3>1. DOMAIN waitingForDWM = 1 .. Len(waitingForDWM)
      BY DEF IInv, TypeOK
    <3>. QED BY <3>1 DEF IInv, Listed, MembersOf
  <2>3. inDwm' = {}
    BY <2>1, <2>2
  <2>4. \A i : i \notin 1 .. Len(<<>>)
    <3>1. Len(<<>>) = 0
      BY EmptySeq
    <3>. QED BY <3>1
  <2>. QED BY <2>1, <2>3, <2>4 DEF Listed
<1>12. ASSUME NEW p \in Created, EndFlipFrameTypes(p) PROVE Listed'
  <2>1. p \in Presents /\ StopTrackingPresent(p, p \in waitStop)
    BY <1>12, CreatedArePresents DEF EndFlipFrameTypes, IInv
  <2>2. UNCHANGED <<created, tid, placing>>
    BY <1>12 DEF EndFlipFrameTypes, newVars
  <2>. QED BY <2>1, <2>2, ListedLeaves
<1>. QED BY <1>1, <1>2, <1>3, <1>4, <1>5, <1>6, <1>7, <1>8, <1>9, <1>10, <1>11, <1>12 DEF Step,
     BeginsDiscarding, SkipsDependent, SkipsEarlier, DiscardEnds, DependentsCompleted,
     EarlierCompleted, SubmitOnDriverThread, LeaveThread, PresentStopSettles, PresentStopLeaves,
     EventDisplays, DequeuePresentEvents, newVars, tableVars, dwmVars, vars

----
\* The lists and the iterators.

\* Presents that were there before keep what they depend on.
LEMMA DependentsStay ==
    ASSUME IInv, UNCHANGED <<created, tid, deps>>, placing' # "no" => placing # "no"
    PROVE  \A p \in Presents : \A i \in 1 .. Len(deps'[p]) :
             /\ p \in Created' /\ Process(p)' = DwmProcess
             /\ deps'[p][i] \in Created' /\ ProcessOf[tid'[deps'[p][i]]] # DwmProcess
             /\ placing' # "no" => deps'[p][i] # created'
<1>1. Created' = Created
  BY DEF Created
<1>. QED BY <1>1 DEF IInv, Iterating, Process

\* No iterator counts while no completion is under way.
LEMMA IteratingEmpty ==
    ASSUME IInv, stack = <<>>, UNCHANGED <<created, tid, deps, at>>, placing' # "no" => placing # "no"
    PROVE  Iterating'
<1>1. \A p \in Presents : at'[p] = "none"
  BY IdleIs
<1>2. \A p \in Presents : \A i \in 1 .. Len(deps'[p]) :
             /\ p \in Created' /\ Process(p)' = DwmProcess
             /\ deps'[p][i] \in Created' /\ ProcessOf[tid'[deps'[p][i]]] # DwmProcess
             /\ placing' # "no" => deps'[p][i] # created'
  BY DependentsStay
<1>. QED BY <1>1, <1>2 DEF Iterating, Process

\* The first of the presents of a process.
LEMMA FirstIs ==
    ASSUME IInv, NEW n, NEW pid, NEW T, T \subseteq OrderedOf(pid), IsFirst(n, T), n # NoPresent
    PROVE  n \in T /\ n \in ordered /\ Process(n) = pid /\ n \in Presents
<1>1. n \in T
  BY DEF IsFirst
<1>2. n \in ordered /\ Process(n) = pid
  BY <1>1 DEF OrderedOf
<1>. QED BY <1>1, <1>2, CreatedArePresents DEF IInv, TypeOK

\* Presents below the top of the stack are not about to stand on the one that leaves.
LEMMA TopNotIterated ==
    ASSUME IInv, stack # <<>>, Top # Discarding, NEW q \in Presents, q # Top,
           at[q] = "earlier", iter[q] # NoPresent
    PROVE  iter[q] # Top
<1>1. PICK i \in 1 .. Len(stack) : stack[i] = q
  BY DEF IInv, Stacked
<1>2. Len(stack) \in 1 .. Len(stack) /\ i # Len(stack)
  BY <1>1, TopIs DEF Top
<1>3. Below(i, Len(stack))
  BY <1>1, <1>2, CreatedArePresents DEF Below, Discarding, IInv
<1>4. Process(iter[q]) = Process(q)
  BY DEF IInv, Iterating
<1>5. ASSUME iter[q] = Top PROVE FALSE
  <2>1. Process(stack[i]) = Process(stack[Len(stack)])
    BY <1>1, <1>4, <1>5 DEF Top
  <2>2. stack[Len(stack)] < iter[stack[i]]
    BY <1>1, <1>2, <1>3, <2>1 DEF IInv, InOrder, Alike, Ends
  <2>3. Top \in Nat
    BY TopIs, CreatedArePresents DEF IInv
  <2>. QED BY <1>1, <1>5, <2>2, <2>3 DEF Top
<1>. QED BY <1>5

LEMMA IteratingNext == IInv /\ Step => Iterating'
<1>. SUFFICES ASSUME IInv, Step PROVE Iterating'
  OBVIOUS
<1>1. CASE UNCHANGED <<created, deps, at, iter, placing, ordered, tid>>
  BY <1>1 DEF IInv, Iterating, Process, Created
<1>2. ASSUME NEW p \in Presents, Begins(p) PROVE Iterating'
  <2>1. /\ iter'[p] = Len(deps[p]) /\ Len(deps[p]) \in Nat
        /\ UNCHANGED <<created, tid, deps, ordered>>
        /\ \E it : Marked(p, it)
    BY <1>2, BeginsIs DEF Begins, tableVars
  <2>2. placing' # "no" => placing # "no"
    BY <1>2 DEF Begins, FromEvent, FromDiscarding, FromDependents, FromEarlier
  <2>3. at' = [at EXCEPT ![p] = "deps"]
    BY <2>1 DEF Marked
  <2>4. at'[p] = "deps" /\ \A q \in Presents : q # p => at'[q] = at[q]
    BY <2>3 DEF IInv, TypeOK
  <2>5. \A q \in Presents : \A i \in 1 .. Len(deps'[q]) :
             /\ q \in Created' /\ Process(q)' = DwmProcess
             /\ deps'[q][i] \in Created' /\ ProcessOf[tid'[deps'[q][i]]] # DwmProcess
             /\ placing' # "no" => deps'[q][i] # created'
    BY <2>1, <2>2, DependentsStay
  <2>6. \A q \in Presents : q # p /\ iter'[q] # iter[q] =>
          \/ at[q] = "deps" /\ iter[q] > 0 /\ iter'[q] = iter[q] - 1
          \/ /\ at[q] = "earlier"
             /\ iter'[q] # NoPresent => iter'[q] \in ordered /\ Process(iter'[q]) = Process(q)
    <3>. SUFFICES ASSUME NEW q \in Presents, q # p, iter'[q] # iter[q]
                  PROVE  \/ at[q] = "deps" /\ iter[q] > 0 /\ iter'[q] = iter[q] - 1
                         \/ /\ at[q] = "earlier"
                            /\ iter'[q] # NoPresent =>
                                 iter'[q] \in ordered /\ Process(iter'[q]) = Process(q)
      OBVIOUS
    <3>1. /\ at[q] \in {"deps", "earlier"}
          /\ at[q] = "deps" => iter[q] > 0 /\ iter'[q] = iter[q] - 1
          /\ at[q] = "earlier" => IsFirst(iter'[q], {r \in OrderedOf(Process(q)) : r > p})
      BY <1>2, BeginsIters
    <3>2. {r \in OrderedOf(Process(q)) : r > p} \subseteq OrderedOf(Process(q))
      OBVIOUS
    <3>3. at[q] = "earlier" /\ iter'[q] # NoPresent => iter'[q] \in ordered /\ Process(iter'[q]) = Process(q)
      BY <3>1, <3>2, FirstIs
    <3>. QED BY <3>1, <3>3
  <2>7. \A q \in Presents : at'[q] = "deps" => iter'[q] <= Len(deps[q])
    <3>. SUFFICES ASSUME NEW q \in Presents, at'[q] = "deps" PROVE iter'[q] <= Len(deps[q])
      OBVIOUS
    <3>1. q # p => at[q] = "deps" /\ iter[q] <= Len(deps[q])
      BY <2>4 DEF IInv, Iterating
    <3>2. iter[q] \in Nat /\ Len(deps[q]) \in Nat
      BY StackIs DEF IInv, TypeOK
    <3>3. "deps" # "earlier"
      OBVIOUS
    <3>4. q # p => iter'[q] = iter[q] \/ iter'[q] = iter[q] - 1
      BY <2>6, <3>1, <3>3
    <3>. QED BY <2>1, <3>1, <3>2, <3>4
  <2>8. \A q \in Presents : at'[q] = "earlier" /\ iter'[q] # NoPresent =>
           iter'[q] \in ordered /\ Process(iter'[q]) = Process(q)
    <3>. SUFFICES ASSUME NEW q \in Presents, at'[q] = "earlier", iter'[q] # NoPresent
                  PROVE  iter'[q] \in ordered /\ Process(iter'[q]) = Process(q)
      OBVIOUS
    <3>1. q # p /\ at[q] = "earlier" /\ at[q] # "deps"
      BY <2>4
    <3>2. CASE iter'[q] = iter[q]
      BY <3>1, <3>2 DEF IInv, Iterating
    <3>. QED BY <2>6, <3>1, <3>2
  <2>. QED BY <2>1, <2>5, <2>7, <2>8 DEF Iterating, Process
<1>3. ASSUME NEW p \in Presents, LosesCompleted(p) PROVE Iterating'
  <2>1. stack = <<>> /\ UNCHANGED <<created, tid, deps, at>> /\ (placing' # "no" => placing # "no")
    BY <1>3 DEF LosesCompleted, callVars, Idle, newVars
  <2>. QED BY <2>1, IteratingEmpty
<1>4. CASE SkipsDependent
  <2>1. /\ Top \in Presents /\ at[Top] = "deps" /\ iter[Top] > 0
        /\ iter' = [iter EXCEPT ![Top] = iter[Top] - 1]
        /\ UNCHANGED <<created, tid, deps, at, placing, ordered>>
    BY <1>4, TopIs DEF SkipsDependent, At, newVars, tableVars
  <2>2. PICK T \in Presents : T = Top
    BY <2>1
  <2>3. iter[T] \in Nat /\ Len(deps[T]) \in Nat
    BY StackIs DEF IInv, TypeOK
  <2>4. iter'[T] = iter[T] - 1 /\ \A q \in Presents : q # T => iter'[q] = iter[q]
    BY <2>1, <2>2 DEF IInv, TypeOK
  <2>5. iter[T] <= Len(deps[T])
    BY <2>1, <2>2 DEF IInv, Iterating
  <2>6. iter'[T] <= Len(deps[T])
    BY <2>3, <2>4, <2>5
  <2>7. at[T] = "deps" /\ "deps" # "earlier"
    BY <2>1, <2>2
  <2>8. Created' = Created
    BY <2>1 DEF Created
  <2>. QED BY <2>1, <2>4, <2>6, <2>7, <2>8 DEF IInv, Iterating, Process
<1>5. CASE SkipsEarlier
  <2>1. /\ Top \in Presents /\ at[Top] = "earlier"
        /\ UNCHANGED <<created, tid, deps, at, placing, ordered>>
    BY <1>5, TopIs DEF SkipsEarlier, At, newVars, tableVars
  <2>2. PICK n \in 0 .. created :
          /\ IsFirst(n, {r \in OrderedOf(Process(Top)) : r > iter[Top]})
          /\ iter' = [iter EXCEPT ![Top] = n]
    BY <1>5 DEF SkipsEarlier
  <2>3. n # NoPresent => n \in ordered /\ Process(n) = Process(Top)
    <3>1. {r \in OrderedOf(Process(Top)) : r > iter[Top]} \subseteq OrderedOf(Process(Top))
      OBVIOUS
    <3>. QED BY <2>2, <3>1, FirstIs
  <2>4. PICK T \in Presents : T = Top
    BY <2>1
  <2>5. iter'[T] = n /\ \A q \in Presents : q # T => iter'[q] = iter[q]
    BY <2>1, <2>2, <2>4 DEF IInv, TypeOK
  <2>6. at[T] = "earlier" /\ "deps" # "earlier"
    BY <2>1, <2>4
  <2>7. Created' = Created
    BY <2>1 DEF Created
  <2>. QED BY <2>1, <2>3, <2>4, <2>5, <2>6, <2>7 DEF IInv, Iterating, Process
<1>6. CASE EvictsNothing
  <2>1. stack = <<>> /\ UNCHANGED <<created, tid, deps, at>> /\ (placing' # "no" => placing # "no")
    BY <1>6 DEF EvictsNothing, callVars, Idle, newVars
  <2>. QED BY <2>1, IteratingEmpty
<1>7. CASE DependentsCompleted
  <2>1. /\ Top \in Presents /\ Top \in Created
        /\ deps' = deps \/ deps' = [deps EXCEPT ![Top] = <<>>]
        /\ \/ \E n \in 0 .. created : /\ IsFirst(n, OrderedOf(Process(Top)))
                                      /\ at' = [at EXCEPT ![Top] = "earlier"]
                                      /\ iter' = [iter EXCEPT ![Top] = n]
           \/ at' = [at EXCEPT ![Top] = "stop"] /\ iter' = iter
        /\ UNCHANGED <<created, tid, placing, ordered>>
    BY <1>7, TopIs DEF DependentsCompleted, At, newVars, tableVars
  <2>2. PICK T \in Presents : T = Top
    BY <2>1
  <2>3. /\ \A q \in Presents : deps'[q] = deps[q] \/ deps'[q] = <<>>
        /\ \A q \in Presents : q # T => deps'[q] = deps[q]
    BY <2>1, <2>2 DEF IInv, TypeOK
  <2>4. \A i : i \notin 1 .. Len(<<>>)
    <3>1. Len(<<>>) = 0
      BY EmptySeq
    <3>. QED BY <3>1
  <2>5. \A q \in Presents : \A i \in 1 .. Len(deps'[q]) :
             /\ q \in Created' /\ Process(q)' = DwmProcess
             /\ deps'[q][i] \in Created' /\ ProcessOf[tid'[deps'[q][i]]] # DwmProcess
             /\ placing' # "no" => deps'[q][i] # created'
    <3>1. Created' = Created
      BY <2>1 DEF Created
    <3>. QED BY <2>1, <2>3, <2>4, <3>1 DEF IInv, Iterating, Process
  <2>6. /\ at'[T] # "deps" /\ \A q \in Presents : q # T => at'[q] = at[q] /\ iter'[q] = iter[q]
        /\ at'[T] = "earlier" => IsFirst(iter'[T], OrderedOf(Process(T)))
    <3>1. at \in [Presents -> {"none", "deps", "earlier", "stop", "store"}] /\ iter \in [Presents -> Nat]
      BY DEF IInv, TypeOK
    <3>. QED BY <2>1, <2>2, <3>1
  <2>7. at'[T] = "earlier" /\ iter'[T] # NoPresent => iter'[T] \in ordered /\ Process(iter'[T]) = Process(T)
    BY <2>6, FirstIs
  <2>8. \A q \in Presents : at'[q] = "deps" => iter'[q] <= Len(deps'[q])
    BY <2>3, <2>6 DEF IInv, Iterating
  <2>9. \A q \in Presents : at'[q] = "earlier" /\ iter'[q] # NoPresent =>
          iter'[q] \in ordered /\ Process(iter'[q]) = Process(q)
    BY <2>6, <2>7 DEF IInv, Iterating
  <2>. QED BY <2>1, <2>5, <2>8, <2>9 DEF Iterating, Process
<1>8. CASE EarlierCompleted
  <2>1. /\ Top \in Presents /\ at' = [at EXCEPT ![Top] = "stop"]
        /\ iter' = [iter EXCEPT ![Top] = 0]
        /\ UNCHANGED <<created, tid, deps, placing, ordered>>
    BY <1>8, TopIs DEF EarlierCompleted, At, newVars, tableVars
  <2>2. PICK T \in Presents : T = Top
    BY <2>1
  <2>3. /\ at'[T] = "stop"
        /\ \A q \in Presents : q # T => at'[q] = at[q] /\ iter'[q] = iter[q]
    BY <2>1, <2>2 DEF IInv, TypeOK
  <2>4. "stop" # "deps" /\ "stop" # "earlier" /\ Created' = Created
    BY <2>1 DEF Created
  <2>. QED BY <2>1, <2>3, <2>4 DEF IInv, Iterating, Process
<1>9. CASE StopTracking
  <2>1. /\ Top \in Presents /\ stack # <<>> /\ Top # Discarding
        /\ at' = [at EXCEPT ![Top] = "store"] /\ ordered' = ordered \ {Top}
        /\ UNCHANGED <<created, tid, deps, placing, iter>>
    BY <1>9, TopIs DEF StopTracking, StopTrackingPresent, At, newVars
  <2>2. PICK T \in Presents : T = Top
    BY <2>1
  <2>3. at'[T] = "store" /\ \A q \in Presents : q # T => at'[q] = at[q]
    BY <2>1, <2>2 DEF IInv, TypeOK
  <2>4. "store" # "deps" /\ "store" # "earlier" /\ Created' = Created
    BY <2>1 DEF Created
  <2>5. \A q \in Presents : q # T /\ at[q] = "earlier" /\ iter[q] # NoPresent => iter[q] # T
    BY <2>1, <2>2, TopNotIterated
  <2>6. \A q \in Presents : at'[q] = "earlier" /\ iter[q] # NoPresent =>
          iter[q] \in ordered' /\ Process(iter[q]) = Process(q)
    BY <2>1, <2>2, <2>3, <2>4, <2>5 DEF IInv, Iterating
  <2>. QED BY <2>1, <2>3, <2>4, <2>6 DEF IInv, Iterating, Process
<1>10. CASE StoreCompleted
  <2>1. /\ Top \in Presents /\ at' = [at EXCEPT ![Top] = "none"]
        /\ UNCHANGED <<created, tid, deps, placing, iter>>
        /\ UNCHANGED tableVars \/ \E h \in Presents : GivesUp(h)
    BY <1>10, StoreCompletedIs DEF newVars
  <2>2. ordered' = ordered
    <3>1. ASSUME NEW h \in Presents, GivesUp(h) PROVE ordered' = ordered
      <4>1. h \in completed /\ at[h] = "none" /\ StopTrackingPresent(h, FALSE)
        BY <3>1 DEF GivesUp
      <4>2. h \notin ordered
        BY <4>1 DEF IInv, Tables, Early
      <4>. QED BY <4>1, <4>2, NotTracked
    <3>. QED BY <2>1, <3>1 DEF tableVars
  <2>3. PICK T \in Presents : T = Top
    BY <2>1
  <2>4. at'[T] = "none" /\ \A q \in Presents : q # T => at'[q] = at[q]
    BY <2>1, <2>3 DEF IInv, TypeOK
  <2>5. "none" # "deps" /\ "none" # "earlier" /\ Created' = Created
    BY <2>1 DEF Created
  <2>. QED BY <2>1, <2>2, <2>4, <2>5 DEF IInv, Iterating, Process
<1>11. CASE PlaceTracked
  <2>1. stack = <<>> /\ UNCHANGED <<created, tid, deps, at>> /\ (placing' # "no" => placing # "no")
    BY <1>11 DEF PlaceTracked, callVars, Idle, newVars
  <2>. QED BY <2>1, IteratingEmpty
<1>12. CASE EmplaceOnThread
  <2>1. stack = <<>> /\ UNCHANGED <<created, tid, deps, at>> /\ (placing' # "no" => placing # "no")
    BY <1>12 DEF EmplaceOnThread, callVars, Idle, newVars
  <2>. QED BY <2>1, IteratingEmpty
<1>13. ASSUME NEW t \in Threads, NEW chain \in SwapChains, NEW runtime \in BOOLEAN,
             TrackPresent(t, chain, runtime) PROVE Iterating'
  <2>1. /\ stack = <<>> /\ created' = created + 1
        /\ tid' = [tid EXCEPT ![created + 1] = t]
        /\ UNCHANGED <<deps, at>>
    BY <1>13 DEF TrackPresent, Idle, callVars
  <2>2. \A p \in Presents : at'[p] = "none"
    BY <2>1, IdleIs
  <2>3. /\ \A p \in Created : p \in Created' /\ p \in Presents /\ p # created + 1
        /\ created + 1 \notin Created
    BY <2>1, CreatedArePresents DEF IInv, Created
  <2>4. \A p \in Created : tid'[p] = tid[p]
    BY <2>1, <2>3 DEF IInv, TypeOK
  <2>5. \A p \in Presents : \A i \in 1 .. Len(deps[p]) : p \in Created /\ deps[p][i] \in Created
    BY DEF IInv, Iterating
  <2>. QED BY <2>1, <2>2, <2>3, <2>4, <2>5 DEF IInv, Iterating, Process
<1>14. ASSUME NEW p \in Created, AttachDependents(p) PROVE Iterating'
  <2>1. /\ stack = <<>> /\ placing = "no"
        /\ Process(p) = DwmProcess
        /\ deps' = [deps EXCEPT ![p] = waitingForDWM]
        /\ UNCHANGED <<created, tid, placing, at>>
    BY <1>14 DEF AttachDependents, Idle, newVars, callVars
  <2>2. \A q \in Presents : at'[q] = "none"
    BY <2>1, IdleIs
  <2>3. p \in Presents
    BY CreatedArePresents DEF IInv
  <2>4. /\ deps'[p] = waitingForDWM
        /\ \A q \in Presents : q # p => deps'[q] = deps[q]
    BY <2>1, <2>3 DEF IInv, TypeOK
  <2>5. Created' = Created
    BY <2>1 DEF Created
  <2>6. \A q \in Presents : \A i \in 1 .. Len(deps'[q]) :
             /\ q \in Created' /\ Process(q)' = DwmProcess
             /\ deps'[q][i] \in Created' /\ ProcessOf[tid'[deps'[q][i]]] # DwmProcess
             /\ placing' # "no" => deps'[q][i] # created'
    <3>. SUFFICES ASSUME NEW q \in Presents, NEW i \in 1 .. Len(deps'[q])
                  PROVE  /\ q \in Created /\ Process(q) = DwmProcess
                         /\ deps'[q][i] \in Created /\ Process(deps'[q][i]) # DwmProcess
      BY <2>1, <2>5 DEF Process
    <3>1. CASE q = p
      BY <2>1, <2>4, <3>1 DEF IInv, Listed
    <3>2. CASE q # p
      BY <2>4, <3>2 DEF IInv, Iterating
    <3>. QED BY <3>1, <3>2
  <2>. QED BY <2>2, <2>6 DEF Iterating, Process
<1>15. ASSUME NEW p \in Created, EndFlipFrameTypes(p) PROVE Iterating'
  <2>1. stack = <<>> /\ UNCHANGED <<created, tid, deps, at>> /\ (placing' # "no" => placing # "no")
    BY <1>15 DEF EndFlipFrameTypes, callVars, Idle, newVars
  <2>. QED BY <2>1, IteratingEmpty
<1>. QED BY <1>1, <1>2, <1>3, <1>4, <1>5, <1>6, <1>7, <1>8, <1>9, <1>10, <1>11, <1>12, <1>13,
     <1>14, <1>15 DEF Step, BeginsDiscarding, DiscardEnds, SubmitOnDriverThread, LeaveThread,
     PresentStopSettles, PresentStopLeaves, EventDisplays, WaitForDwm, DequeuePresentEvents,
     newVars, tableVars, callVars, vars

----
\* Before the first completion has ended.

LEMMA FreshStays ==
    ASSUME IInv, UNCHANGED <<hasCompleted, completed>>, lost \subseteq lost',
           waitStop' \subseteq waitStop, waitType' \subseteq waitType,
           \A p \in Presents : at'[p] = "deps" => at[p] = "deps" /\ deps'[p] = deps[p]
    PROVE  Fresh'
<1>. SUFFICES ASSUME ~hasCompleted' PROVE Fresh'
  BY DEF Fresh
<1>1. /\ completed \subseteq lost /\ waitStop = {} /\ waitType = {}
      /\ \A p \in Presents : at[p] = "deps" => \A i \in 1 .. Len(deps[p]) : deps[p][i] \in lost
  BY DEF IInv, Fresh
<1>. HIDE DEF IInv
<1>. QED BY <1>1 DEF Fresh

\* The present on top of the stack goes on from its dependents, or from a later place.
LEMMA TopMoves ==
    ASSUME IInv, stack # <<>>, Top # Discarding, NEW x, at' = [at EXCEPT ![Top] = x]
    PROVE  \A q \in Presents : at'[q] = IF q = Top THEN x ELSE at[q]
BY TopIs DEF IInv, TypeOK

LEMMA FreshNext == IInv /\ Step => Fresh'
<1>. SUFFICES ASSUME IInv, Step PROVE Fresh'
  OBVIOUS
<1>1. CASE UNCHANGED <<hasCompleted, completed, lost, waitStop, waitType, at, deps>>
  BY <1>1 DEF IInv, Fresh
<1>2. ASSUME NEW p \in Presents, Begins(p) PROVE Fresh'
  <2>1. /\ p \notin completed /\ (hasCompleted \/ p \in lost')
        /\ UNCHANGED <<hasCompleted, deps>>
        /\ \E it : Marked(p, it)
    BY <1>2, BeginsIs DEF Begins
  <2>2. /\ completed' = completed \cup {p} /\ lost \subseteq lost'
        /\ p \in lost' => \A i \in 1 .. Len(deps[p]) : deps[p][i] \in lost'
        /\ p \in lost' => waitStop' = waitStop
        /\ p \in lost' => waitType' = waitType
        /\ at' = [at EXCEPT ![p] = "deps"]
    BY <2>1 DEF Marked
  <2>3. \A q \in Presents : q # p => at'[q] = at[q]
    BY <2>2 DEF IInv, TypeOK
  <2>4. CASE ~hasCompleted
    <3>1. /\ completed \subseteq lost /\ waitStop = {} /\ waitType = {}
          /\ \A q \in Presents : at[q] = "deps" => \A i \in 1 .. Len(deps[q]) : deps[q][i] \in lost
      BY <2>4 DEF IInv, Fresh
    <3>. HIDE DEF IInv
    <3>2. completed' \subseteq lost' /\ waitStop' = {} /\ waitType' = {}
      BY <2>1, <2>2, <2>4, <3>1
    <3>3. ASSUME NEW q \in Presents, at'[q] = "deps"
          PROVE  \A i \in 1 .. Len(deps[q]) : deps[q][i] \in lost'
      <4>1. CASE q = p
        BY <2>1, <2>2, <2>4, <4>1
      <4>2. CASE q # p
        BY <2>2, <2>3, <3>1, <3>3, <4>2
      <4>. QED BY <4>1, <4>2
    <3>. QED BY <2>1, <3>2, <3>3 DEF Fresh
  <2>. QED BY <2>1, <2>4 DEF Fresh
<1>3. ASSUME NEW p \in Presents, LosesCompleted(p) PROVE Fresh'
  <2>1. /\ UNCHANGED <<hasCompleted, completed, at, deps>>
        /\ lost \subseteq lost' /\ waitStop' \subseteq waitStop /\ waitType' \subseteq waitType
    BY <1>3 DEF LosesCompleted, callVars, flagVars
  <2>. QED BY <2>1, FreshStays
<1>4. CASE SkipsEarlier
  <2>1. /\ UNCHANGED <<hasCompleted, completed, at, deps>>
        /\ lost \subseteq lost' /\ waitStop' \subseteq waitStop /\ waitType' \subseteq waitType
    BY <1>4 DEF SkipsEarlier, callVars, flagVars
  <2>. QED BY <2>1, FreshStays
<1>5. CASE DiscardEnds
  BY <1>5 DEF DiscardEnds, Fresh
<1>6. CASE DependentsCompleted
  <2>1. /\ stack # <<>> /\ Top # Discarding
        /\ at' = [at EXCEPT ![Top] = "earlier"] \/ at' = [at EXCEPT ![Top] = "stop"]
        /\ deps' = deps \/ deps' = [deps EXCEPT ![Top] = <<>>]
        /\ UNCHANGED <<hasCompleted, completed, lost, waitStop, waitType>>
    BY <1>6 DEF DependentsCompleted, At, flagVars
  <2>2. \A q \in Presents : at'[q] = "deps" => q # Top /\ at[q] = "deps"
    BY <2>1, TopMoves
  <2>3. \A q \in Presents : q # Top => deps'[q] = deps[q]
    BY <2>1 DEF IInv, TypeOK
  <2>. QED BY <2>1, <2>2, <2>3, FreshStays
<1>7. CASE EarlierCompleted
  <2>1. /\ stack # <<>> /\ Top # Discarding /\ at' = [at EXCEPT ![Top] = "stop"]
        /\ UNCHANGED <<hasCompleted, completed, lost, waitStop, waitType, deps>>
    BY <1>7 DEF EarlierCompleted, At, flagVars
  <2>2. \A q \in Presents : at'[q] = IF q = Top THEN "stop" ELSE at[q]
    BY <2>1, TopMoves
  <2>3. \A q \in Presents : at'[q] = "deps" => at[q] = "deps" /\ deps'[q] = deps[q]
    BY <2>1, <2>2
  <2>. QED BY <2>1, <2>3, FreshStays
<1>8. CASE StopTracking
  <2>1. /\ stack # <<>> /\ Top # Discarding /\ at' = [at EXCEPT ![Top] = "store"]
        /\ UNCHANGED <<hasCompleted, completed, lost, waitStop, waitType, deps>>
    BY <1>8 DEF StopTracking, At, flagVars
  <2>2. \A q \in Presents : at'[q] = IF q = Top THEN "store" ELSE at[q]
    BY <2>1, TopMoves
  <2>3. \A q \in Presents : at'[q] = "deps" => at[q] = "deps" /\ deps'[q] = deps[q]
    BY <2>1, <2>2
  <2>. QED BY <2>1, <2>3, FreshStays
<1>9. CASE StoreCompleted
  <2>1. /\ stack # <<>> /\ Top # Discarding /\ at' = [at EXCEPT ![Top] = "none"]
        /\ UNCHANGED <<hasCompleted, completed, deps>>
        /\ UNCHANGED <<lost, waitStop, waitType>> \/ \E h \in Presents : GivesUp(h)
    BY <1>9, StoreCompletedIs DEF StoreCompleted, At
  <2>2. \A q \in Presents : at'[q] = "deps" => at[q] = "deps"
    <3>1. \A q \in Presents : at'[q] = IF q = Top THEN "none" ELSE at[q]
      BY <2>1, TopMoves
    <3>. QED BY <3>1
  <2>3. lost \subseteq lost' /\ waitStop' \subseteq waitStop /\ waitType' \subseteq waitType
    BY <2>1 DEF GivesUp
  <2>. QED BY <2>1, <2>2, <2>3, FreshStays
<1>10. ASSUME NEW t \in Threads, PresentStopSettles(t) PROVE Fresh'
  <2>1. /\ UNCHANGED <<hasCompleted, completed, at, deps>>
        /\ lost \subseteq lost' /\ waitStop' \subseteq waitStop /\ waitType' \subseteq waitType
    BY <1>10 DEF PresentStopSettles, callVars, flagVars
  <2>. QED BY <2>1, FreshStays
<1>11. ASSUME NEW p \in Created, AttachDependents(p) PROVE Fresh'
  <2>1. stack = <<>> /\ UNCHANGED <<hasCompleted, completed, lost, waitStop, waitType, at>>
    BY <1>11 DEF AttachDependents, Idle, flagVars, callVars
  <2>2. \A q \in Presents : at'[q] # "deps"
    BY <2>1, IdleIs
  <2>. QED BY <2>1, <2>2, FreshStays
<1>12. ASSUME NEW p \in Created, EndFlipFrameTypes(p) PROVE Fresh'
  <2>1. /\ UNCHANGED <<hasCompleted, completed, at, deps>>
        /\ lost \subseteq lost' /\ waitStop' \subseteq waitStop /\ waitType' \subseteq waitType
    BY <1>12 DEF EndFlipFrameTypes, callVars, flagVars
  <2>. QED BY <2>1, FreshStays
<1>. QED BY <1>1, <1>2, <1>3, <1>4, <1>5, <1>6, <1>7, <1>8, <1>9, <1>10, <1>11, <1>12 DEF Step,
     BeginsDiscarding, SkipsDependent, EvictsNothing, PlaceTracked, EmplaceOnThread, TrackPresent,
     SubmitOnDriverThread, LeaveThread, PresentStopLeaves, EventDisplays, WaitForDwm,
     DequeuePresentEvents, flagVars, callVars, vars

----
\* What waits.

LEMMA WaitingStays ==
    ASSUME IInv, waitStop' \subseteq waitStop, waitStop' \subseteq running',
           completed' = completed, waitType' \subseteq waitType,
           \A p \in Presents : \A i \in 1 .. Len(deps[p]) :
             at[p] = "deps" /\ i <= iter[p] =>
               \/ deps[p][i] \in completed
               \/ at'[p] = "deps" /\ i <= iter'[p] /\ deps'[p] = deps[p]
    PROVE  Waiting'
<1>1. /\ waitStop \subseteq completed
      /\ \A q \in waitType : q \in completed \/
           \E p \in Presents : at[p] = "deps" /\ \E i \in 1 .. Len(deps[p]) :
              i <= iter[p] /\ deps[p][i] = q
  BY DEF IInv, Waiting
<1>. HIDE DEF IInv
<1>2. ASSUME NEW q \in waitType', q \notin completed'
      PROVE  \E p \in Presents : at'[p] = "deps" /\ \E i \in 1 .. Len(deps'[p]) :
                i <= iter'[p] /\ deps'[p][i] = q
  <2>1. q \in waitType /\ q \notin completed
    BY <1>2
  <2>2. PICK p \in Presents : at[p] = "deps" /\ \E i \in 1 .. Len(deps[p]) :
                                 i <= iter[p] /\ deps[p][i] = q
    BY <1>1, <2>1
  <2>3. PICK i \in 1 .. Len(deps[p]) : i <= iter[p] /\ deps[p][i] = q
    BY <2>2
  <2>4. at'[p] = "deps" /\ i <= iter'[p] /\ deps'[p] = deps[p]
    BY <2>1, <2>2, <2>3
  <2>. QED BY <2>3, <2>4
<1>. QED BY <1>1, <1>2 DEF Waiting

LEMMA WaitingNext == IInv /\ Step => Waiting'
<1>. SUFFICES ASSUME IInv, Step PROVE Waiting'
  OBVIOUS
<1>1. CASE UNCHANGED <<waitStop, completed, running, waitType, at, iter, deps>>
  BY <1>1 DEF IInv, Waiting
<1>2. ASSUME NEW p \in Presents, Begins(p) PROVE Waiting'
  <2>1. /\ p \notin completed /\ at[p] = "none"
        /\ UNCHANGED deps
        /\ running' \subseteq running /\ waitStop \subseteq running'
        /\ iter'[p] = Len(deps[p]) /\ Len(deps[p]) \in Nat
        /\ \E it : Marked(p, it)
    BY <1>2, BeginsIs DEF Begins
  <2>2. /\ completed' = completed \cup {p}
        /\ waitStop' = waitStop \/ (p \in running' /\ waitStop' = waitStop \cup {p})
        /\ \A q \in waitType' : \/ q \in waitType \/ q = p
                                \/ \E i \in 1 .. Len(deps[p]) : deps[p][i] = q
        /\ at' = [at EXCEPT ![p] = "deps"]
    BY <2>1 DEF Marked
  <2>3. at'[p] = "deps" /\ \A q \in Presents : q # p => at'[q] = at[q]
    BY <2>2 DEF IInv, TypeOK
  <2>4. waitStop' \subseteq completed' /\ waitStop' \subseteq running'
    BY <2>1, <2>2 DEF IInv, Waiting
  <2>5. ASSUME NEW q \in waitType', q \notin completed'
        PROVE  \E r \in Presents : at'[r] = "deps" /\ \E i \in 1 .. Len(deps[r]) :
                  i <= iter'[r] /\ deps[r][i] = q
    <3>1. CASE \E i \in 1 .. Len(deps[p]) : deps[p][i] = q
      BY <2>1, <2>3, <3>1
    <3>2. CASE q \in waitType
      <4>1. PICK r \in Presents : at[r] = "deps" /\ \E i \in 1 .. Len(deps[r]) :
                                     i <= iter[r] /\ deps[r][i] = q
        BY <2>2, <2>5, <3>2 DEF IInv, Waiting
      <4>2. PICK i \in 1 .. Len(deps[r]) : i <= iter[r] /\ deps[r][i] = q
        BY <4>1
      <4>3. r # p /\ at'[r] = "deps" /\ at[r] # "earlier"
        BY <2>1, <2>3, <4>1
      <4>4. i <= iter'[r]
        <5>1. CASE iter'[r] = iter[r]
          BY <4>2, <5>1
        <5>2. CASE iter'[r] # iter[r]
          <6>1. r = Top /\ p = deps[r][iter[r]] /\ iter'[r] = iter[r] - 1
            BY <1>2, <4>1, <4>3, <5>2, BeginsIters
          <6>2. i # iter[r]
            BY <2>2, <2>5, <4>2, <6>1
          <6>3. iter[r] \in Nat /\ i \in Nat
            BY StackIs DEF IInv, TypeOK
          <6>. QED BY <4>2, <6>1, <6>2, <6>3
        <5>. QED BY <5>1, <5>2
      <4>. QED BY <4>2, <4>3, <4>4
    <3>. QED BY <2>2, <2>5, <3>1, <3>2
  <2>. QED BY <2>1, <2>4, <2>5 DEF Waiting
<1>3. ASSUME NEW p \in Presents, LosesCompleted(p) PROVE Waiting'
  <2>1. /\ UNCHANGED <<running, completed, at, iter, deps>>
        /\ waitStop' \subseteq waitStop /\ waitType' \subseteq waitType
    BY <1>3 DEF LosesCompleted, callVars, flagVars, newVars
  <2>2. waitStop \subseteq running
    BY DEF IInv, Waiting
  <2>. QED BY <2>1, <2>2, WaitingStays
<1>4. CASE BeginsDiscarding
  <2>1. UNCHANGED <<completed, at, iter, deps, waitStop, waitType>> /\ waitStop' \subseteq running'
    BY <1>4 DEF BeginsDiscarding, callVars, flagVars, newVars, IInv, Waiting
  <2>. QED BY <2>1, WaitingStays
<1>5. CASE SkipsDependent
  <2>1. /\ Top \in Presents /\ at[Top] = "deps" /\ deps[Top][iter[Top]] \in completed
        /\ iter' = [iter EXCEPT ![Top] = iter[Top] - 1]
        /\ UNCHANGED <<running, completed, deps, waitStop, waitType, at>>
    BY <1>5, TopIs DEF SkipsDependent, At, flagVars, newVars
  <2>2. \A q \in Presents : iter'[q] = IF q = Top THEN iter[Top] - 1 ELSE iter[q]
    BY <2>1 DEF IInv, TypeOK
  <2>3. \A q \in Presents : iter[q] \in Nat /\ Len(deps[q]) \in Nat
    BY StackIs DEF IInv, TypeOK
  <2>4. \A q \in Presents : \A i \in 1 .. Len(deps[q]) :
             at[q] = "deps" /\ i <= iter[q] => deps[q][i] \in completed \/ i <= iter'[q]
    BY <2>1, <2>2, <2>3
  <2>5. waitStop \subseteq running
    BY DEF IInv, Waiting
  <2>. QED BY <2>1, <2>4, <2>5, WaitingStays
<1>6. CASE SkipsEarlier
  <2>1. /\ stack # <<>> /\ Top \in Presents /\ at[Top] # "deps"
        /\ \E n : iter' = [iter EXCEPT ![Top] = n]
        /\ UNCHANGED <<running, completed, deps, waitStop, waitType, at>>
    BY <1>6, TopIs DEF SkipsEarlier, At, flagVars, newVars
  <2>2. \A q \in Presents : at[q] = "deps" => at'[q] = "deps" /\ iter'[q] = iter[q]
    BY <2>1 DEF IInv, TypeOK
  <2>3. waitStop \subseteq running
    BY DEF IInv, Waiting
  <2>. QED BY <2>1, <2>2, <2>3, WaitingStays
<1>7. CASE DependentsCompleted
  <2>1. /\ Top \in Presents /\ iter[Top] = 0
        /\ \E x : at' = [at EXCEPT ![Top] = x]
        /\ iter' = iter \/ \E n : iter' = [iter EXCEPT ![Top] = n]
        /\ deps' = deps \/ deps' = [deps EXCEPT ![Top] = <<>>]
        /\ UNCHANGED <<running, completed, waitStop, waitType>>
    BY <1>7, TopIs DEF DependentsCompleted, At, flagVars, newVars
  <2>2. \A q \in Presents : q # Top => at'[q] = at[q] /\ iter'[q] = iter[q] /\ deps'[q] = deps[q]
    BY <2>1 DEF IInv, TypeOK
  <2>3. waitStop \subseteq running
    BY DEF IInv, Waiting
  <2>4. \A i \in 1 .. Len(deps[Top]) : ~(i <= iter[Top])
    BY <2>1, StackIs DEF IInv
  <2>. QED BY <2>1, <2>2, <2>3, <2>4, WaitingStays
<1>8. CASE EarlierCompleted
  <2>1. /\ stack # <<>> /\ Top \in Presents /\ at[Top] # "deps"
        /\ \E x : at' = [at EXCEPT ![Top] = x]
        /\ \E n : iter' = [iter EXCEPT ![Top] = n]
        /\ UNCHANGED <<running, completed, deps, waitStop, waitType>>
    BY <1>8, TopIs DEF EarlierCompleted, At, flagVars, newVars
  <2>2. \A q \in Presents : at[q] = "deps" => at'[q] = "deps" /\ iter'[q] = iter[q]
    BY <2>1 DEF IInv, TypeOK
  <2>3. waitStop \subseteq running
    BY DEF IInv, Waiting
  <2>. QED BY <2>1, <2>2, <2>3, WaitingStays
<1>9. CASE StopTracking
  <2>1. /\ stack # <<>> /\ Top \in Presents /\ at[Top] # "deps"
        /\ \E x : at' = [at EXCEPT ![Top] = x]
        /\ UNCHANGED <<running, completed, deps, waitStop, waitType, iter>>
    BY <1>9, TopIs DEF StopTracking, At, flagVars, newVars
  <2>2. \A q \in Presents : at[q] = "deps" => at'[q] = "deps" /\ iter'[q] = iter[q]
    BY <2>1 DEF IInv, TypeOK
  <2>3. waitStop \subseteq running
    BY DEF IInv, Waiting
  <2>. QED BY <2>1, <2>2, <2>3, WaitingStays
<1>10. CASE StoreCompleted
  <2>1. /\ Top \in Presents /\ at[Top] = "store" /\ at' = [at EXCEPT ![Top] = "none"]
        /\ UNCHANGED <<running, completed, deps, iter>>
        /\ UNCHANGED <<lost, waitStop, waitType>> \/ \E h \in Presents : GivesUp(h)
    BY <1>10, StoreCompletedIs DEF StoreCompleted
  <2>2. \A q \in Presents : at[q] = "deps" => at'[q] = "deps"
    BY <2>1 DEF IInv, TypeOK
  <2>3. waitStop' \subseteq waitStop /\ waitType' \subseteq waitType
    BY <2>1 DEF GivesUp
  <2>4. waitStop \subseteq running
    BY DEF IInv, Waiting
  <2>. QED BY <2>1, <2>2, <2>3, <2>4, WaitingStays
<1>11. ASSUME NEW t \in Threads, NEW chain \in SwapChains, NEW runtime \in BOOLEAN,
             TrackPresent(t, chain, runtime) PROVE Waiting'
  <2>1. UNCHANGED <<completed, at, iter, deps, waitStop, waitType>> /\ waitStop' \subseteq running'
    BY <1>11 DEF TrackPresent, callVars, flagVars, newVars, IInv, Waiting
  <2>. QED BY <2>1, WaitingStays
<1>12. ASSUME NEW t \in Threads, PresentStopSettles(t) PROVE Waiting'
  <2>1. /\ UNCHANGED <<completed, at, iter, deps, waitType>>
        /\ running' = running \ {byThread[t]} /\ waitStop' = waitStop \ {byThread[t]}
    BY <1>12 DEF PresentStopSettles, callVars
  <2>2. waitStop \subseteq running
    BY DEF IInv, Waiting
  <2>. QED BY <2>1, <2>2, WaitingStays
<1>13. ASSUME NEW t \in Threads, PresentStopLeaves(t) PROVE Waiting'
  <2>1. UNCHANGED <<completed, at, iter, deps, waitStop, waitType>> /\ waitStop' \subseteq running'
    BY <1>13 DEF PresentStopLeaves, callVars, flagVars, newVars, IInv, Waiting
  <2>. QED BY <2>1, WaitingStays
<1>14. ASSUME NEW p \in Created, AttachDependents(p) PROVE Waiting'
  <2>1. stack = <<>> /\ UNCHANGED <<running, completed, waitStop, waitType, at>>
    BY <1>14 DEF AttachDependents, Idle, flagVars, callVars
  <2>2. \A q \in Presents : at[q] # "deps"
    BY <2>1, IdleIs
  <2>3. waitStop \subseteq running
    BY DEF IInv, Waiting
  <2>. QED BY <2>1, <2>2, <2>3, WaitingStays
<1>15. ASSUME NEW p \in Created, EndFlipFrameTypes(p) PROVE Waiting'
  <2>1. /\ UNCHANGED <<running, completed, at, iter, deps>>
        /\ waitStop' \subseteq waitStop /\ waitType' \subseteq waitType
    BY <1>15 DEF EndFlipFrameTypes, callVars, flagVars, newVars
  <2>2. waitStop \subseteq running
    BY DEF IInv, Waiting
  <2>. QED BY <2>1, <2>2, WaitingStays
<1>. QED BY <1>1, <1>2, <1>3, <1>4, <1>5, <1>6, <1>7, <1>8, <1>9, <1>10, <1>11, <1>12, <1>13,
     <1>14, <1>15 DEF Step, EvictsNothing, DiscardEnds, PlaceTracked, EmplaceOnThread,
     SubmitOnDriverThread, LeaveThread, EventDisplays, WaitForDwm, DequeuePresentEvents, flagVars,
     callVars, vars

----
\* The threads.

LEMMA EmptyVacates ==
    ASSUME IInv, stack = <<>>, placing = "emplace"
    PROVE  created \in Created /\ tid[created] \in Threads /\ byThread[tid[created]] = NoPresent
<1>1. created \in Created
  BY CreatedArePresents DEF IInv, Stacked, Created
<1>2. tid[created] \in Threads
  BY <1>1 DEF IInv, OnThreads
<1>3. ASSUME byThread[tid[created]] # NoPresent PROVE FALSE
  <2>1. Early(byThread[tid[created]]) /\ byThread[tid[created]] \in Presents
    BY <1>2, <1>3, CreatedArePresents DEF IInv, OnThreads, Vacated
  <2>2. at[byThread[tid[created]]] = "none"
    BY <2>1, IdleIs
  <2>. QED BY <2>1, <2>2 DEF Early
<1>. QED BY <1>1, <1>2, <1>3

\* Threads only lose presents.
LEMMA ThreadsLose ==
    ASSUME IInv, UNCHANGED <<created, tid, driver>>, running' \subseteq running,
           placing' # "no" => placing # "no",
           \A t \in Threads : byThread'[t] = byThread[t] \/ byThread'[t] = NoPresent,
           \A t \in Threads : Leads(t)',
           \A p \in waitStop' : byThread'[tid[p]] = p,
           \A p \in running' : p \notin completed' => Led(p)',
           Vacated'
    PROVE  OnThreads'
<1>1. /\ \A p \in Created : tid[p] \in Threads
      /\ \A p \in Presents : driver[p] # None => p \in Created
      /\ \A t \in Threads : byThread[t] # NoPresent =>
           byThread[t] \in Created /\ (t = tid[byThread[t]] \/ t = driver[byThread[t]])
      /\ \A p \in running : driver[p] # tid[p]
      /\ placing # "no" => \A t \in Threads : byThread[t] # created
  BY DEF IInv, OnThreads
<1>2. created # NoPresent \/ placing = "no"
  BY DEF IInv, Stacked, NoPresent
<1>3. Created' = Created
  BY DEF Created
<1>. HIDE DEF IInv
<1>4. \A t \in Threads : byThread'[t] # NoPresent =>
        byThread'[t] \in Created' /\ (t = tid'[byThread'[t]] \/ t = driver'[byThread'[t]])
  BY <1>1, <1>3
<1>5. placing' # "no" => \A t \in Threads : byThread'[t] # created'
  BY <1>1, <1>2
<1>6. \A p \in running' : driver'[p] # tid'[p]
  BY <1>1
<1>. QED BY <1>1, <1>3, <1>4, <1>5, <1>6 DEF OnThreads

\* Threads keep their presents.
LEMMA ThreadsStay ==
    ASSUME IInv, UNCHANGED <<created, tid, driver, byThread, waitStop, completed>>,
           running' \subseteq running, placing' # "no" <=> placing # "no",
           \A p \in Presents : Early(p) => Early(p)',
           placing' = "emplace" => placing = "emplace" \/ byThread[tid[created]] = NoPresent
    PROVE  OnThreads'
<1>0. \A t \in Threads : byThread[t] # NoPresent => byThread[t] \in Presents
  BY CreatedArePresents DEF IInv, OnThreads
<1>1. \A t \in Threads : Leads(t)'
  BY <1>0 DEF IInv, OnThreads, Leads
<1>2. \A p \in running' : p \notin completed' => Led(p)'
  BY DEF IInv, OnThreads, Led
<1>3. Vacated'
  <2>1. placing # "no" => tid[created] \in Threads
    BY CreatedArePresents DEF IInv, Stacked, Created, OnThreads
  <2>. QED BY <1>0, <2>1 DEF IInv, OnThreads, Vacated
<1>4. \A p \in waitStop' : byThread'[tid[p]] = p
  BY DEF IInv, OnThreads
<1>. QED BY <1>1, <1>2, <1>3, <1>4, ThreadsLose

\* A completed present leaves its threads.
LEMMA LeavesBoth ==
    ASSUME IInv, NEW h \in Presents, h \in completed,
           UNCHANGED <<created, tid, driver, completed, running>>, waitStop' = waitStop \ {h},
           \A t \in Threads :
             byThread'[t] = IF (t = tid[h] \/ t = driver[h]) /\ byThread[t] = h THEN NoPresent
                            ELSE byThread[t],
           placing' # "no" <=> placing # "no",
           \A p \in Presents : p # h /\ Early(p) => Early(p)',
           placing' = "emplace" => placing = "emplace" \/ byThread'[tid[created]] = NoPresent
    PROVE  OnThreads'
<1>0. \A t \in Threads : byThread[t] # NoPresent =>
        byThread[t] \in Presents /\ (t = tid[byThread[t]] \/ t = driver[byThread[t]])
  BY CreatedArePresents DEF IInv, OnThreads
<1>1. \A t \in Threads : byThread'[t] # NoPresent => byThread'[t] = byThread[t] /\ byThread[t] # h
  BY <1>0
<1>2. \A t \in Threads : Leads(t)'
  BY <1>0, <1>1 DEF IInv, OnThreads, Leads
<1>3. \A p \in Created : tid[p] \in Threads
  BY DEF IInv, OnThreads
<1>4. running \subseteq Created /\ waitStop \subseteq Created
  BY DEF IInv, TypeOK
<1>5. \A p \in running' : p \notin completed' => Led(p)'
  BY <1>3, <1>4 DEF IInv, OnThreads, Led
<1>6. \A p \in waitStop' : byThread'[tid[p]] = p
  BY <1>3, <1>4 DEF IInv, OnThreads
<1>7. Vacated'
  <2>1. placing # "no" => tid[created] \in Threads
    BY CreatedArePresents DEF IInv, Stacked, Created, OnThreads
  <2>. QED BY <1>0, <1>1, <2>1 DEF IInv, OnThreads, Vacated
<1>8. \A t \in Threads : byThread'[t] = byThread[t] \/ byThread'[t] = NoPresent
  OBVIOUS
<1>. QED BY <1>2, <1>5, <1>6, <1>7, <1>8, ThreadsLose

\* A present that waits for its Present_Stop leaves the driver's thread.
LEMMA LeavesDriver ==
    ASSUME IInv, NEW h \in Presents, h \in waitStop,
           UNCHANGED <<created, tid, driver, completed, running, waitStop, placing>>,
           \A t \in Threads :
             byThread'[t] = IF t = driver[h] /\ byThread[t] = h THEN NoPresent ELSE byThread[t],
           \A p \in Presents : p # h /\ Early(p) => Early(p)'
    PROVE  OnThreads'
<1>0. \A t \in Threads : byThread[t] # NoPresent =>
        byThread[t] \in Presents /\ (t = tid[byThread[t]] \/ t = driver[byThread[t]])
  BY CreatedArePresents DEF IInv, OnThreads
<1>1. \A t \in Threads : byThread'[t] # NoPresent =>
        byThread'[t] = byThread[t] /\ (byThread[t] = h => t = tid[h])
  BY <1>0
<1>2. \A t \in Threads : Leads(t)'
  BY <1>0, <1>1 DEF IInv, OnThreads, Leads
<1>3. \A p \in Created : tid[p] \in Threads
  BY DEF IInv, OnThreads
<1>4. running \subseteq Created /\ waitStop \subseteq Created /\ waitStop \subseteq completed
      /\ waitStop \subseteq running
  BY DEF IInv, TypeOK, Waiting
<1>5. \A p \in running' : p \notin completed' => Led(p)'
  BY <1>3, <1>4 DEF IInv, OnThreads, Led
<1>6. \A p \in waitStop' : byThread'[tid[p]] = p
  <2>1. driver[h] # tid[h]
    BY <1>4 DEF IInv, OnThreads
  <2>. QED BY <1>3, <1>4, <2>1 DEF IInv, OnThreads
<1>7. Vacated'
  <2>1. placing # "no" => tid[created] \in Threads
    BY CreatedArePresents DEF IInv, Stacked, Created, OnThreads
  <2>. QED BY <1>0, <1>1, <2>1 DEF IInv, OnThreads, Vacated
<1>8. \A t \in Threads : byThread'[t] = byThread[t] \/ byThread'[t] = NoPresent
  OBVIOUS
<1>. QED BY <1>2, <1>5, <1>6, <1>7, <1>8, ThreadsLose

\* A thread loses its present.
LEMMA ThreadCleared ==
    ASSUME IInv, NEW t \in Threads, byThread' = [byThread EXCEPT ![t] = NoPresent],
           UNCHANGED <<created, tid, driver, completed, at, placing>>, placing = "no",
           running' \subseteq running, waitStop' \subseteq waitStop,
           \A q \in running' \cup waitStop' : tid[q] = t => q # byThread[t],
           \A s \in Threads : s # t /\ byThread[s] \in waitStop /\ s = tid[byThread[s]] =>
             byThread[s] \in waitStop'
    PROVE  OnThreads'
<1>1. byThread'[t] = NoPresent /\ \A s \in Threads : s # t => byThread'[s] = byThread[s]
  BY DEF IInv, TypeOK
<1>2. \A s \in Threads : Leads(s)'
  BY <1>1 DEF IInv, OnThreads, Leads, Early
<1>3. /\ \A p \in Created : tid[p] \in Threads
      /\ running' \subseteq Created /\ waitStop' \subseteq Created
  BY DEF IInv, OnThreads, TypeOK
<1>4. \A p \in running' : p \notin completed' => Led(p)'
  BY <1>1, <1>3 DEF IInv, OnThreads, Led
<1>5. \A p \in waitStop' : byThread'[tid[p]] = p
  BY <1>1, <1>3 DEF IInv, OnThreads
<1>6. Vacated'
  BY DEF Vacated
<1>7. \A s \in Threads : byThread'[s] = byThread[s] \/ byThread'[s] = NoPresent
  BY <1>1
<1>. QED BY <1>2, <1>4, <1>5, <1>6, <1>7, ThreadsLose

LEMMA OnThreadsNext == IInv /\ Step => OnThreads'
<1>. SUFFICES ASSUME IInv, Step PROVE OnThreads'
  OBVIOUS
<1>1. CASE UNCHANGED <<created, tid, driver, byThread, completed, at, waitStop, running, placing>>
  BY <1>1 DEF IInv, OnThreads, Leads, Led, Vacated, Early, Created
<1>2. ASSUME NEW p \in Presents, Begins(p) PROVE OnThreads'
  <2>1. /\ p \notin completed /\ at[p] = "none"
        /\ UNCHANGED <<created, tid, driver, byThread>>
        /\ running' \subseteq running
        /\ \E it : Marked(p, it)
    BY <1>2, BeginsIs DEF Begins
  <2>2. /\ completed' = completed \cup {p}
        /\ waitStop' = IF p \in running' /\ p \notin lost' THEN waitStop \cup {p} ELSE waitStop
        /\ at' = [at EXCEPT ![p] = "deps"]
    BY <2>1 DEF Marked
  <2>3. at'[p] = "deps" /\ \A q \in Presents : q # p => at'[q] = at[q]
    BY <2>2 DEF IInv, TypeOK
  <2>4. Early(p)' /\ ~Early(p) /\ \A q \in Presents : q # p => (Early(q)' <=> Early(q))
    BY <2>1, <2>3 DEF Early
  <2>5. /\ placing' # "no" <=> placing # "no"
        /\ placing' = "emplace" => \/ placing = "emplace"
                                   \/ p = byThread[tid[created]] /\ p \in lost'
    BY <1>2 DEF Begins, FromEvent, FromDiscarding, FromDependents, FromEarlier
  <2>6. \A s \in Threads : byThread[s] # NoPresent => byThread[s] \in Presents
    BY CreatedArePresents DEF IInv, OnThreads
  <2>7. ASSUME NEW s \in Threads PROVE Leads(s)'
    <3>1. Leads(s)
      BY DEF IInv, OnThreads
    <3>. QED BY <2>1, <2>2, <2>4, <2>6, <3>1 DEF Leads
  <2>8. \A q \in waitStop' : byThread'[tid[q]] = q
    <3>1. ASSUME p \in waitStop', p \notin waitStop PROVE byThread[tid[p]] = p
      <4>1. p \in running
        BY <2>1, <2>2, <3>1
      <4>2. Led(p)
        BY <2>1, <4>1 DEF IInv, OnThreads
      <4>3. placing' # "no" => created' \notin completed'
        BY StackedNext DEF Stacked
      <4>. QED BY <2>1, <2>2, <2>5, <4>2, <4>3 DEF Led
    <3>2. \A q \in waitStop : byThread[tid[q]] = q
      BY DEF IInv, OnThreads
    <3>3. \A q \in waitStop' : q \in waitStop \/ q = p
      BY <2>2
    <3>. QED BY <2>1, <3>1, <3>2, <3>3
  <2>9. \A q \in running' : q \notin completed' => Led(q)'
    BY <2>1, <2>2, <2>5 DEF IInv, OnThreads, Led
  <2>10. Vacated'
    <3>1. CASE placing' = "emplace" /\ placing = "emplace" /\ byThread[tid[created]] # NoPresent
      <4>1. Early(byThread[tid[created]]) /\ byThread[tid[created]] \notin waitStop
        BY <3>1 DEF IInv, OnThreads, Vacated
      <4>2. byThread[tid[created]] \in Presents
        <5>1. tid[created] \in Threads
          BY <3>1, CreatedArePresents DEF IInv, Stacked, Created, OnThreads
        <5>. QED BY <2>6, <3>1, <5>1
      <4>. QED BY <2>1, <2>2, <2>4, <4>1, <4>2 DEF Vacated
    <3>2. CASE p = byThread[tid[created]] /\ p \in lost'
      <4>1. p \notin waitStop
        BY <2>1 DEF IInv, Waiting
      <4>. QED BY <2>1, <2>2, <2>4, <3>2, <4>1 DEF Vacated
    <3>. QED BY <2>1, <2>5, <3>1, <3>2 DEF Vacated
  <2>11. \A s \in Threads : byThread'[s] = byThread[s] \/ byThread'[s] = NoPresent
    BY <2>1
  <2>. QED BY <2>1, <2>5, <2>7, <2>8, <2>9, <2>10, <2>11, ThreadsLose
<1>3. ASSUME NEW p \in Presents, LosesCompleted(p) PROVE OnThreads'
  <2>1. /\ stack = <<>> /\ p \in Created /\ p \in completed
        /\ UNCHANGED <<created, tid, driver, completed, running, at>>
        /\ waitStop' = waitStop \ {p}
        /\ placing' # "no" <=> placing # "no"
        /\ placing' = "emplace" => placing = "clear" /\ p = byThread[tid[created]]
    BY <1>3 DEF LosesCompleted, callVars
  <2>2. at[p] = "none" /\ ~Early(p)
    BY <2>1, IdleIs DEF Early
  <2>3. placing # "no" => created \in Created /\ tid[created] \in Threads
    BY CreatedArePresents DEF IInv, Stacked, Created, OnThreads
  <2>4. CASE p \in waitStop
    <3>1. byThread' = Off({tid[p], driver[p]}, p)
      BY <1>3, <2>4 DEF LosesCompleted
    <3>2. \A t \in Threads : byThread'[t] = IF (t = tid[p] \/ t = driver[p]) /\ byThread[t] = p
                                            THEN NoPresent ELSE byThread[t]
      BY <3>1, OffIs DEF IInv
    <3>3. placing' = "emplace" => byThread'[tid[created]] = NoPresent
      <4>. SUFFICES ASSUME placing' = "emplace" PROVE byThread'[tid[created]] = NoPresent
        OBVIOUS
      <4>1. tid[created] \in Threads /\ byThread[tid[created]] = p
        BY <2>1, <2>3
      <4>2. p # NoPresent
        BY CreatedArePresents DEF IInv, NoPresent
      <4>3. tid[created] = tid[p] \/ tid[created] = driver[p]
        BY <4>1, <4>2 DEF IInv, OnThreads
      <4>. QED BY <3>2, <4>1, <4>3
    <3>. QED BY <2>1, <3>2, <3>3, LeavesBoth DEF Early
  <2>5. CASE p \notin waitStop
    <3>1. byThread' = byThread /\ waitStop' = waitStop
      BY <1>3, <2>1, <2>5 DEF LosesCompleted
    <3>2. \A t \in Threads : byThread[t] # p
      <4>1. p # NoPresent
        BY CreatedArePresents DEF IInv, NoPresent
      <4>. QED BY <2>1, <2>2, <2>5, <4>1 DEF IInv, OnThreads, Leads
    <3>3. placing' # "emplace"
      BY <2>1, <2>3, <3>2
    <3>. QED BY <2>1, <3>1, <3>3, ThreadsStay DEF Early
  <2>. QED BY <2>4, <2>5
<1>4. CASE BeginsDiscarding
  <2>1. /\ UNCHANGED <<created, tid, driver, byThread, waitStop, completed, at>>
        /\ running' \subseteq running
        /\ placing' # "no" <=> placing # "no"
        /\ placing' = "emplace" => placing = "emplace" \/ byThread[tid[created]] = NoPresent
    BY <1>4 DEF BeginsDiscarding, callVars, flagVars, newVars
  <2>. QED BY <2>1, ThreadsStay DEF Early
<1>5. CASE EvictsNothing
  <2>1. /\ UNCHANGED <<created, tid, driver, byThread, waitStop, completed, at>>
        /\ running' \subseteq running
        /\ placing' # "no" <=> placing # "no"
        /\ placing' = "emplace" => placing = "emplace" \/ byThread[tid[created]] = NoPresent
    BY <1>5 DEF EvictsNothing, callVars, flagVars, newVars
  <2>. QED BY <2>1, ThreadsStay DEF Early
<1>6. CASE DependentsCompleted
  <2>1. /\ stack # <<>> /\ Top # Discarding
        /\ UNCHANGED <<created, tid, driver, byThread, waitStop, completed, running, placing>>
        /\ \E x \in {"earlier", "stop"} : at' = [at EXCEPT ![Top] = x]
    BY <1>6 DEF DependentsCompleted, At, flagVars, newVars
  <2>2. PICK x \in {"earlier", "stop"} : at' = [at EXCEPT ![Top] = x]
    BY <2>1
  <2>3. \A q \in Presents : at'[q] = IF q = Top THEN x ELSE at[q]
    BY <2>1, <2>2, TopMoves
  <2>4. \A q \in Presents : Early(q) => Early(q)'
    BY <2>3 DEF Early
  <2>. QED BY <2>1, <2>4, ThreadsStay
<1>7. CASE EarlierCompleted
  <2>1. /\ stack # <<>> /\ Top # Discarding
        /\ UNCHANGED <<created, tid, driver, byThread, waitStop, completed, running, placing>>
        /\ \E x \in {"earlier", "stop"} : at' = [at EXCEPT ![Top] = x]
    BY <1>7 DEF EarlierCompleted, At, flagVars, newVars
  <2>2. PICK x \in {"earlier", "stop"} : at' = [at EXCEPT ![Top] = x]
    BY <2>1
  <2>3. \A q \in Presents : at'[q] = IF q = Top THEN x ELSE at[q]
    BY <2>1, <2>2, TopMoves
  <2>4. \A q \in Presents : Early(q) => Early(q)'
    BY <2>3 DEF Early
  <2>. QED BY <2>1, <2>4, ThreadsStay
<1>8. CASE StopTracking
  <2>1. /\ stack # <<>> /\ Top # Discarding /\ Top \in Presents /\ Top \in completed
        /\ StopTrackingPresent(Top, Top \in waitStop)
        /\ at' = [at EXCEPT ![Top] = "store"]
        /\ UNCHANGED <<created, tid, driver, completed, running, waitStop, placing>>
    BY <1>8, TopIs DEF StopTracking, At, newVars, flagVars
  <2>2. PICK T \in Presents : T = Top
    BY <2>1
  <2>3. \A q \in Presents : at'[q] = IF q = Top THEN "store" ELSE at[q]
    BY <2>1, TopMoves
  <2>4. \A q \in Presents : q # T /\ Early(q) => Early(q)'
    BY <2>2, <2>3 DEF Early
  <2>5. CASE T \in waitStop
    <3>1. \A t \in Threads :
            byThread'[t] = IF t = driver[T] /\ byThread[t] = T THEN NoPresent ELSE byThread[t]
      <4>1. byThread' = Off({driver[T]}, T)
        BY <2>1, <2>2, <2>5 DEF StopTrackingPresent
      <4>. QED BY <4>1, OffIs DEF IInv
    <3>. QED BY <2>1, <2>4, <2>5, <3>1, LeavesDriver
  <2>6. CASE T \notin waitStop
    <3>1. \A t \in Threads : byThread'[t] = IF (t = tid[T] \/ t = driver[T]) /\ byThread[t] = T
                                            THEN NoPresent ELSE byThread[t]
      <4>1. byThread' = Off({tid[T], driver[T]}, T)
        BY <2>1, <2>2, <2>6 DEF StopTrackingPresent
      <4>. QED BY <4>1, OffIs DEF IInv
    <3>2. waitStop' = waitStop \ {T} /\ T \in completed
      BY <2>1, <2>2, <2>6
    <3>. QED BY <2>1, <2>4, <3>1, <3>2, LeavesBoth
  <2>. QED BY <2>5, <2>6
<1>9. CASE StoreCompleted
  <2>1. /\ Top \in Presents /\ at[Top] = "store" /\ stack # <<>> /\ Top # Discarding
        /\ at' = [at EXCEPT ![Top] = "none"]
        /\ UNCHANGED <<created, tid, driver, completed, running, placing>>
        /\ \/ UNCHANGED <<waitStop, byThread>>
           \/ \E h \in Presents : GivesUp(h)
    BY <1>9, StoreCompletedIs DEF StoreCompleted, At, newVars
  <2>2. \A q \in Presents : at'[q] = IF q = Top THEN "none" ELSE at[q]
    BY <2>1, TopMoves
  <2>3. \A q \in Presents : Early(q) => Early(q)'
    BY <2>1, <2>2 DEF Early
  <2>4. CASE UNCHANGED <<waitStop, byThread>>
    BY <2>1, <2>3, <2>4, ThreadsStay
  <2>5. ASSUME NEW h \in Presents, GivesUp(h) PROVE OnThreads'
    <3>1. h \in completed /\ waitStop' = waitStop \ {h} /\ StopTrackingPresent(h, FALSE)
      BY <2>5 DEF GivesUp
    <3>2. \A t \in Threads : byThread'[t] = IF (t = tid[h] \/ t = driver[h]) /\ byThread[t] = h
                                            THEN NoPresent ELSE byThread[t]
      BY <3>1, StopTrackingIs DEF IInv
    <3>. QED BY <2>1, <2>3, <3>1, <3>2, LeavesBoth
  <2>. QED BY <2>1, <2>4, <2>5
<1>10. CASE PlaceTracked
  <2>1. /\ UNCHANGED <<created, tid, driver, byThread, waitStop, completed, at>>
        /\ running' \subseteq running
        /\ placing' # "no" <=> placing # "no"
        /\ placing' = "emplace" => placing = "emplace" \/ byThread[tid[created]] = NoPresent
    BY <1>10 DEF PlaceTracked, callVars, flagVars, newVars
  <2>. QED BY <2>1, ThreadsStay DEF Early
<1>11. CASE EmplaceOnThread
  <2>. DEFINE c == created
              T == tid[created]
  <2>1. /\ stack = <<>> /\ placing = "emplace" /\ placing' = "no"
        /\ byThread' = [byThread EXCEPT ![T] = IF byThread[T] = NoPresent THEN c ELSE byThread[T]]
        /\ UNCHANGED <<created, tid, driver, completed, at, waitStop, running>>
    BY <1>11 DEF EmplaceOnThread, callVars, flagVars
  <2>2. c \in Created /\ T \in Threads /\ byThread[T] = NoPresent
    BY <2>1, EmptyVacates
  <2>3. c \notin completed /\ c # NoPresent
    BY <2>1, CreatedArePresents DEF IInv, Stacked, NoPresent
  <2>4. byThread'[T] = c /\ \A t \in Threads : t # T => byThread'[t] = byThread[t]
    <3>. HIDE DEF c, T
    <3>. QED BY <2>1, <2>2 DEF IInv, TypeOK
  <2>. HIDE DEF T
  <2>5. /\ \A p \in Created : tid[p] \in Threads /\ p # NoPresent
        /\ running \subseteq Created /\ waitStop \subseteq Created /\ waitStop \subseteq completed
    BY CreatedArePresents DEF IInv, OnThreads, TypeOK, Waiting, NoPresent
  <2>6. \A p \in waitStop : byThread'[tid[p]] = p
    BY <2>2, <2>4, <2>5 DEF IInv, OnThreads
  <2>7. \A p \in running : p \notin completed => Led(p)'
    BY <2>1, <2>2, <2>4, <2>5 DEF IInv, OnThreads, Led, T
  <2>8. \A t \in Threads : Leads(t)'
    BY <2>1, <2>2, <2>3, <2>4 DEF IInv, OnThreads, Leads, Early
  <2>9. Vacated' /\ Created' = Created
    BY <2>1 DEF Vacated, Created
  <2>10. \A t \in Threads : byThread'[t] # NoPresent =>
           byThread'[t] \in Created /\ (t = tid[byThread'[t]] \/ t = driver[byThread'[t]])
    BY <2>2, <2>4 DEF IInv, OnThreads, T
  <2>. QED BY <2>1, <2>6, <2>7, <2>8, <2>9, <2>10 DEF IInv, OnThreads
<1>12. ASSUME NEW t \in Threads, NEW chain \in SwapChains, NEW runtime \in BOOLEAN,
             TrackPresent(t, chain, runtime) PROVE OnThreads'
  <2>. DEFINE c == created + 1
  <2>1. /\ stack = <<>> /\ placing = "no" /\ placing' = "evict" /\ created' = c
        /\ created < MaxPresents
        /\ tid' = [tid EXCEPT ![c] = t]
        /\ running' = running \/ running' = running \cup {c}
        /\ UNCHANGED <<driver, byThread, completed, at, waitStop>>
    BY <1>12 DEF TrackPresent, Idle, callVars, flagVars
  <2>2. /\ c \in Presents /\ c \notin Created /\ c # NoPresent
        /\ \A p \in Created : p \in Presents /\ p # c
        /\ \A p : p \in Created' <=> p \in Created \/ p = c
    BY <2>1, CreatedArePresents, BoundIsNat DEF IInv, Created, Presents, NoPresent
  <2>. HIDE DEF c
  <2>3. tid'[c] = t /\ \A p \in Created : tid'[p] = tid[p]
    BY <2>1, <2>2 DEF IInv, TypeOK
  <2>4. driver[c] = None
    BY <2>2 DEF IInv, OnThreads
  <2>5. running \subseteq Created /\ waitStop \subseteq Created
    BY DEF IInv, TypeOK
  <2>6. \A p \in Created' : tid'[p] \in Threads
    BY <2>2, <2>3 DEF IInv, OnThreads
  <2>7. \A p \in Presents : driver'[p] # None => p \in Created'
    BY <2>1, <2>2 DEF IInv, OnThreads
  <2>8. \A s \in Threads : byThread'[s] # NoPresent =>
          byThread'[s] \in Created' /\ (s = tid'[byThread'[s]] \/ s = driver'[byThread'[s]])
    BY <2>1, <2>2, <2>3 DEF IInv, OnThreads
  <2>9. \A s \in Threads : Leads(s)'
    BY <2>1, <2>3 DEF IInv, OnThreads, Leads, Early
  <2>10. \A p \in waitStop' : byThread'[tid'[p]] = p
    BY <2>1, <2>3, <2>5 DEF IInv, OnThreads
  <2>11. \A p \in running' : p \notin completed' => Led(p)'
    BY <2>1, <2>3, <2>5 DEF IInv, OnThreads, Led
  <2>12. \A p \in running' : driver'[p] # tid'[p]
    <3>1. None # t
      BY CompletionAssumption
    <3>. QED BY <2>1, <2>3, <2>4, <2>5, <3>1 DEF IInv, OnThreads
  <2>13. \A s \in Threads : byThread'[s] # created'
    BY <2>1, <2>2 DEF IInv, OnThreads
  <2>14. Vacated'
    BY <2>1 DEF Vacated
  <2>. QED BY <2>6, <2>7, <2>8, <2>9, <2>10, <2>11, <2>12, <2>13, <2>14 DEF OnThreads
<1>13. ASSUME NEW t \in Threads, NEW p \in Created, SubmitOnDriverThread(t, p) PROVE OnThreads'
  <2>1. /\ stack = <<>> /\ placing = "no" /\ placing' = "no"
        /\ byThread[t] = NoPresent /\ p \in ordered /\ driver[p] = None
        /\ driver' = [driver EXCEPT ![p] = t]
        /\ byThread' = [byThread EXCEPT ![t] = p]
        /\ UNCHANGED <<created, tid, completed, at, waitStop, running>>
    BY <1>13 DEF SubmitOnDriverThread, Idle, OrderedOf, newVars, callVars, flagVars
  <2>2. p \in Presents /\ p \notin completed
    BY <2>1, CreatedArePresents, IdleIs DEF IInv
  <2>3. /\ byThread'[t] = p /\ \A s \in Threads : s # t => byThread'[s] = byThread[s]
        /\ driver'[p] = t /\ \A q \in Presents : q # p => driver'[q] = driver[q]
    BY <2>1, <2>2 DEF IInv, TypeOK
  <2>4. /\ \A q \in Created : tid[q] \in Threads /\ q # NoPresent /\ q \in Presents
        /\ running \subseteq Created /\ waitStop \subseteq Created
        /\ Created' = Created
    BY <2>1, CreatedArePresents DEF IInv, OnThreads, TypeOK, NoPresent, Created
  <2>5. \A q \in Presents : driver'[q] # None => q \in Created
    BY <2>3 DEF IInv, OnThreads
  <2>6. \A s \in Threads : byThread'[s] # NoPresent =>
          byThread'[s] \in Created /\ (s = tid[byThread'[s]] \/ s = driver'[byThread'[s]])
    <3>. SUFFICES ASSUME NEW s \in Threads, byThread'[s] # NoPresent
                  PROVE  byThread'[s] \in Created /\ (s = tid[byThread'[s]] \/ s = driver'[byThread'[s]])
      OBVIOUS
    <3>1. CASE s = t
      BY <2>3, <3>1
    <3>2. CASE s # t
      <4>1. byThread'[s] = byThread[s]
        BY <2>3, <3>2
      <4>2. byThread[s] \in Created /\ (s = tid[byThread[s]] \/ s = driver[byThread[s]])
        BY <4>1 DEF IInv, OnThreads
      <4>3. s # None
        BY CompletionAssumption
      <4>. QED BY <2>1, <2>3, <2>4, <4>1, <4>2, <4>3
    <3>. QED BY <3>1, <3>2
  <2>7. \A s \in Threads : Leads(s)'
    BY <2>1, <2>2, <2>3 DEF IInv, OnThreads, Leads, Early
  <2>8. \A q \in waitStop : byThread'[tid[q]] = q
    BY <2>1, <2>3, <2>4 DEF IInv, OnThreads
  <2>9. \A q \in running : q \notin completed => byThread[tid[q]] = q /\ tid[q] # t
    BY <2>1, <2>4 DEF IInv, OnThreads, Led
  <2>10. \A q \in running : q \notin completed => Led(q)'
    BY <2>1, <2>3, <2>4, <2>9 DEF Led
  <2>11. \A q \in running : driver'[q] # tid[q]
    BY <2>2, <2>3, <2>4, <2>9 DEF IInv, OnThreads
  <2>12. Vacated'
    BY <2>1 DEF Vacated
  <2>. QED BY <2>1, <2>4, <2>5, <2>6, <2>7, <2>8, <2>10, <2>11, <2>12 DEF OnThreads
<1>14. ASSUME NEW t \in Threads, LeaveThread(t) PROVE OnThreads'
  <2>1. /\ placing = "no" /\ byThread[t] # NoPresent
        /\ byThread[t] \notin running \/ tid[byThread[t]] # t
        /\ byThread' = [byThread EXCEPT ![t] = NoPresent]
        /\ UNCHANGED <<created, tid, driver, completed, at, placing, running, waitStop>>
    BY <1>14 DEF LeaveThread, Idle, newVars, callVars, flagVars
  <2>2. waitStop \subseteq running
    BY DEF IInv, Waiting
  <2>. QED BY <2>1, <2>2, ThreadCleared
<1>15. ASSUME NEW t \in Threads, PresentStopSettles(t) PROVE OnThreads'
  <2>1. /\ stack = <<>> /\ placing = "no" /\ byThread[t] \in waitStop
        /\ running' = running \ {byThread[t]} /\ waitStop' = waitStop \ {byThread[t]}
        /\ byThread' = [byThread EXCEPT ![t] = NoPresent]
        /\ UNCHANGED <<created, tid, driver, completed, at, placing>>
    BY <1>15 DEF PresentStopSettles, Idle, newVars, callVars
  <2>2. byThread[t] \in completed /\ byThread[t] \in Presents
    BY <2>1, CreatedArePresents DEF IInv, Waiting, TypeOK
  <2>3. ~Early(byThread[t]) /\ byThread[t] # NoPresent
    BY <2>1, <2>2, IdleIs, CreatedArePresents DEF IInv, Early, NoPresent
  <2>4. \A s \in Threads : byThread[s] = byThread[t] => s = tid[byThread[t]]
    BY <2>2, <2>3 DEF IInv, OnThreads, Leads
  <2>. QED BY <2>1, <2>4, ThreadCleared
<1>16. ASSUME NEW t \in Threads, PresentStopLeaves(t) PROVE OnThreads'
  <2>1. /\ placing = "no" /\ byThread[t] \notin waitStop
        /\ running' = running \ {byThread[t]}
        /\ byThread' = [byThread EXCEPT ![t] = NoPresent]
        /\ UNCHANGED <<created, tid, driver, completed, at, placing, waitStop>>
    BY <1>16 DEF PresentStopLeaves, Idle, newVars, callVars, flagVars
  <2>. QED BY <2>1, ThreadCleared
<1>17. ASSUME NEW p \in Created, EndFlipFrameTypes(p) PROVE OnThreads'
  <2>1. /\ stack = <<>> /\ p \in waitType
        /\ StopTrackingPresent(p, p \in waitStop)
        /\ UNCHANGED <<created, tid, driver, completed, at, placing, waitStop, running>>
    BY <1>17 DEF EndFlipFrameTypes, Idle, newVars, callVars
  <2>2. p \in Presents /\ p \in completed
    <3>1. \A q \in Presents : at[q] # "deps"
      BY <2>1, IdleIs
    <3>. QED BY <2>1, <3>1, CreatedArePresents DEF IInv, Waiting
  <2>3. \A q \in Presents : Early(q) => Early(q)'
    BY <2>1 DEF Early
  <2>4. CASE p \in waitStop
    <3>1. \A s \in Threads :
            byThread'[s] = IF s = driver[p] /\ byThread[s] = p THEN NoPresent ELSE byThread[s]
      <4>1. byThread' = Off({driver[p]}, p)
        BY <2>1, <2>2, <2>4 DEF StopTrackingPresent
      <4>. QED BY <4>1, OffIs DEF IInv
    <3>. QED BY <2>1, <2>2, <2>3, <2>4, <3>1, LeavesDriver
  <2>5. CASE p \notin waitStop
    <3>1. \A s \in Threads : byThread'[s] = IF (s = tid[p] \/ s = driver[p]) /\ byThread[s] = p
                                            THEN NoPresent ELSE byThread[s]
      <4>1. byThread' = Off({tid[p], driver[p]}, p)
        BY <2>1, <2>2, <2>5 DEF StopTrackingPresent
      <4>. QED BY <4>1, OffIs DEF IInv
    <3>2. waitStop' = waitStop \ {p}
      BY <2>1, <2>5
    <3>. QED BY <2>1, <2>2, <2>3, <3>1, <3>2, LeavesBoth
  <2>. QED BY <2>4, <2>5
<1>. QED BY <1>1, <1>2, <1>3, <1>4, <1>5, <1>6, <1>7, <1>8, <1>9, <1>10, <1>11, <1>12, <1>13,
     <1>14, <1>15, <1>16, <1>17 DEF Step, SkipsDependent, SkipsEarlier, DiscardEnds,
     EventDisplays, WaitForDwm, AttachDependents, DequeuePresentEvents, newVars, flagVars,
     callVars, vars

----
\* The order of the frames.

\* The present on top of the stack, and the frames below it.
LEMMA TopFrame ==
    ASSUME IInv, stack # <<>>, Top # Discarding
    PROVE  /\ Len(stack) \in 1 .. Len(stack) /\ stack[Len(stack)] = Top
           /\ \A i \in 1 .. Len(stack) : i # Len(stack) /\ stack[i] # Discarding =>
                /\ Below(i, Len(stack)) /\ Nests(i, Len(stack))
                /\ Alike(i, Len(stack)) => Passed(Top)
           /\ stack[1] = Discarding /\ Len(stack) = 2 =>
                \A r \in Created : Process(r) = Process(Top) /\ r <= Top => r \in completed
<1>1. Len(stack) \in 1 .. Len(stack) /\ stack[Len(stack)] = Top /\ Len(stack) \in Nat
  BY TopIs, StackIs DEF Top, IInv
<1>2. \A i \in 1 .. Len(stack) : i # Len(stack) /\ stack[i] # Discarding => Below(i, Len(stack))
  BY <1>1 DEF Below
<1>3. ASSUME stack[1] = Discarding, Len(stack) = 2
      PROVE  \A r \in Created : Process(r) = Process(Top) /\ r <= Top => r \in completed
  BY <1>1, <1>3 DEF IInv, InOrder
<1>4. \A i \in 1 .. Len(stack) : i # Len(stack) /\ stack[i] # Discarding =>
        Nests(i, Len(stack)) /\ (Alike(i, Len(stack)) => Ends(i, Len(stack)))
  BY <1>1, <1>2 DEF IInv, InOrder
<1>5. \A i : Ends(i, Len(stack)) => Passed(Top)
  BY <1>1 DEF Ends
<1>. QED BY <1>1, <1>2, <1>3, <1>4, <1>5

\* A present whose completion is under way is marked.
LEMMA UnderWay ==
    ASSUME IInv, NEW q \in Presents, at[q] # "none"
    PROVE  q \in completed /\ q \in Created
<1>1. PICK i \in 1 .. Len(stack) : stack[i] = q
  BY DEF IInv, Stacked
<1>2. q # Discarding
  BY CreatedArePresents DEF IInv, Discarding
<1>. QED BY <1>1, <1>2 DEF IInv, Stacked, TypeOK

\* An earlier present of the chain that is in flight is among those of its process.
LEMMA OpenEarlier ==
    ASSUME IInv, NEW q \in Created, NEW r \in Created, r < q, SameChain(r, q), r \notin completed
    PROVE  r \in OrderedOf(Process(q)) /\ r \in Nat /\ r # NoPresent
<1>1. q \in Nat /\ r \in Presents /\ r \in Nat /\ r # 0 /\ q <= created /\ created \in Nat
  BY CreatedArePresents DEF IInv
<1>2. r # created
  BY <1>1
<1>3. r \in ordered
  BY <1>1, <1>2, PlacedIs DEF IInv, Tables
<1>. QED BY <1>1, <1>3 DEF OrderedOf, SameChain, NoPresent

\* Where the iterator goes next, no present in flight is left behind.
LEMMA NextAhead ==
    ASSUME IInv, NEW q \in Created, NEW r \in Created, r < q, SameChain(r, q), r \notin completed,
           NEW x \in Nat, x < r, NEW n, IsFirst(n, {s \in OrderedOf(Process(q)) : s > x})
    PROVE  n # NoPresent /\ n <= r
<1>. DEFINE S == {s \in OrderedOf(Process(q)) : s > x}
<1>1. r \in OrderedOf(Process(q)) /\ r \in Nat
  BY OpenEarlier
<1>2. r \in S
  BY <1>1
<1>3. \A s \in S : s # NoPresent
  <2>1. \A s \in ordered : s # NoPresent
    BY CreatedArePresents DEF IInv, TypeOK, NoPresent
  <2>. QED BY <2>1 DEF OrderedOf
<1>. HIDE DEF S
<1>4. IsFirst(n, S)
  BY DEF S
<1>. QED BY <1>2, <1>3, <1>4 DEF IsFirst

\* The order when no completion is under way below the first.
LEMMA InOrderEmpty ==
    ASSUME Len(stack') \in {0, 1}, \A p \in Presents : at'[p] = "none"
    PROVE  InOrder'
<1>1. \A i, j \in 1 .. Len(stack') : ~Below(i, j)'
  BY DEF Below
<1>2. ~(Len(stack') >= 2)
  <2>1. Len(stack') = 0 \/ Len(stack') = 1
    OBVIOUS
  <2>2. ~(0 >= 2) /\ ~(1 >= 2)
    OBVIOUS
  <2>. QED BY <2>1, <2>2
<1>3. \A p \in Presents : Ahead(p)'
  BY DEF Ahead
<1>. QED BY <1>1, <1>2, <1>3 DEF InOrder

\* The frame on top of the stack goes on.
LEMMA InOrderGoesOn ==
    ASSUME IInv, stack # <<>>, Top # Discarding,
           UNCHANGED <<created, tid, swap, completed, final, stack>>,
           \A q \in Presents : q # Top => at'[q] = at[q] /\ iter'[q] = iter[q],
           Ahead(Top)',
           at'[Top] \in {"stop", "store"} /\ final[Top] = "Presented" => Passed(Top)
    PROVE  InOrder'
<1>1. /\ \A q \in Presents : Process(q)' = Process(q)
      /\ \A q, r \in Presents : SameChain(q, r)' <=> SameChain(q, r)
      /\ Created' = Created /\ Top' = Top
  BY DEF Process, SameChain, Created, Top
<1>2. /\ Len(stack) \in Nat
      /\ \A i \in 1 .. Len(stack) : stack[i] # Discarding => stack[i] \in Presents
      /\ \A i, j \in 1 .. Len(stack) : Below(i, j) => stack[i] \in Presents /\ stack[i] # Top
  <2>1. Len(stack) \in Nat
    BY StackIs DEF IInv
  <2>2. \A i \in 1 .. Len(stack) : stack[i] # Discarding => stack[i] \in Presents
    BY CreatedArePresents DEF IInv, Stacked, TypeOK
  <2>3. \A i, j \in 1 .. Len(stack) : Below(i, j) => i # Len(stack)
    BY <2>1 DEF Below
  <2>. QED BY <2>1, <2>2, <2>3, TopOnce DEF Below
<1>3. \A q : Passed(q)' <=> Passed(q)
  BY <1>1 DEF Passed, SameChain, Process
<1>4. \A i, j : (Below(i, j)' <=> Below(i, j)) /\ (Alike(i, j)' <=> Alike(i, j))
                /\ (Nests(i, j)' <=> Nests(i, j))
  BY DEF Below, Alike, Nests, Process
<1>5. \A i, j \in 1 .. Len(stack) : Below(i, j) /\ Ends(i, j) => Ends(i, j)'
  BY <1>2, <1>3 DEF Ends
<1>6. \A q \in Presents : Ahead(q)'
  <2>1. \A q \in Presents : q # Top => (Ahead(q)' <=> Ahead(q))
    BY <1>1 DEF Ahead, SameChain, Process
  <2>. QED BY <1>1, <2>1 DEF IInv, InOrder
<1>7. \A q \in Presents : at'[q] \in {"stop", "store"} /\ final'[q] = "Presented" => Passed(q)'
  <2>1. CASE TRUE
    BY <1>3 DEF IInv, InOrder
  <2>. QED BY <2>1
<1>8. Len(stack') >= 2 /\ stack'[1] = Discarding =>
         \A r \in Created' : Process(r)' = Process(stack[2])' /\ r <= stack'[2] => r \in completed'
  BY <1>1 DEF IInv, InOrder, Process
<1>. QED BY <1>4, <1>5, <1>6, <1>7, <1>8 DEF IInv, InOrder

\* A completion begins above presents of DWM if it is of an application, and above
\* the later present of its chain.
LEMMA BeginsAbove ==
    ASSUME IInv, NEW p \in Presents, Begins(p), NEW i \in 1 .. Len(stack), stack[i] # Discarding
    PROVE  \/ Process(stack[i]) = DwmProcess /\ Process(p) # DwmProcess
           \/ /\ i = Len(stack)
              /\ Process(stack[i]) = Process(p) /\ p < stack[i] /\ swap[stack[i]] = swap[p]
              /\ Passed(p)
              /\ iter'[stack[i]] # NoPresent => p < iter'[stack[i]]
              /\ stack[1] = Discarding => i # 2
<1>1. /\ p \in Created /\ p \notin completed /\ p \in Nat
      /\ FromEvent(p) \/ FromDiscarding(p) \/ FromDependents(p) \/ FromEarlier(p)
  BY BeginsIs, CreatedArePresents DEF Begins, IInv
<1>2. Len(stack) \in Nat
  BY StackIs DEF IInv
<1>3. CASE FromEvent(p)
  <2>1. Len(stack) = 0
    BY <1>3, StackIs DEF FromEvent, IInv
  <2>. QED BY <2>1
<1>4. CASE FromDiscarding(p)
  <2>1. stack # <<>> /\ Top = Discarding
    BY <1>4 DEF FromDiscarding
  <2>2. Len(stack) = 1 /\ stack[1] = Discarding
    BY <2>1, TopIs DEF Top
  <2>. QED BY <2>2
<1>5. CASE FromDependents(p)
  <2>1. At("deps") /\ iter[Top] > 0 /\ p = deps[Top][iter[Top]]
    BY <1>5 DEF FromDependents
  <2>2. Process(Top) = DwmProcess /\ Process(p) # DwmProcess
    BY <2>1, DependentIs DEF IInv, Iterating
  <2>3. stack # <<>> /\ Top # Discarding
    BY <2>1 DEF At
  <2>4. stack[Len(stack)] = Top /\ (i # Len(stack) => Nests(i, Len(stack)))
    BY <2>3, TopFrame
  <2>. QED BY <2>2, <2>4 DEF Nests, Alike
<1>6. CASE FromEarlier(p)
  <2>1. At("earlier") /\ iter[Top] \in 1 .. Top - 1 /\ p = iter[Top] /\ swap[p] = swap[Top]
    BY <1>6 DEF FromEarlier
  <2>2. /\ stack # <<>> /\ Top # Discarding /\ at[Top] = "earlier"
        /\ Top \in Presents /\ Top \in Created /\ Top \in Nat
    BY <2>1, TopIs, CreatedArePresents DEF At, IInv
  <2>3. Process(p) = Process(Top) /\ p < Top /\ SameChain(p, Top)
    <3>1. p # NoPresent
      BY <2>1 DEF NoPresent
    <3>2. Process(p) = Process(Top)
      BY <2>1, <2>2, <3>1 DEF IInv, Iterating
    <3>. QED BY <2>1, <2>2, <3>2 DEF SameChain
  <2>4. ~Passed(Top)
    BY <1>1, <2>3 DEF Passed
  <2>5. CASE i # Len(stack)
    <3>1. Nests(i, Len(stack)) /\ ~Alike(i, Len(stack)) /\ stack[Len(stack)] = Top
      BY <2>2, <2>4, <2>5, TopFrame
    <3>. QED BY <2>3, <3>1 DEF Nests, Alike
  <2>6. CASE i = Len(stack)
    <3>1. stack[i] = Top
      BY <2>6 DEF Top
    <3>2. Passed(p)
      <4>. SUFFICES ASSUME NEW r \in Created, r < p, SameChain(r, p) PROVE r \in completed
        BY DEF Passed
      <4>1. r \in Nat /\ SameChain(r, Top) /\ r < Top
        BY <1>1, <2>2, <2>3, CreatedArePresents DEF IInv, SameChain
      <4>2. r \in completed \/ p <= r
        BY <2>1, <2>2, <4>1 DEF IInv, InOrder, Ahead
      <4>. QED BY <1>1, <4>1, <4>2
    <3>3. iter'[Top] # NoPresent => p < iter'[Top]
      <4>1. p # Top
        BY <1>1, <2>2, <2>3
      <4>2. PICK n \in 0 .. created : /\ IsFirst(n, {r \in OrderedOf(Process(Top)) : r > p})
                                      /\ Marked(p, [iter EXCEPT ![Top] = n])
        BY <1>6, <2>1 DEF FromEarlier
      <4>3. iter' = [[iter EXCEPT ![Top] = n] EXCEPT ![p] = Len(deps[p])]
        BY <4>2 DEF Marked
      <4>4. iter'[Top] = n
        BY <2>2, <4>1, <4>3 DEF IInv, TypeOK
      <4>5. n # NoPresent => n > p
        BY <4>2 DEF IsFirst
      <4>6. n \in Nat
        BY <4>2
      <4>. QED BY <1>1, <4>4, <4>5, <4>6
    <3>4. stack[1] = Discarding => i # 2
      <4>1. stack[1] = Discarding /\ Len(stack) = 2 => p \in completed
        BY <1>1, <2>2, <2>3, TopFrame
      <4>. QED BY <1>1, <2>6, <4>1
    <3>. QED BY <2>1, <2>3, <2>6, <3>1, <3>2, <3>3, <3>4
  <2>. QED BY <2>5, <2>6
<1>. QED BY <1>1, <1>3, <1>4, <1>5, <1>6

\* The first completion begins with the first present of a process.
LEMMA BeginsFirst ==
    ASSUME IInv, NEW p \in Presents, Begins(p), Len(stack) = 1, stack[1] = Discarding,
           NEW r \in Created, Process(r) = Process(p), r <= p, r # p
    PROVE  r \in completed
<1>1. stack # <<>> /\ Top = Discarding
  BY StackIs DEF IInv, Top
<1>2. FromDiscarding(p)
  BY <1>1 DEF Begins, FromEvent, FromDependents, FromEarlier, At
<1>3. placing = "no"
  BY <1>1, TopIs
<1>4. r \in Presents /\ r \in Nat /\ p \in Nat
  BY CreatedArePresents DEF IInv
<1>5. r \notin completed => r \in OrderedOf(Process(p))
  BY <1>3, <1>4, PlacedIs DEF IInv, Tables, OrderedOf
<1>6. \A s \in OrderedOf(Process(p)) : p <= s
  BY <1>2 DEF FromDiscarding
<1>. QED BY <1>4, <1>5, <1>6

LEMMA InOrderNext == IInv /\ Step => InOrder'
<1>. SUFFICES ASSUME IInv, Step PROVE InOrder'
  OBVIOUS
<1>1. CASE UNCHANGED <<stack, at, iter, completed, final, swap, tid, created>>
  <2>1. /\ \A q : Process(q)' = Process(q)
        /\ \A q, r : SameChain(q, r)' <=> SameChain(q, r)
        /\ Created' = Created
    BY <1>1 DEF Process, SameChain, Created
  <2>2. \A q : (Passed(q)' <=> Passed(q)) /\ (Ahead(q)' <=> Ahead(q))
    BY <1>1, <2>1 DEF Passed, Ahead
  <2>3. \A i, j : (Below(i, j)' <=> Below(i, j)) /\ (Alike(i, j)' <=> Alike(i, j))
    BY <1>1 DEF Below, Alike, Process
  <2>4. \A i, j : (Nests(i, j)' <=> Nests(i, j)) /\ (Ends(i, j)' <=> Ends(i, j))
    BY <1>1 DEF Nests, Ends, Alike, Process, Passed, SameChain, Created
  <2>5. \A r : Process(r)' = Process(stack[2])' <=> Process(r) = Process(stack[2])
    BY <1>1 DEF Process
  <2>. QED BY <1>1, <2>1, <2>2, <2>3, <2>4, <2>5 DEF IInv, InOrder
<1>2. ASSUME NEW p \in Presents, Begins(p) PROVE InOrder'
  <2>1. /\ p \in Created /\ p \in Nat /\ p \notin completed /\ at[p] = "none" /\ p # Discarding
        /\ \A i \in 1 .. Len(stack) : stack[i] # p
        /\ p \in Numbers
        /\ UNCHANGED <<created, tid, swap>>
        /\ \E it : Marked(p, it)
    BY <1>2, BeginsIs, CreatedArePresents DEF Begins, IInv
  <2>2. /\ completed' = completed \cup {p} /\ at' = [at EXCEPT ![p] = "deps"]
        /\ stack' = Append(stack, p)
        /\ \A q \in completed : final'[q] = final[q]
    BY <2>1 DEF Marked
  <2>3. at'[p] = "deps" /\ \A q \in Presents : q # p => at'[q] = at[q]
    BY <2>2 DEF IInv, TypeOK
  <2>. DEFINE L == Len(stack)
  <2>4. /\ L \in Nat /\ Len(stack') = L + 1
        /\ \A i \in 1 .. L + 1 : i \in 1 .. L \/ i = L + 1
        /\ \A i \in 1 .. L : stack'[i] = stack[i]
        /\ stack'[L + 1] = p
    BY <2>1, <2>2, PushIs DEF IInv
  <2>5. \A i \in 1 .. L : stack[i] # Discarding => stack[i] \in Presents
    BY CreatedArePresents DEF IInv, Stacked, TypeOK
  <2>6. \A q \in Presents : q # p /\ iter'[q] # iter[q] => stack # <<>> /\ q = Top
    BY <1>2, BeginsIters
  <2>7. /\ \A q : Process(q)' = Process(q)
        /\ \A q, r : SameChain(q, r)' <=> SameChain(q, r)
        /\ Created' = Created
    BY <2>1 DEF Process, SameChain, Created
  <2>8. \A q : Passed(q) => Passed(q)'
    BY <2>2, <2>7 DEF Passed
  <2>9. \A i \in 1 .. L : stack[i] # Discarding =>
          \/ Process(stack[i]) = DwmProcess /\ Process(p) # DwmProcess
          \/ /\ i = L
             /\ Process(stack[i]) = Process(p) /\ p < stack[i] /\ swap[stack[i]] = swap[p]
             /\ Passed(p)
             /\ iter'[stack[i]] # NoPresent => p < iter'[stack[i]]
             /\ stack[1] = Discarding => i # 2
    BY <1>2, BeginsAbove
  <2>10. \A i, j \in 1 .. L : i < j /\ stack[i] # Discarding =>
           /\ stack[i] \in Presents /\ stack[i] # p
           /\ at'[stack[i]] = at[stack[i]] /\ iter'[stack[i]] = iter[stack[i]]
    <3>. SUFFICES ASSUME NEW i \in 1 .. L, NEW j \in 1 .. L, i < j, stack[i] # Discarding
                  PROVE  /\ stack[i] \in Presents /\ stack[i] # p
                         /\ at'[stack[i]] = at[stack[i]] /\ iter'[stack[i]] = iter[stack[i]]
      OBVIOUS
    <3>1. i # L /\ L # 0
      BY <2>4
    <3>2. stack # <<>>
      BY <3>1, StackIs DEF IInv
    <3>3. stack[i] # Top
      BY <3>1, <3>2, TopOnce
    <3>. QED BY <2>1, <2>3, <2>5, <2>6, <3>3
  <2>11. \A i, j \in 1 .. L : /\ Below(i, j)' <=> Below(i, j)
                              /\ Alike(i, j)' <=> Alike(i, j)
                              /\ Nests(i, j)' <=> Nests(i, j)
    BY <2>4, <2>7 DEF Below, Alike, Nests
  <2>13. ASSUME NEW i \in 1 .. L, NEW j, j = L + 1
         PROVE  Alike(i, j)' <=> Process(stack[i]) = Process(p)
    BY <2>1, <2>4, <2>13 DEF Alike, Process
  <2>14. \A i, j \in 1 .. L + 1 : Below(i, j)' => i \in 1 .. L
    BY <2>4 DEF Below
  <2>. HIDE DEF L
  <2>15. ASSUME NEW i \in 1 .. L + 1, NEW j \in 1 .. L + 1, Below(i, j)'
         PROVE  Nests(i, j)'
    <3>1. i \in 1 .. L
      BY <2>14, <2>15
    <3>2. CASE j \in 1 .. L
      <4>1. Nests(i, j)
        BY <2>11, <2>15, <3>1, <3>2 DEF IInv, InOrder, L
      <4>. QED BY <2>11, <3>1, <3>2, <4>1
    <3>3. CASE j = L + 1
      <4>1. stack[i] # Discarding /\ stack'[i] = stack[i] /\ stack'[j] = p
        BY <2>4, <2>15, <3>1, <3>3 DEF Below
      <4>. QED BY <2>7, <2>9, <3>1, <4>1 DEF Nests, Alike
    <3>. QED BY <2>4, <3>2, <3>3
  <2>16. ASSUME NEW i \in 1 .. L + 1, NEW j \in 1 .. L + 1, Below(i, j)', Alike(i, j)'
         PROVE  Ends(i, j)'
    <3>1. i \in 1 .. L /\ stack'[1] = stack[1] /\ stack'[i] = stack[i]
      BY <2>4, <2>14, <2>16
    <3>2. CASE j \in 1 .. L
      <4>1. Below(i, j) /\ Ends(i, j)
        BY <2>11, <2>16, <3>1, <3>2 DEF IInv, InOrder, L
      <4>2. stack'[j] = stack[j]
        BY <2>4, <3>2
      <4>3. at'[stack[i]] = at[stack[i]] /\ iter'[stack[i]] = iter[stack[i]]
        BY <2>10, <3>1, <3>2, <4>1 DEF Below
      <4>. QED BY <2>1, <2>8, <3>1, <4>1, <4>2, <4>3 DEF Ends
    <3>3. CASE j = L + 1
      <4>1. stack[i] # Discarding /\ stack'[j] = p /\ Process(stack[i]) = Process(p)
        BY <2>4, <2>13, <2>16, <3>1, <3>3 DEF Below
      <4>2. /\ swap[stack[i]] = swap[p] /\ Passed(p)
            /\ iter'[stack[i]] # NoPresent => p < iter'[stack[i]]
            /\ stack[1] = Discarding => i # 2
        BY <2>9, <3>1, <4>1
      <4>. QED BY <2>1, <2>8, <3>1, <4>1, <4>2 DEF Ends
    <3>. QED BY <2>4, <3>2, <3>3
  <2>17. ASSUME NEW i \in 1 .. L + 1, NEW j \in 1 .. L + 1, NEW k \in 1 .. L + 1,
                Below(i, j)', j < k, Alike(i, j)', Alike(j, k)'
         PROVE  FALSE
    <3>1. i \in 1 .. L /\ j \in 1 .. L
      BY <2>4, <2>14, <2>17
    <3>2. Below(i, j) /\ Alike(i, j)
      BY <2>11, <2>17, <3>1
    <3>3. CASE k \in 1 .. L
      BY <2>11, <2>17, <3>1, <3>2, <3>3 DEF IInv, InOrder, L
    <3>4. CASE k = L + 1
      <4>1. Process(stack[j]) = Process(p)
        BY <2>13, <2>17, <3>1, <3>4
      <4>3. Process(stack[i]) = Process(p)
        BY <3>2, <4>1 DEF Alike
      <4>2. i # L /\ stack[i] # Discarding
        BY <2>4, <3>1, <3>2 DEF Below
      <4>. QED BY <2>9, <3>1, <4>2, <4>3
    <3>. QED BY <2>4, <3>3, <3>4
  <2>18. ASSUME L + 1 >= 2, stack'[1] = Discarding,
                NEW r \in Created, Process(r)' = Process(stack[2])', r <= stack'[2]
         PROVE  r \in completed'
    <3>1. 1 \in 1 .. L /\ stack[1] = Discarding
      BY <2>4, <2>18
    <3>2. CASE L = 1
      <4>1. stack'[2] = p
        BY <2>4, <3>2
      <4>2. Process(r) = Process(p) /\ r <= p
        BY <2>7, <2>18, <4>1 DEF Process
      <4>. QED BY <1>2, <2>2, <3>1, <3>2, <4>2, BeginsFirst DEF L
    <3>3. CASE L # 1
      <4>1. 2 \in 1 .. L /\ L >= 2
        BY <2>4, <3>1, <3>3
      <4>2. stack'[2] = stack[2]
        BY <2>4, <4>1
      <4>3. Process(r) = Process(stack[2]) /\ r <= stack[2]
        BY <2>1, <2>18, <4>2 DEF Process
      <4>. QED BY <2>2, <3>1, <4>1, <4>3 DEF IInv, InOrder, L
    <3>. QED BY <3>2, <3>3
  <2>19. ASSUME NEW q \in Presents PROVE Ahead(q)'
    <3>. SUFFICES ASSUME at'[q] = "earlier", NEW r \in Created, r < q, SameChain(r, q), r \notin completed'
                  PROVE  iter'[q] # NoPresent /\ iter'[q] <= r
      BY <2>7 DEF Ahead
    <3>1. q # p /\ at[q] = "earlier" /\ at[q] # "deps" /\ r \notin completed /\ r # p
      BY <2>2, <2>3
    <3>2. iter[q] # NoPresent /\ iter[q] <= r
      BY <3>1 DEF IInv, InOrder, Ahead
    <3>3. CASE iter'[q] = iter[q]
      BY <3>2, <3>3
    <3>4. CASE iter'[q] # iter[q]
      <4>1. /\ p = iter[q]
            /\ IsFirst(iter'[q], {s \in OrderedOf(Process(q)) : s > p})
        BY <1>2, <3>1, <3>4, BeginsIters
      <4>2. p < r
        BY <2>1, <3>1, <3>2, <4>1, CreatedArePresents DEF IInv
      <4>3. q \in Created
        BY <3>1, UnderWay
      <4>. QED BY <2>1, <3>1, <4>1, <4>2, <4>3, NextAhead
    <3>. QED BY <3>3, <3>4
  <2>20. ASSUME NEW q \in Presents, at'[q] \in {"stop", "store"}, final'[q] = "Presented"
         PROVE  Passed(q)'
    <3>1. q # p /\ at[q] \in {"stop", "store"} /\ at[q] # "none"
      BY <2>3, <2>20
    <3>2. q \in completed
      BY <3>1, UnderWay
    <3>3. Passed(q)
      BY <2>2, <2>20, <3>1, <3>2 DEF IInv, InOrder
    <3>. QED BY <2>8, <3>3
  <2>21. Len(stack') = L + 1 /\ Created' = Created
    BY <2>4, <2>7
  <2>. QED BY <2>15, <2>16, <2>17, <2>18, <2>19, <2>20, <2>21 DEF InOrder
<1>3. CASE BeginsDiscarding
  <2>1. stack = <<>> /\ stack' = Append(stack, Discarding) /\ at' = at
    BY <1>3 DEF BeginsDiscarding, Idle
  <2>2. Discarding \in Numbers /\ Len(stack) = 0
    BY <2>1, BoundIsNat, StackIs DEF Discarding, Numbers, IInv
  <2>3. Len(stack') = 1
    BY <2>1, <2>2, PushIs DEF IInv
  <2>4. \A q \in Presents : at'[q] = "none"
    BY <2>1, IdleIs
  <2>. QED BY <2>3, <2>4, InOrderEmpty
<1>4. CASE SkipsDependent
  <2>1. /\ stack # <<>> /\ Top # Discarding
        /\ UNCHANGED <<created, tid, swap, completed, final, stack>>
    BY <1>4 DEF SkipsDependent, At, flagVars, newVars
  <2>2. Top \in Presents /\ Top \in Created /\ Top \in completed /\ Top \in Nat
    BY <2>1, TopIs, CreatedArePresents DEF IInv
  <2>3. at' = at /\ at[Top] = "deps" /\ iter' = [iter EXCEPT ![Top] = iter[Top] - 1]
    BY <1>4 DEF SkipsDependent, At
  <2>4. \A q \in Presents : q # Top => at'[q] = at[q] /\ iter'[q] = iter[q]
    BY <2>2, <2>3 DEF IInv, TypeOK
  <2>5. Ahead(Top)'
    BY <2>1, <2>3 DEF Ahead, Top
  <2>6. at'[Top] \notin {"stop", "store"}
    BY <2>3
  <2>. QED BY <2>1, <2>4, <2>5, <2>6, InOrderGoesOn
<1>5. CASE SkipsEarlier
  <2>1. /\ stack # <<>> /\ Top # Discarding
        /\ UNCHANGED <<created, tid, swap, completed, final, stack>>
    BY <1>5 DEF SkipsEarlier, At, flagVars, newVars
  <2>2. Top \in Presents /\ Top \in Created /\ Top \in completed /\ Top \in Nat
    BY <2>1, TopIs, CreatedArePresents DEF IInv
  <2>3. /\ at' = at /\ at[Top] = "earlier" /\ iter[Top] \in 1 .. Top - 1
        /\ swap[iter[Top]] # swap[Top] \/ iter[Top] \in completed
    BY <1>5 DEF SkipsEarlier, At
  <2>4. PICK n \in 0 .. created :
          /\ IsFirst(n, {r \in OrderedOf(Process(Top)) : r > iter[Top]})
          /\ iter' = [iter EXCEPT ![Top] = n]
    BY <1>5 DEF SkipsEarlier
  <2>5. PICK T \in Presents : T = Top
    BY <2>2
  <2>6. iter'[T] = n /\ \A q \in Presents : q # T => at'[q] = at[q] /\ iter'[q] = iter[q]
    BY <2>3, <2>4, <2>5 DEF IInv, TypeOK
  <2>7. Ahead(T)'
    <3>. SUFFICES ASSUME NEW r \in Created, r < T, SameChain(r, T), r \notin completed
                  PROVE  iter'[T] # NoPresent /\ iter'[T] <= r
      BY <2>1 DEF Ahead, Created, SameChain, Process
    <3>1. iter[T] <= r
      BY <2>3, <2>5 DEF IInv, InOrder, Ahead
    <3>2. iter[T] # r
      BY <2>3, <2>5 DEF SameChain
    <3>3. iter[T] < r /\ iter[T] \in Nat
      BY <2>3, <2>5, <3>1, <3>2, CreatedArePresents DEF IInv
    <3>4. T \in Created /\ IsFirst(n, {s \in OrderedOf(Process(T)) : s > iter[T]})
      BY <2>2, <2>4, <2>5
    <3>. QED BY <2>6, <3>3, <3>4, NextAhead
  <2>8. Ahead(Top)'
    BY <2>1, <2>5, <2>7 DEF Top
  <2>9. at'[Top] \notin {"stop", "store"}
    BY <2>3
  <2>. QED BY <2>1, <2>5, <2>6, <2>8, <2>9, InOrderGoesOn
<1>6. CASE DiscardEnds
  <2>1. /\ stack # <<>> /\ Top = Discarding /\ stack' = Pop /\ at' = at
    BY <1>6 DEF DiscardEnds
  <2>2. Len(stack) = 1 /\ stack[1] = Discarding
    BY <2>1, TopIs DEF Top
  <2>3. Len(stack') = 0
    BY <2>1, <2>2, PopIs DEF IInv
  <2>4. \A p \in Presents : at'[p] = "none"
    BY <2>1, <2>2, CreatedArePresents DEF IInv, Stacked, Discarding
  <2>. QED BY <2>3, <2>4, InOrderEmpty
<1>7. CASE DependentsCompleted
  <2>1. /\ stack # <<>> /\ Top # Discarding
        /\ UNCHANGED <<created, tid, swap, completed, final, stack>>
    BY <1>7 DEF DependentsCompleted, At, flagVars, newVars
  <2>2. Top \in Presents /\ Top \in Created /\ Top \in completed /\ Top \in Nat
    BY <2>1, TopIs, CreatedArePresents DEF IInv
  <2>3. \/ \E n \in 0 .. created : /\ IsFirst(n, OrderedOf(Process(Top)))
                                   /\ at' = [at EXCEPT ![Top] = "earlier"]
                                   /\ iter' = [iter EXCEPT ![Top] = n]
        \/ final[Top] # "Presented" /\ at' = [at EXCEPT ![Top] = "stop"] /\ iter' = iter
    BY <1>7 DEF DependentsCompleted
  <2>5. PICK T \in Presents : T = Top
    BY <2>2
  <2>6. /\ \A q \in Presents : q # T => at'[q] = at[q] /\ iter'[q] = iter[q]
        /\ \/ at'[T] = "earlier" /\ IsFirst(iter'[T], OrderedOf(Process(T)))
           \/ at'[T] = "stop" /\ final[T] # "Presented"
    <3>1. at \in [Presents -> {"none", "deps", "earlier", "stop", "store"}] /\ iter \in [Presents -> Nat]
      BY DEF IInv, TypeOK
    <3>. QED BY <2>3, <2>5, <3>1
  <2>7. Ahead(T)'
    <3>. SUFFICES ASSUME at'[T] = "earlier",
                         NEW r \in Created, r < T, SameChain(r, T), r \notin completed
                  PROVE  iter'[T] # NoPresent /\ iter'[T] <= r
      BY <2>1 DEF Ahead, Created, SameChain, Process
    <3>1. r \in OrderedOf(Process(T)) /\ r \in Nat
      BY <2>2, <2>5, OpenEarlier
    <3>2. iter'[T] \in OrderedOf(Process(T)) /\ iter'[T] <= r
      BY <2>6, <3>1 DEF IsFirst
    <3>3. \A s \in ordered : s # NoPresent
      BY CreatedArePresents DEF IInv, TypeOK, NoPresent
    <3>. QED BY <3>2, <3>3 DEF OrderedOf
  <2>8. Ahead(Top)'
    BY <2>1, <2>5, <2>7 DEF Top
  <2>9. at'[Top] \in {"stop", "store"} => final[Top] # "Presented"
    BY <2>5, <2>6
  <2>. QED BY <2>1, <2>5, <2>6, <2>8, <2>9, InOrderGoesOn
<1>8. CASE EarlierCompleted
  <2>1. /\ stack # <<>> /\ Top # Discarding
        /\ UNCHANGED <<created, tid, swap, completed, final, stack>>
    BY <1>8 DEF EarlierCompleted, At, flagVars, newVars
  <2>2. Top \in Presents /\ Top \in Created /\ Top \in completed /\ Top \in Nat
    BY <2>1, TopIs, CreatedArePresents DEF IInv
  <2>3. /\ at[Top] = "earlier" /\ iter[Top] \notin 1 .. Top - 1
        /\ at' = [at EXCEPT ![Top] = "stop"] /\ iter' = [iter EXCEPT ![Top] = 0]
    BY <1>8 DEF EarlierCompleted, At
  <2>5. PICK T \in Presents : T = Top
    BY <2>2
  <2>6. at'[T] = "stop" /\ \A q \in Presents : q # T => at'[q] = at[q] /\ iter'[q] = iter[q]
    BY <2>3, <2>5 DEF IInv, TypeOK
  <2>7. Passed(T)
    <3>. SUFFICES ASSUME NEW r \in Created, r < T, SameChain(r, T), r \notin completed PROVE FALSE
      BY DEF Passed
    <3>1. iter[T] # NoPresent /\ iter[T] <= r
      BY <2>3, <2>5 DEF IInv, InOrder, Ahead
    <3>2. r \in Nat /\ T \in Nat /\ iter[T] \in Nat
      BY <2>2, <2>5, CreatedArePresents DEF IInv, TypeOK
    <3>. QED BY <2>3, <2>5, <3>1, <3>2 DEF NoPresent
  <2>8. Ahead(Top)'
    BY <2>1, <2>5, <2>6 DEF Ahead, Top
  <2>. QED BY <2>1, <2>5, <2>6, <2>7, <2>8, InOrderGoesOn
<1>9. CASE StopTracking
  <2>1. /\ stack # <<>> /\ Top # Discarding
        /\ UNCHANGED <<created, tid, swap, completed, final, stack>>
    BY <1>9 DEF StopTracking, At, flagVars, newVars
  <2>2. Top \in Presents /\ Top \in Created /\ Top \in completed /\ Top \in Nat
    BY <2>1, TopIs, CreatedArePresents DEF IInv
  <2>3. at[Top] = "stop" /\ at' = [at EXCEPT ![Top] = "store"] /\ iter' = iter
    BY <1>9 DEF StopTracking, At
  <2>5. PICK T \in Presents : T = Top
    BY <2>2
  <2>6. at'[T] = "store" /\ \A q \in Presents : q # T => at'[q] = at[q] /\ iter'[q] = iter[q]
    BY <2>3, <2>5 DEF IInv, TypeOK
  <2>7. final[Top] = "Presented" => Passed(Top)
    BY <2>2, <2>3 DEF IInv, InOrder
  <2>8. Ahead(Top)'
    BY <2>1, <2>5, <2>6 DEF Ahead, Top
  <2>. QED BY <2>1, <2>5, <2>6, <2>7, <2>8, InOrderGoesOn
<1>10. CASE StoreCompleted
  <2>1. /\ Top \in Presents /\ stack # <<>> /\ Top # Discarding
        /\ at' = [at EXCEPT ![Top] = "none"] /\ stack' = Pop
        /\ UNCHANGED <<created, tid, swap, completed, final, iter>>
    BY <1>10, StoreCompletedIs DEF newVars, StoreCompleted, At
  <2>2. PICK T \in Presents : T = Top
    BY <2>1
  <2>3. at'[T] = "none" /\ \A q \in Presents : q # T => at'[q] = at[q]
    BY <2>1, <2>2 DEF IInv, TypeOK
  <2>4. /\ Len(stack) \in Nat /\ Len(stack') = Len(stack) - 1
        /\ \A i : i \in 1 .. Len(stack') <=> i \in 1 .. Len(stack) /\ i # Len(stack)
        /\ \A i \in 1 .. Len(stack') : stack'[i] = stack[i]
    BY <2>1, PopIs DEF IInv
  <2>5. \A i \in 1 .. Len(stack) : stack[i] = T <=> i = Len(stack)
    BY <2>1, <2>2, TopOnce
  <2>6. \A i \in 1 .. Len(stack) : stack[i] # Discarding => stack[i] \in Presents
    BY CreatedArePresents DEF IInv, Stacked, TypeOK
  <2>7. \A i \in 1 .. Len(stack') :
          /\ i \in 1 .. Len(stack)
          /\ stack'[i] = stack[i] /\ stack[i] # T
          /\ stack[i] # Discarding => at'[stack[i]] = at[stack[i]]
    BY <2>3, <2>4, <2>5, <2>6
  <2>8. /\ \A q : Process(q)' = Process(q)
        /\ \A q, r : SameChain(q, r)' <=> SameChain(q, r)
        /\ Created' = Created
    BY <2>1 DEF Process, SameChain, Created
  <2>9. \A q : Passed(q)' <=> Passed(q)
    BY <2>1, <2>8 DEF Passed
  <2>10. \A i, j \in 1 .. Len(stack') : /\ Below(i, j)' <=> Below(i, j)
                                        /\ Alike(i, j)' <=> Alike(i, j)
                                        /\ Nests(i, j)' <=> Nests(i, j)
    BY <2>7, <2>8 DEF Below, Alike, Nests
  <2>11. \A i, j \in 1 .. Len(stack') : Below(i, j) /\ Ends(i, j) => Ends(i, j)'
    <3>. SUFFICES ASSUME NEW i \in 1 .. Len(stack'), NEW j \in 1 .. Len(stack'),
                         Below(i, j), Ends(i, j)
                  PROVE  Ends(i, j)'
      OBVIOUS
    <3>1. /\ stack'[i] = stack[i] /\ stack'[j] = stack[j] /\ at'[stack[i]] = at[stack[i]]
      BY <2>7 DEF Below
    <3>2. stack'[1] = stack[1]
      <4>1. 1 \in 1 .. Len(stack')
        BY <2>4
      <4>. QED BY <2>7, <4>1
    <3>. QED BY <2>1, <2>9, <3>1, <3>2 DEF Ends
  <2>12. \A q \in Presents : Ahead(q)'
    <3>1. \A q \in Presents : q # T => (Ahead(q)' <=> Ahead(q))
      BY <2>1, <2>3, <2>8 DEF Ahead
    <3>2. Ahead(T)'
      BY <2>3 DEF Ahead
    <3>. QED BY <3>1, <3>2 DEF IInv, InOrder
  <2>13. \A q \in Presents : at'[q] \in {"stop", "store"} /\ final'[q] = "Presented" => Passed(q)'
    BY <2>1, <2>3, <2>9 DEF IInv, InOrder
  <2>14. ASSUME Len(stack') >= 2, stack'[1] = Discarding, NEW r \in Created,
                Process(r)' = Process(stack[2])', r <= stack'[2]
         PROVE  r \in completed'
    <3>1. 1 \in 1 .. Len(stack') /\ 2 \in 1 .. Len(stack') /\ Len(stack) >= 2
      BY <2>4, <2>14
    <3>2. stack'[1] = stack[1] /\ stack'[2] = stack[2]
      BY <2>7, <3>1
    <3>3. Process(r) = Process(stack[2])
      BY <2>1, <2>14, <3>2 DEF Process
    <3>. QED BY <2>1, <2>14, <3>1, <3>2, <3>3 DEF IInv, InOrder
  <2>15. \A i, j \in 1 .. Len(stack') : Below(i, j)' => Nests(i, j)'
    BY <2>7, <2>10 DEF IInv, InOrder
  <2>16. \A i, j \in 1 .. Len(stack') : Below(i, j)' /\ Alike(i, j)' => Ends(i, j)'
    BY <2>7, <2>10, <2>11 DEF IInv, InOrder
  <2>17. \A i, j, k \in 1 .. Len(stack') : Below(i, j)' /\ j < k => ~(Alike(i, j)' /\ Alike(j, k)')
    BY <2>7, <2>10 DEF IInv, InOrder
  <2>. QED BY <2>8, <2>12, <2>13, <2>14, <2>15, <2>16, <2>17 DEF InOrder
<1>11. ASSUME NEW t \in Threads, NEW chain \in SwapChains, NEW runtime \in BOOLEAN,
             TrackPresent(t, chain, runtime) PROVE InOrder'
  <2>1. stack = <<>> /\ UNCHANGED <<stack, at>>
    BY <1>11 DEF TrackPresent, Idle, callVars
  <2>2. Len(stack') \in {0, 1} /\ \A q \in Presents : at'[q] = "none"
    BY <2>1, StackIs, IdleIs DEF IInv
  <2>. QED BY <2>2, InOrderEmpty
<1>12. ASSUME NEW p \in Created, NEW f \in Finals, EventDisplays(p, f) PROVE InOrder'
  <2>1. stack = <<>> /\ UNCHANGED <<stack, at>>
    BY <1>12 DEF EventDisplays, Idle, callVars
  <2>2. Len(stack') \in {0, 1} /\ \A q \in Presents : at'[q] = "none"
    BY <2>1, StackIs, IdleIs DEF IInv
  <2>. QED BY <2>2, InOrderEmpty
<1>. QED BY <1>1, <1>2, <1>3, <1>4, <1>5, <1>6, <1>7, <1>8, <1>9, <1>10, <1>11, <1>12 DEF Step,
     LosesCompleted, EvictsNothing, PlaceTracked, EmplaceOnThread, SubmitOnDriverThread,
     LeaveThread, PresentStopSettles, PresentStopLeaves, WaitForDwm, AttachDependents,
     EndFlipFrameTypes, DequeuePresentEvents, newVars, flagVars, callVars, vars

----
\* The completions advance.

\* The completed present that is on its way through "deps" to "store", by stage.
LEMMA StageIs ==
    ASSUME NEW p \in Created
    PROVE  /\ p \notin completed => Stage(p) = 0
           /\ p \in completed /\ at[p] = "deps" => Stage(p) = 1
           /\ p \in completed /\ at[p] = "earlier" => Stage(p) = 2
           /\ p \in completed /\ at[p] = "stop" => Stage(p) = 3
           /\ p \in completed /\ at[p] = "store" => Stage(p) = 4
           /\ p \in completed /\ at[p] = "none" => Stage(p) = 5
BY DEF Stage

LEMMA StageBecomes ==
    ASSUME NEW p \in Created
    PROVE  /\ p \in completed' /\ at'[p] = "deps" => Stage(p)' = 1
           /\ p \in completed' /\ at'[p] = "earlier" => Stage(p)' = 2
           /\ p \in completed' /\ at'[p] = "stop" => Stage(p)' = 3
           /\ p \in completed' /\ at'[p] = "store" => Stage(p)' = 4
           /\ p \in completed' /\ at'[p] = "none" => Stage(p)' = 5
BY DEF Stage

\* The iterator over the dependent presents of q goes down ...
LEMMA DependentPassed ==
    ASSUME IInv, NEW q \in Created, q \in completed, q \in completed',
           at[q] = "deps", at'[q] = "deps", iter[q] > 0, iter'[q] = iter[q] - 1
    PROVE  Advances(q)
<1>1. Stage(q) = 1 /\ Stage(q)' = 1
  BY StageIs, StageBecomes
<1>2. Left(q) = iter[q] /\ Left(q)' = iter'[q]
  BY DEF Left
<1>3. iter[q] \in Nat
  BY CreatedArePresents DEF IInv, TypeOK
<1>4. iter[q] - 1 < iter[q]
  BY <1>3
<1>. QED BY <1>1, <1>2, <1>4 DEF Advances

\* ... and that over the earlier presents up, or to the end.
LEMMA EarlierPassed ==
    ASSUME IInv, NEW q \in Created, q \in completed, q \in completed', created' = created,
           at[q] = "earlier", at'[q] = "earlier", iter[q] # NoPresent, iter'[q] \in 0 .. created,
           IsFirst(iter'[q], {r \in OrderedOf(Process(q)) : r > iter[q]})
    PROVE  Advances(q)
<1>1. Stage(q) = 2 /\ Stage(q)' = 2
  BY StageIs, StageBecomes
<1>2. Left(q) = created + 1 - iter[q]
  BY DEF Left
<1>3. iter[q] \in Nat /\ iter[q] <= created /\ created \in Nat
  <2>1. q \in Presents
    BY CreatedArePresents DEF IInv
  <2>2. iter[q] \in Created
    BY <2>1 DEF IInv, Iterating, TypeOK
  <2>. QED BY <2>2, CreatedArePresents DEF IInv
<1>4. CASE iter'[q] = NoPresent
  <2>1. Left(q)' = 0
    BY <1>4 DEF Left
  <2>2. 0 < created + 1 - iter[q]
    BY <1>3
  <2>. QED BY <1>1, <1>2, <2>1, <2>2 DEF Advances
<1>5. CASE iter'[q] # NoPresent
  <2>1. Left(q)' = created + 1 - iter'[q]
    BY <1>5 DEF Left
  <2>2. iter'[q] > iter[q]
    BY <1>5 DEF IsFirst
  <2>3. created + 1 - iter'[q] < created + 1 - iter[q]
    BY <1>3, <2>2
  <2>. QED BY <1>1, <1>2, <2>1, <2>3 DEF Advances
<1>. QED BY <1>4, <1>5

LEMMA AdvancesNext == IInv /\ Step => \A q \in Created : Moves(q) => Advances(q)
<1>. SUFFICES ASSUME IInv, Step PROVE \A q \in Created : Moves(q) => Advances(q)
  OBVIOUS
<1>1. CASE UNCHANGED <<at, iter>>
  BY <1>1 DEF Moves
<1>2. ASSUME NEW p \in Presents, Begins(p) PROVE \A q \in Created : Moves(q) => Advances(q)
  <2>1. /\ p \in Created /\ p \notin completed /\ \E it : Marked(p, it)
        /\ created' = created
    BY <1>2, BeginsIs DEF Begins
  <2>2. /\ completed' = completed \cup {p} /\ at'[p] = "deps"
        /\ \A q \in Presents : q # p => at'[q] = at[q]
    BY <2>1, CreatedArePresents DEF Marked, IInv, TypeOK
  <2>3. ASSUME NEW q \in Created, Moves(q) PROVE Advances(q)
    <3>1. CASE q = p
      <4>1. Stage(q) = 0 /\ Stage(q)' = 1
        BY <2>1, <2>2, <3>1, StageIs, StageBecomes
      <4>. QED BY <4>1 DEF Advances
    <3>2. CASE q # p
      <4>1. q \in Presents /\ iter'[q] # iter[q] /\ at'[q] = at[q]
        BY <2>2, <2>3, <3>2, CreatedArePresents DEF Moves, IInv
      <4>2. /\ stack # <<>> /\ q = Top /\ at[q] \in {"deps", "earlier"}
            /\ at[q] = "deps" => iter[q] > 0 /\ iter'[q] = iter[q] - 1
            /\ at[q] = "earlier" =>
                 /\ p = iter[q] /\ iter'[q] \in 0 .. created
                 /\ IsFirst(iter'[q], {r \in OrderedOf(Process(q)) : r > p})
        BY <1>2, <3>2, <4>1, BeginsIters
      <4>3. q \in completed /\ q \in completed'
        <5>1. Top # Discarding
          BY <4>1, <4>2, CreatedArePresents DEF IInv, Discarding
        <5>. QED BY <2>2, <4>2, <5>1, TopIs
      <4>4. CASE at[q] = "deps"
        BY <4>1, <4>2, <4>3, <4>4, DependentPassed
      <4>5. CASE at[q] = "earlier"
        <5>1. p # NoPresent
          BY <2>1, CreatedArePresents DEF IInv, NoPresent
        <5>. QED BY <2>1, <4>1, <4>2, <4>3, <4>5, <5>1, EarlierPassed
      <4>. QED BY <4>2, <4>4, <4>5
    <3>. QED BY <3>1, <3>2
  <2>. QED BY <2>3
<1>3. CASE SkipsDependent
  <2>1. /\ At("deps") /\ iter[Top] > 0 /\ iter' = [iter EXCEPT ![Top] = iter[Top] - 1]
        /\ UNCHANGED <<completed, at>>
    BY <1>3 DEF SkipsDependent, flagVars
  <2>2. Top \in Presents /\ Top \in Created /\ Top \in completed /\ at[Top] = "deps"
    BY <2>1, TopIs DEF At
  <2>3. iter'[Top] = iter[Top] - 1 /\ \A p \in Presents : p # Top => iter'[p] = iter[p]
    BY <2>1, <2>2 DEF IInv, TypeOK
  <2>4. PICK T \in Created : T = Top
    BY <2>2
  <2>5. Advances(T)
    BY <2>1, <2>2, <2>3, <2>4, DependentPassed
  <2>. QED BY <2>1, <2>3, <2>4, <2>5, CreatedArePresents DEF IInv, Moves
<1>4. CASE SkipsEarlier
  <2>1. /\ At("earlier") /\ iter[Top] \in 1 .. Top - 1
        /\ UNCHANGED <<created, completed, at>>
    BY <1>4 DEF SkipsEarlier, newVars
  <2>2. PICK n \in 0 .. created :
           /\ IsFirst(n, {r \in OrderedOf(Process(Top)) : r > iter[Top]})
           /\ iter' = [iter EXCEPT ![Top] = n]
    BY <1>4 DEF SkipsEarlier
  <2>3. Top \in Presents /\ Top \in Created /\ Top \in completed /\ at[Top] = "earlier"
    BY <2>1, TopIs DEF At
  <2>4. iter'[Top] = n /\ \A p \in Presents : p # Top => iter'[p] = iter[p]
    BY <2>2, <2>3 DEF IInv, TypeOK
  <2>5. iter[Top] # NoPresent
    BY <2>1 DEF NoPresent
  <2>6. PICK T \in Created : T = Top
    BY <2>3
  <2>7. Advances(T)
    BY <2>1, <2>2, <2>3, <2>4, <2>5, <2>6, EarlierPassed
  <2>. QED BY <2>1, <2>4, <2>6, <2>7, CreatedArePresents DEF IInv, Moves
<1>5. CASE DependentsCompleted
  <2>1. /\ At("deps") /\ UNCHANGED completed
        /\ \A p \in Presents : p # Top => at'[p] = at[p] /\ iter'[p] = iter[p]
        /\ at'[Top] \in {"earlier", "stop"}
    BY <1>5, TopIs DEF DependentsCompleted, At, flagVars, IInv, TypeOK
  <2>2. Top \in Created /\ Top \in completed /\ at[Top] = "deps"
    BY <2>1, TopIs DEF At
  <2>3. PICK T \in Created : T = Top
    BY <2>2
  <2>4. Stage(T) = 1 /\ Stage(T)' \in {2, 3}
    BY <2>1, <2>2, <2>3, StageIs, StageBecomes
  <2>5. Stage(T)' > Stage(T)
    BY <2>4
  <2>6. Advances(T)
    BY <2>5 DEF Advances
  <2>. QED BY <2>1, <2>3, <2>6, CreatedArePresents DEF IInv, Moves
<1>6. CASE EarlierCompleted
  <2>1. /\ At("earlier") /\ UNCHANGED completed
        /\ \A p \in Presents : p # Top => at'[p] = at[p] /\ iter'[p] = iter[p]
        /\ at'[Top] \in {"stop"}
    BY <1>6, TopIs DEF EarlierCompleted, At, flagVars, IInv, TypeOK
  <2>2. Top \in Created /\ Top \in completed /\ at[Top] = "earlier"
    BY <2>1, TopIs DEF At
  <2>3. PICK T \in Created : T = Top
    BY <2>2
  <2>4. Stage(T) = 2 /\ Stage(T)' \in {3}
    BY <2>1, <2>2, <2>3, StageIs, StageBecomes
  <2>5. Stage(T)' > Stage(T)
    BY <2>4
  <2>6. Advances(T)
    BY <2>5 DEF Advances
  <2>. QED BY <2>1, <2>3, <2>6, CreatedArePresents DEF IInv, Moves
<1>7. CASE StopTracking
  <2>1. /\ At("stop") /\ UNCHANGED completed
        /\ \A p \in Presents : p # Top => at'[p] = at[p] /\ iter'[p] = iter[p]
        /\ at'[Top] \in {"store"}
    BY <1>7, TopIs DEF StopTracking, At, flagVars, IInv, TypeOK
  <2>2. Top \in Created /\ Top \in completed /\ at[Top] = "stop"
    BY <2>1, TopIs DEF At
  <2>3. PICK T \in Created : T = Top
    BY <2>2
  <2>4. Stage(T) = 3 /\ Stage(T)' \in {4}
    BY <2>1, <2>2, <2>3, StageIs, StageBecomes
  <2>5. Stage(T)' > Stage(T)
    BY <2>4
  <2>6. Advances(T)
    BY <2>5 DEF Advances
  <2>. QED BY <2>1, <2>3, <2>6, CreatedArePresents DEF IInv, Moves
<1>8. CASE StoreCompleted
  <2>1. /\ At("store") /\ UNCHANGED completed
        /\ \A p \in Presents : p # Top => at'[p] = at[p] /\ iter'[p] = iter[p]
        /\ at'[Top] \in {"none"}
    BY <1>8, StoreCompletedIs DEF At, StoreCompleted, IInv, TypeOK
  <2>2. Top \in Created /\ Top \in completed /\ at[Top] = "store"
    BY <2>1, TopIs DEF At
  <2>3. PICK T \in Created : T = Top
    BY <2>2
  <2>4. Stage(T) = 4 /\ Stage(T)' \in {5}
    BY <2>1, <2>2, <2>3, StageIs, StageBecomes
  <2>5. Stage(T)' > Stage(T)
    BY <2>4
  <2>6. Advances(T)
    BY <2>5 DEF Advances
  <2>. QED BY <2>1, <2>3, <2>6, CreatedArePresents DEF IInv, Moves
<1>. QED BY <1>1, <1>2, <1>3, <1>4, <1>5, <1>6, <1>7, <1>8 DEF Step, LosesCompleted,
     BeginsDiscarding, EvictsNothing, DiscardEnds, PlaceTracked, EmplaceOnThread, TrackPresent,
     SubmitOnDriverThread, LeaveThread, PresentStopSettles, PresentStopLeaves, EventDisplays,
     WaitForDwm, AttachDependents, EndFlipFrameTypes, DequeuePresentEvents, callVars, vars

LEMMA CompletedGrows == IInv /\ Step => completed \subseteq completed'
<1>. SUFFICES ASSUME IInv, Step PROVE completed \subseteq completed'
  OBVIOUS
<1>1. ASSUME NEW p \in Presents, Begins(p) PROVE completed \subseteq completed'
  BY <1>1, BeginsIs DEF Marked
<1>2. CASE UNCHANGED completed
  BY <1>2
<1>. QED BY <1>1, <1>2 DEF Step, LosesCompleted, BeginsDiscarding, SkipsDependent, SkipsEarlier,
     EvictsNothing, DiscardEnds, DependentsCompleted, EarlierCompleted, StopTracking,
     StoreCompleted, PlaceTracked, EmplaceOnThread, TrackPresent, SubmitOnDriverThread,
     LeaveThread, PresentStopSettles, PresentStopLeaves, EventDisplays, WaitForDwm,
     AttachDependents, EndFlipFrameTypes, DequeuePresentEvents, flagVars, vars

\* Nothing is ready that was handed over already.
LEMMA NothingTaken ==
    ASSUME IInv, DequeuePresentEvents, handed' = handed
    PROVE  UNCHANGED vars
<1>1. /\ RingOK(ring, Numbers) /\ Distinct(ring) /\ Entries(ring) \cap handed = {}
      /\ ring' = TakeReady(ring)
      /\ {Entry(ring, i) : i \in 0 .. ring.ready - 1} \subseteq handed
  BY DEF IInv, Kept, DequeuePresentEvents
<1>2. NoPresent \in Numbers
  BY BoundIsNat DEF Numbers, NoPresent
<1>3. {Entry(ring, i) : i \in 0 .. ring.ready - 1} \subseteq Entries(ring)
  BY <1>1, <1>2, TakeEntries
<1>4. /\ ring \in RingType(Numbers) /\ ring.ready \in Nat /\ ring.index \in 0 .. RingSize - 1
      /\ ring.count \in Nat
  BY <1>1 DEF RingOK, RingType
<1>5. ring.ready = 0
  <2>1. ASSUME ring.ready # 0 PROVE FALSE
    <3>1. 0 \in 0 .. ring.ready - 1
      BY <1>4, <2>1
    <3>2. Entry(ring, 0) \in Entries(ring) /\ Entry(ring, 0) \in handed
      BY <1>1, <1>3, <3>1
    <3>. QED BY <1>1, <3>2
  <2>. QED BY <2>1
<1>6. ring' = ring
  <2>1. \A i : i \notin 0 .. ring.ready - 1
    BY <1>5
  <2>2. GetRingIndex(ring.index + ring.ready) = ring.index
    BY <1>4, <1>5, RingSizeAssumption DEF GetRingIndex
  <2>3. ring.count - ring.ready = ring.count
    BY <1>4, <1>5
  <2>4. ring' = [slots |-> [j \in 0 .. RingSize - 1 |-> ring.slots[j]], index |-> ring.index,
                 count |-> ring.count, ready |-> 0]
    BY <1>1, <2>1, <2>2, <2>3 DEF TakeReady
  <2>. QED BY <1>4, <1>5, <2>4 DEF RingType
<1>. QED BY <1>6 DEF DequeuePresentEvents, vars, outVars

\* Every step of the thread of the events, while a completion is under way, is one of
\* a completion.
LEMMA SomethingMoves ==
    ASSUME IInv, Step, stack # <<>>, handed' = handed
    PROVE  \/ UNCHANGED vars
           \/ hasCompleted' /\ ~hasCompleted
           \/ \E p \in Created : Moves(p)
<1>1. \/ \E p \in Presents : Begins(p)
      \/ SkipsDependent \/ SkipsEarlier \/ DiscardEnds
      \/ DependentsCompleted \/ EarlierCompleted \/ StopTracking \/ StoreCompleted
      \/ DequeuePresentEvents \/ UNCHANGED vars
  <2>. HIDE DEF IInv
  <2>. QED BY DEF Step, LosesCompleted, BeginsDiscarding, EvictsNothing, PlaceTracked,
              EmplaceOnThread, TrackPresent, SubmitOnDriverThread, LeaveThread,
              PresentStopSettles, PresentStopLeaves, EventDisplays, WaitForDwm,
              AttachDependents, EndFlipFrameTypes, Idle
<1>2. Top # Discarding => Top \in Created /\ Top \in Presents
  BY TopIs
<1>3. ASSUME NEW p \in Presents, Begins(p) PROVE \E q \in Created : Moves(q)
  <2>1. p \in Created /\ at[p] = "none" /\ \E it : Marked(p, it)
    BY <1>3, BeginsIs
  <2>2. at' = [at EXCEPT ![p] = "deps"] /\ at \in [Presents -> {"none", "deps", "earlier", "stop", "store"}]
    BY <2>1 DEF Marked, IInv, TypeOK
  <2>3. at'[p] = "deps"
    BY <2>2
  <2>. QED BY <2>1, <2>3 DEF Moves
<1>4. ASSUME SkipsDependent PROVE Moves(Top) /\ Top # Discarding
  <2>1. /\ At("deps") /\ iter[Top] > 0 /\ iter' = [iter EXCEPT ![Top] = iter[Top] - 1]
    BY <1>4 DEF SkipsDependent
  <2>2. Top \in Presents
    BY <1>2, <2>1 DEF At
  <2>3. iter'[Top] = iter[Top] - 1 /\ iter[Top] \in Nat
    BY <2>1, <2>2 DEF IInv, TypeOK
  <2>4. iter'[Top] # iter[Top]
    BY <2>3
  <2>. QED BY <2>1, <2>4 DEF Moves, At
<1>5. ASSUME SkipsEarlier PROVE Moves(Top) /\ Top # Discarding
  <2>1. At("earlier") /\ iter[Top] \in 1 .. Top - 1
    BY <1>5 DEF SkipsEarlier
  <2>2. PICK n \in 0 .. created :
           /\ IsFirst(n, {r \in OrderedOf(Process(Top)) : r > iter[Top]})
           /\ iter' = [iter EXCEPT ![Top] = n]
    BY <1>5 DEF SkipsEarlier
  <2>3. Top \in Presents /\ iter[Top] \in Nat
    BY <1>2, <2>1 DEF At, IInv, TypeOK
  <2>4. n = NoPresent \/ n > iter[Top]
    BY <2>2 DEF IsFirst
  <2>5. iter'[Top] = n
    BY <2>2, <2>3 DEF IInv, TypeOK
  <2>6. n # iter[Top]
    BY <2>1, <2>3, <2>4 DEF NoPresent
  <2>. QED BY <2>1, <2>5, <2>6 DEF Moves, At
<1>6. ASSUME DiscardEnds PROVE hasCompleted' /\ ~hasCompleted
  BY <1>6, TopIs DEF DiscardEnds
<1>7. ASSUME DependentsCompleted PROVE Moves(Top) /\ Top # Discarding
  <2>1. At("deps") /\ \/ at' = [at EXCEPT ![Top] = "earlier"]
                      \/ at' = [at EXCEPT ![Top] = "stop"]
    BY <1>7 DEF DependentsCompleted
  <2>2. /\ Top \in Presents /\ at[Top] = "deps"
        /\ at \in [Presents -> {"none", "deps", "earlier", "stop", "store"}]
    BY <1>2, <2>1 DEF At, IInv, TypeOK
  <2>3. at'[Top] # at[Top]
    BY <2>1, <2>2
  <2>. QED BY <2>1, <2>3 DEF Moves, At
<1>8. ASSUME EarlierCompleted \/ StopTracking \/ StoreCompleted PROVE Moves(Top) /\ Top # Discarding
  <2>1. \/ At("earlier") /\ at' = [at EXCEPT ![Top] = "stop"]
        \/ At("stop") /\ at' = [at EXCEPT ![Top] = "store"]
        \/ At("store") /\ at' = [at EXCEPT ![Top] = "none"]
    BY <1>8 DEF EarlierCompleted, StopTracking, StoreCompleted
  <2>2. Top \in Presents /\ at \in [Presents -> {"none", "deps", "earlier", "stop", "store"}]
    BY <1>2, <2>1 DEF At, IInv, TypeOK
  <2>3. at'[Top] # at[Top]
    BY <2>1, <2>2 DEF At
  <2>. QED BY <2>1, <2>3 DEF Moves, At
<1>9. ASSUME DequeuePresentEvents PROVE UNCHANGED vars
  BY <1>9, NothingTaken
<1>. QED BY <1>1, <1>2, <1>3, <1>4, <1>5, <1>6, <1>7, <1>8, <1>9

----
\* The invariant holds.

LEMMA CompletionInvInit == Init => IInv
<1>. SUFFICES ASSUME Init PROVE IInv
  OBVIOUS
<1>1. /\ created = 0 /\ Created = {} /\ Placed = {}
      /\ running = {} /\ lost = {} /\ completed = {} /\ waitStop = {} /\ waitType = {}
      /\ ordered = {} /\ handed = {} /\ dropped = {} /\ placing = "no" /\ next = 0
  BY DEF Init, Created, Placed
<1>2. /\ stack = <<>> /\ Len(stack) = 0 /\ stack \in Seq(0 .. MaxPresents)
      /\ \A i : i \notin 1 .. Len(stack)
  <2>1. stack = <<>>
    BY DEF Init
  <2>2. <<>> \in Seq(0 .. MaxPresents) /\ Len(<<>>) = 0
    BY EmptySeq
  <2>. QED BY <2>1, <2>2
<1>3. /\ ring.count = 0 /\ ring.ready = 0 /\ RingOK(ring, Numbers)
      /\ Entries(ring) = {} /\ Distinct(ring)
  <2>1. ring = EmptyRing
    BY DEF Init
  <2>2. NoPresent \in Numbers /\ 0 \in 0 .. RingSize - 1 /\ 0 \in 0 .. RingSize
    BY BoundIsNat, RingSizeAssumption DEF Numbers, NoPresent
  <2>3. ring.count = 0 /\ ring.ready = 0
    BY <2>1 DEF EmptyRing
  <2>4. RingOK(ring, Numbers)
    BY <2>1, <2>2 DEF EmptyRing, RingOK, RingType
  <2>5. \A i : i \notin 0 .. 0 - 1
    OBVIOUS
  <2>. QED BY <2>3, <2>4, <2>5 DEF Entries, Distinct
<1>4. \A p \in Presents : /\ tid[p] = None /\ driver[p] = None /\ at[p] = "none"
                          /\ deps[p] = <<>> /\ index[p] = None
  BY DEF Init
<1>5. \A i : i \notin 1 .. Len(<<>>)
  BY <1>2, Zenon DEF Init
<1>6. TypeOK
  <2>1. /\ None \in 0 .. RingSize /\ NoPresent \in 0 .. MaxPresents /\ 0 \in 0 .. RingSize - 1
        /\ 0 \in 0 .. MaxPresents
    BY BoundIsNat, RingSizeAssumption DEF None, NoPresent
  <2>2. <<>> \in Seq(Presents)
    BY EmptySeq
  <2>3. ScalarTypes
    BY <1>1, <2>1 DEF Init, ScalarTypes
  <2>4. PresentTypes
    BY <2>2 DEF Init, PresentTypes, Finals
  <2>5. SetTypes
    BY <1>1 DEF SetTypes
  <2>6. TableTypes
    BY <2>1 DEF Init, TableTypes
  <2>7. CallTypes
    BY <1>2 DEF Init, CallTypes
  <2>8. ring \in RingType(0 .. MaxPresents)
    BY <1>3 DEF RingOK, Numbers
  <2>9. DwmTypes
    BY <1>1, <2>2 DEF Init, DwmTypes
  <2>. QED BY <2>3, <2>4, <2>5, <2>6, <2>7, <2>8, <2>9, TypesAre, Zenon
<1>7. Tables
  BY <1>1, <1>4 DEF Init, Tables
<1>8. Stacked
  <2>1. \A i : i \notin 1 .. Len(stack) - 1
    BY <1>2
  <2>. QED BY <1>1, <1>2, <1>4, <2>1 DEF Stacked
<1>9. Iterating
  BY <1>4, <1>5 DEF Iterating
<1>10. Fresh
  BY <1>1, <1>4 DEF Fresh
<1>11. Waiting
  BY <1>1 DEF Waiting
<1>12. OnThreads
  <2>1. \A t \in Threads : byThread[t] = NoPresent
    BY DEF Init
  <2>. QED BY <1>1, <1>4, <2>1 DEF OnThreads, Leads, Vacated
<1>13. InOrder
  BY <1>2, <1>4 DEF InOrder, Ahead
<1>14. Kept
  BY <1>1, <1>3 DEF Kept
<1>15. Listed
  <2>1. waitingForDWM = <<>> /\ inDwm = {}
    BY DEF Init
  <2>. QED BY <1>5, <2>1 DEF Listed
<1>. QED BY <1>6, <1>7, <1>8, <1>9, <1>10, <1>11, <1>12, <1>13, <1>14, <1>15 DEF IInv

LEMMA CompletionInvNext == IInv /\ [Next]_vars => IInv'
<1>. SUFFICES ASSUME IInv, [Next]_vars PROVE IInv'
  OBVIOUS
<1>1. Step
  BY NextIsStep
<1>. QED BY <1>1, TypeOKNext, TablesNext, StackedNext, ListedNext, IteratingNext, FreshNext, WaitingNext,
            OnThreadsNext, InOrderNext, KeptNext DEF IInv

\* The invariant of the completion of presents: what the frames of CompletePresent
\* that are under way, the tables, the threads and the ring say of each other.
THEOREM CompletionInvariant == Spec => []IInv
BY CompletionInvInit, CompletionInvNext, PTL DEF Spec

\* Type correctness of the state that CompletePresent and TrackPresent work on.
THEOREM TypeCorrect == Spec => []TypeOK
<1>1. IInv => TypeOK
  BY DEF IInv
<1>. QED BY <1>1, CompletionInvariant, PTL

LEMMA TrackedIs == IInv => TrackedUntilCompleted
<1>. SUFFICES ASSUME IInv, NEW p \in Placed
              PROVE  /\ p \in ordered <=> p \notin completed \/ Early(p)
                     /\ p \in ordered <=> \E i \in 0 .. RingSize - 1 : tracked[i] = p
  BY DEF TrackedUntilCompleted, Early
<1>1. p \in Presents /\ p # NoPresent
  BY CreatedArePresents DEF IInv, Placed, NoPresent
<1>2. ASSUME p \in ordered PROVE \E i \in 0 .. RingSize - 1 : tracked[i] = p
  <2>1. index[p] # None /\ tracked[index[p] - 1] = p
    BY <1>2 DEF IInv, Tables
  <2>2. index[p] \in 0 .. RingSize
    BY <1>1 DEF IInv, TypeOK
  <2>3. index[p] - 1 \in 0 .. RingSize - 1
    BY <2>1, <2>2, RingSizeAssumption DEF None
  <2>. QED BY <2>1, <2>3
<1>3. ASSUME NEW i \in 0 .. RingSize - 1, tracked[i] = p PROVE p \in ordered
  BY <1>1, <1>3 DEF IInv, Tables
<1>4. p \in ordered <=> p \notin completed \/ Early(p)
  BY <1>1 DEF IInv, Tables
<1>. QED BY <1>2, <1>3, <1>4

LEMMA OnceIs == IInv => CompletedOnce
<1>. SUFFICES ASSUME IInv PROVE CompletedOnce
  OBVIOUS
<1>1. Stored = Entries(ring)
  BY DEF Stored, Entries
<1>2. /\ Distinct(ring) /\ Entries(ring) \subseteq Presents
      /\ Entries(ring) \cap handed = {} /\ Entries(ring) \cap dropped = {} /\ handed \cap dropped = {}
      /\ \A p \in Presents : p \in completed /\ at[p] = "none" <=>
                               p \in Entries(ring) \/ p \in handed \/ p \in dropped
  BY DEF IInv, Kept
<1>3. \A p \in completed : p \in OnStack <=> at[p] # "none"
  <2>. SUFFICES ASSUME NEW p \in completed PROVE p \in OnStack <=> at[p] # "none"
    OBVIOUS
  <2>1. p \in Presents /\ p # Discarding
    BY CreatedArePresents DEF IInv, TypeOK, Discarding
  <2>2. p \in OnStack <=> \E i \in 1 .. Len(stack) : stack[i] = p
    BY StackIs DEF OnStack, IInv
  <2>. QED BY <2>1, <2>2 DEF IInv, Stacked
<1>4. completed \subseteq Presents /\ handed \subseteq Presents /\ dropped \subseteq Presents
  BY CreatedArePresents DEF IInv, TypeOK
<1>5. Stored \cup handed \cup dropped = completed \ OnStack
  BY <1>1, <1>2, <1>3, <1>4
<1>. QED BY <1>1, <1>2, <1>5 DEF CompletedOnce, Distinct

\* A present is in the tables until its completion takes it off, and then in the
\* ring, handed over or dropped, whatever is completed, lost or dequeued meanwhile.
THEOREM PresentsAreInOnePlace == Spec => []InOnePlace
<1>1. IInv => InOnePlace
  BY TrackedIs, OnceIs DEF InOnePlace
<1>. QED BY <1>1, CompletionInvariant, PTL

\* The recursion over the earlier presents completes all of them before a displayed
\* present of their swap chain is stored.
THEOREM PresentsAreDisplayedInOrder == Spec => []DisplayedInOrder
<1>1. IInv => DisplayedInOrder
  <2>. SUFFICES ASSUME IInv, At("store"), final[Top] = "Presented",
                       NEW q \in Created, q < Top, SameChain(q, Top)
                PROVE  q \in completed /\ q \notin OnStack
    BY DEF DisplayedInOrder, SameChain
  <2>1. /\ stack # <<>> /\ Top # Discarding /\ at[Top] = "store"
        /\ Top \in Presents /\ Top \in Nat /\ q \in Nat /\ q # Discarding
    BY TopIs, CreatedArePresents DEF At, IInv, Discarding
  <2>2. Passed(Top)
    BY <2>1 DEF IInv, InOrder
  <2>3. ASSUME NEW i \in 1 .. Len(stack), stack[i] = q PROVE FALSE
    <3>1. i # Len(stack)
      BY <2>1, <2>3 DEF Top
    <3>2. Nests(i, Len(stack)) /\ stack[Len(stack)] = Top
      BY <2>1, <2>3, <3>1, TopFrame
    <3>. QED BY <2>1, <2>3, <3>2 DEF Nests, Alike, SameChain
  <2>. QED BY <2>2, <2>3, StackIs DEF Passed, OnStack, IInv
<1>. QED BY <1>1, CompletionInvariant, PTL

LEMMA DepthIs ==
    ASSUME IInv, Len(stack) >= 5
    PROVE  FALSE
<1>. DEFINE Dwm(i) == Process(stack[i]) = DwmProcess
<1>1. /\ 1 \in 1 .. Len(stack) /\ 2 \in 1 .. Len(stack) /\ 3 \in 1 .. Len(stack)
      /\ 4 \in 1 .. Len(stack) /\ 5 \in 1 .. Len(stack)
  <2>1. Len(stack) \in Nat
    BY StackIs DEF IInv
  <2>. QED BY <2>1
<1>2. \A i \in {2, 3, 4, 5} : stack[i] # Discarding
  BY <1>1 DEF IInv, Stacked
<1>3. \A i, j \in {2, 3, 4, 5} : i < j => Below(i, j)
  BY <1>2 DEF Below
<1>4. \A i, j \in {2, 3, 4, 5} : i < j => Alike(i, j) \/ (Dwm(i) /\ ~Dwm(j))
  BY <1>1, <1>3 DEF IInv, InOrder, Nests
<1>5. ~(Alike(3, 4) /\ Alike(4, 5))
  <2>1. Below(3, 4) /\ 4 < 5
    BY <1>3
  <2>. QED BY <1>1, <2>1 DEF IInv, InOrder
<1>6. Dwm(3)
  <2>1. ASSUME ~Dwm(3) PROVE Alike(3, 4) /\ ~Dwm(4)
    BY <1>4, <2>1 DEF Alike
  <2>2. ASSUME ~Dwm(3) PROVE Alike(4, 5)
    BY <1>4, <2>1, <2>2
  <2>. QED BY <1>5, <2>1, <2>2
<1>7. Dwm(2) /\ Alike(2, 3)
  <2>1. Dwm(2)
    BY <1>4, <1>6 DEF Alike
  <2>. QED BY <1>6, <2>1 DEF Alike
<1>8. CASE stack[1] = Discarding
  <2>1. Ends(2, 3)
    <3>1. Below(2, 3)
      BY <1>3
    <3>. QED BY <1>1, <1>7, <3>1 DEF IInv, InOrder
  <2>. QED BY <1>8, <2>1 DEF Ends
<1>9. CASE stack[1] # Discarding
  <2>1. Below(1, 2)
    BY <1>9 DEF Below
  <2>2. Nests(1, 2)
    BY <1>1, <2>1 DEF IInv, InOrder
  <2>3. Alike(1, 2)
    BY <1>7, <2>2 DEF Nests
  <2>. QED BY <1>1, <1>7, <2>1, <2>3 DEF IInv, InOrder
<1>. QED BY <1>8, <1>9

\* The calls of CompletePresent within one another are nested as the comment there
\* wants, end at depth four, and erase no element on which a loop below stands.
THEOREM RecursionIsSafe == Spec => []RecursionSafe
<1>1. IInv => RecursionSafe
  <2>. SUFFICES ASSUME IInv PROVE RecursionSafe
    OBVIOUS
  <2>1. RecursionBounded
    <3>1. Len(stack) \in Nat /\ DOMAIN stack = 1 .. Len(stack)
      BY StackIs DEF IInv
    <3>2. Len(stack) <= 4
      BY <3>1, DepthIs
    <3>3. \A i, j \in DOMAIN stack : i < j /\ stack[i] # Discarding => Nests(i, j)
      BY <3>1 DEF IInv, InOrder, Below
    <3>. QED BY <3>2, <3>3 DEF RecursionBounded, Nests, Alike
  <2>2. IteratorsValid
    BY CreatedArePresents DEF IInv, Iterating, IteratorsValid
  <2>. QED BY <2>1, <2>2 DEF RecursionSafe
<1>. QED BY <1>1, CompletionInvariant, PTL

\* No thread leads to a present that is done, and Present_Stop finds what waits for
\* it.
THEOREM ThreadsLeadToPresents == Spec => []ThreadsLead
<1>1. IInv => ThreadsLead
  <2>. SUFFICES ASSUME IInv PROVE LookupsEnd /\ StopFindsWaiting
    BY DEF ThreadsLead
  <2>1. LookupsEnd
    BY DEF IInv, OnThreads, Leads, Early, LookupsEnd
  <2>2. StopFindsWaiting
    BY DEF IInv, OnThreads, StopFindsWaiting
  <2>. QED BY <2>1, <2>2
<1>. QED BY <1>1, CompletionInvariant, PTL

\* When the first completion ends, every present until then is completed and lost.
THEOREM FirstCompletionDiscardsAll == Spec => FirstCompletionDiscards
<1>1. IInv /\ [Next]_vars => [hasCompleted' /\ ~hasCompleted => Created \subseteq completed \cap lost]_vars
  <2>. SUFFICES ASSUME IInv, [Next]_vars, hasCompleted', ~hasCompleted
                PROVE  Created \subseteq completed \cap lost
    OBVIOUS
  <2>1. Step
    BY NextIsStep
  <2>. HIDE DEF IInv
  <2>2. DiscardEnds
    BY <2>1, Zenon DEF Step, Begins, LosesCompleted, BeginsDiscarding, SkipsDependent, SkipsEarlier,
          EvictsNothing, DependentsCompleted, EarlierCompleted, StopTracking, StoreCompleted,
          PlaceTracked, EmplaceOnThread, TrackPresent, SubmitOnDriverThread, LeaveThread,
          PresentStopSettles, PresentStopLeaves, EventDisplays, WaitForDwm, AttachDependents,
          EndFlipFrameTypes, DequeuePresentEvents, vars
  <2>3. stack # <<>> /\ Top = Discarding /\ ordered = {}
    BY <2>2 DEF DiscardEnds
  <2>4. Len(stack) = 1 /\ stack[1] = Discarding /\ placing = "no"
    BY <2>3, TopIs DEF Top
  <2>5. \A p \in Presents : at[p] = "none"
    BY <2>4, CreatedArePresents DEF IInv, Stacked, Discarding
  <2>6. \A p \in Created : p \in Presents /\ p \in Placed
    BY <2>4, CreatedArePresents, PlacedIs DEF IInv
  <2>7. \A p \in Created : p \in completed
    BY <2>3, <2>5, <2>6 DEF IInv, Tables, Early
  <2>8. completed \subseteq lost
    BY DEF IInv, Fresh
  <2>. QED BY <2>7, <2>8
<1>. QED BY <1>1, CompletionInvariant, PTL DEF Spec, FirstCompletionDiscards

\* The flag of a present that waits for DWM and the list of them agree, so that one
\* that completes before DWM presents leaves the list.
THEOREM PresentsWaitForDwm == Spec => []WaitsForDwm
<1>1. IInv => WaitsForDwm
  <2>. SUFFICES ASSUME IInv PROVE WaitsForDwm
    OBVIOUS
  <2>1. DOMAIN waitingForDWM = 1 .. Len(waitingForDWM)
    BY DEF IInv, TypeOK
  <2>2. Listed
    BY DEF IInv
  <2>. HIDE DEF IInv
  <2>3. inDwm \subseteq MembersOf(waitingForDWM)
    BY <2>1, <2>2 DEF Listed, MembersOf
  <2>4. MembersOf(waitingForDWM) \ inDwm \subseteq Surfaces \ ordered
    BY <2>1, <2>2 DEF Listed, MembersOf
  <2>. QED BY <2>3, <2>4 DEF WaitsForDwm
<1>. QED BY <1>1, CompletionInvariant, PTL

\* The calls that a call of CompletePresent entails come to their end: each step is
\* one forward for those that it changes, and there is one that it changes.
THEOREM CompletionsAdvance == Spec => CompletionAdvances
<1>. DEFINE Forward ==
              /\ completed \subseteq completed'
              /\ \A p \in Created : Moves(p) => Advances(p)
              /\ stack # <<>> /\ handed' = handed =>
                   (hasCompleted' /\ ~hasCompleted) \/ \E p \in Created : Moves(p)
<1>1. IInv /\ [Next]_vars => [Forward]_vars
  <2>. SUFFICES ASSUME IInv, [Next]_vars PROVE Forward \/ UNCHANGED vars
    OBVIOUS
  <2>1. Step
    BY NextIsStep
  <2>2. completed \subseteq completed'
    BY <2>1, CompletedGrows
  <2>3. \A p \in Created : Moves(p) => Advances(p)
    BY <2>1, AdvancesNext
  <2>4. stack # <<>> /\ handed' = handed =>
          UNCHANGED vars \/ (hasCompleted' /\ ~hasCompleted) \/ \E p \in Created : Moves(p)
    BY <2>1, SomethingMoves
  <2>. QED BY <2>2, <2>3, <2>4, Zenon
<1>. QED BY <1>1, CompletionInvariant, PTL DEF Spec, CompletionAdvances
====
