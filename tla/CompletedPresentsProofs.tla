---- MODULE CompletedPresentsProofs ----
(***************************************************************************)
(* Proofs about the ring of completed presents, for every ring size, number*)
(* of presents, set of start times and kinds of deferral.                  *)
(*                                                                         *)
(* HandOverInv says where every completed present is.  Each operation of   *)
(* the ring is described once by a lemma that gives the entries it leaves; *)
(* the steps of the two threads then preserve the invariant by those.      *)
(***************************************************************************)
EXTENDS CompletedPresents, PresentRingProofs

Numbers == 0 .. MaxPresents

LEMMA NothingIsNumber == NoPresent \in Numbers
BY CompletedAssumption DEF NoPresent, Numbers

----
\* The invariant.

Clear(r, w) == \A i \in 0 .. r.ready - 1 : w[Entry(r, i)] = {}

\* The ready count stops only at a deferred present.
Stuck(r, w) == r.ready = r.count \/ w[Entry(r, r.ready)] # {}

Sorted(r, low, high) ==
    \A i \in 0 .. r.count - 1 :
        /\ low < Entry(r, i)
        /\ Entry(r, i) <= high
        /\ \A j \in 0 .. i - 1 : Entry(r, j) < Entry(r, i)

WaitsType == [Presents -> SUBSET Deferrals]

\* The presents of the ring, then the blocked one, were completed in this order
\* after the last one handed over.
OrderInv ==
    /\ Sorted(ring, last, completed)
    /\ last <= completed
    /\ blocked # NoPresent =>
         /\ last < blocked
         /\ blocked <= completed
         /\ \A i \in 0 .. ring.count - 1 : Entry(ring, i) < blocked

HandOverInv == TypeOK /\ OrderInv /\ ReadySettled /\ Accounted

LEMMA DomainOfWaits == ASSUME NEW w \in WaitsType PROVE DOMAIN w = Presents
BY DEF WaitsType

\* What the part of CompletePresent under the mutex leaves behind.
LEMMA SettleIs ==
    ASSUME NEW r, RingOK(r, Numbers), NEW w \in WaitsType, NEW l \in SUBSET Presents,
           NEW st, NEW p,
           \A i \in 0 .. r.count - 1 : Entry(r, i) \in Presents,
           Clear(r, w)
    PROVE  LET s == Settle(r, w, l, st, p)
           IN /\ RingOK(s.ring, Numbers)
              /\ s.ring.count = r.count
              /\ \A i : Entry(s.ring, i) = Entry(r, i)
              /\ s.waits \in WaitsType
              /\ s.lost \in SUBSET Presents
              /\ Clear(s.ring, s.waits)
              /\ Stuck(s.ring, s.waits)
              /\ "frame" \notin Deferrals => ~Stale(s.ring, st, p)
<1>. DEFINE r1 == UpdateReadyCount(r, Deferred(w))
            head == Entry(r1, 0)
            w1 == [w EXCEPT ![head] = w[head] \ {"stop", "flip"}]
            r2 == UpdateReadyCount(r1, Deferred(w1))
            s == Settle(r, w, l, st, p)
<1>1. /\ RingOK(r1, Numbers) /\ r1.count = r.count /\ r1.ready \in r.ready .. r.count
      /\ \A i \in r.ready .. r1.ready - 1 : Entry(r, i) \notin Deferred(w)
      /\ r1.ready = r.count \/ Entry(r, r1.ready) \in Deferred(w)
      /\ \A i : Entry(r1, i) = Entry(r, i)
  BY ReadyCountIs
<1>. HIDE DEF r1
<1>2. r.ready \in Nat /\ r.count \in Nat /\ r1.ready \in Nat /\ r1.ready <= r1.count
  BY <1>1, RingSizeAssumption DEF RingOK, RingType
<1>3. CASE ~Stale(r1, st, p)
  <2>1. s = [ring |-> r1, waits |-> w, lost |-> l]
    BY <1>3 DEF Settle, r1
  <2>2. Clear(r1, w)
    <3>. SUFFICES ASSUME NEW i \in 0 .. r1.ready - 1 PROVE w[Entry(r1, i)] = {}
      BY DEF Clear
    <3>1. Entry(r1, i) = Entry(r, i) /\ Entry(r, i) \in Presents
      BY <1>1, <1>2
    <3>2. i \in 0 .. r.ready - 1 \/ i \in r.ready .. r1.ready - 1
      BY <1>2
    <3>. QED BY <1>1, <3>1, <3>2, DomainOfWaits DEF Clear, Deferred
  <2>3. Stuck(r1, w)
    BY <1>1 DEF Stuck, Deferred
  <2>. QED BY <1>1, <1>3, <2>1, <2>2, <2>3
<1>4. CASE Stale(r1, st, p)
  <2>1. /\ s.ring = r2 /\ s.waits = w1
        /\ s.lost = IF "stop" \in w[head] THEN l \cup {head} ELSE l
    BY <1>4 DEF Settle, r1
  <2>2. r1.ready = 0 /\ r1.count > 0
    BY <1>4 DEF Stale
  <2>3. head \in Presents
    BY <1>1, <1>2, <2>2
  <2>4. w1 \in WaitsType /\ w1[head] = w[head] \ {"stop", "flip"}
    BY <2>3 DEF WaitsType
  <2>. HIDE DEF w1
  <2>5. /\ RingOK(r2, Numbers) /\ r2.count = r1.count /\ r2.ready \in r1.ready .. r1.count
        /\ \A i \in r1.ready .. r2.ready - 1 : Entry(r1, i) \notin Deferred(w1)
        /\ r2.ready = r1.count \/ Entry(r1, r2.ready) \in Deferred(w1)
        /\ \A i : Entry(r2, i) = Entry(r1, i)
    BY <1>1, ReadyCountIs DEF r2
  <2>. HIDE DEF r2
  <2>6. Clear(r2, w1)
    <3>. SUFFICES ASSUME NEW i \in 0 .. r2.ready - 1 PROVE w1[Entry(r2, i)] = {}
      BY DEF Clear
    <3>1. i \in r1.ready .. r2.ready - 1 /\ i \in 0 .. r.count - 1
      BY <1>1, <1>2, <2>2, <2>5
    <3>2. Entry(r2, i) = Entry(r1, i) /\ Entry(r1, i) \in Presents
      BY <1>1, <2>5, <3>1
    <3>. QED BY <2>4, <2>5, <3>1, <3>2, DomainOfWaits DEF Deferred
  <2>7. Stuck(r2, w1)
    BY <1>1, <2>5 DEF Stuck, Deferred
  <2>8. "frame" \notin Deferrals => ~Stale(r2, st, p)
    <3>. SUFFICES ASSUME "frame" \notin Deferrals PROVE ~Stale(r2, st, p)
      OBVIOUS
    <3>1. w[head] \subseteq {"stop", "flip"}
      BY <2>3, CompletedAssumption DEF WaitsType, DeferralKinds
    <3>2. w1[head] = {}
      BY <2>4, <3>1
    <3>3. r2.ready # 0
      <4>1. head \notin Deferred(w1)
        BY <3>2 DEF Deferred
      <4>2. r1.ready = 0 => Entry(r1, r1.ready) = head
        OBVIOUS
      <4>3. r1.count # 0 /\ r1.ready = 0
        BY <1>2, <2>2
      <4>. HIDE DEF head
      <4>. QED BY <2>5, <4>1, <4>2, <4>3
    <3>. QED BY <3>3 DEF Stale
  <2>9. s.lost \in SUBSET Presents
    BY <2>1, <2>3
  <2>. QED BY <1>1, <2>1, <2>4, <2>5, <2>6, <2>7, <2>8, <2>9
<1>. QED BY <1>3, <1>4

----
LEMMA HandOverInvInit == Init => HandOverInv
<1>. SUFFICES ASSUME Init PROVE HandOverInv
  OBVIOUS
<1>1. ring = EmptyRing /\ ring.count = 0 /\ ring.ready = 0 /\ ring.index = 0
  BY DEF Init, EmptyRing
<1>2. TypeOK
  <2>1. (CHOOSE t \in Times : TRUE) \in Times /\ (CHOOSE x \in Processes : TRUE) \in Processes
    BY CompletedAssumption
  <2>2. ring \in [slots : [0 .. RingSize - 1 -> 0 .. MaxPresents],
                 index : 0 .. RingSize - 1, count : 0 .. RingSize, ready : 0 .. RingSize]
    BY RingSizeAssumption, CompletedAssumption DEF Init, EmptyRing, NoPresent
  <2>. QED BY <1>1, <2>1, <2>2, CompletedAssumption DEF Init, TypeOK, NoPresent
<1>3. OrderInv /\ ReadySettled
  BY <1>1 DEF Init, OrderInv, Sorted, ReadySettled, NoPresent
<1>4. Accounted
  BY <1>1 DEF Init, Accounted, Held
<1>. QED BY <1>2, <1>3, <1>4 DEF HandOverInv

\* The facts about the state that the steps share.
LEMMA HandOverFacts ==
    ASSUME HandOverInv
    PROVE  /\ RingOK(ring, Numbers)
           /\ ring.count \in Nat /\ ring.ready \in Nat /\ ring.ready <= ring.count
           /\ ring.count <= RingSize
           /\ completed \in Nat /\ last \in Nat /\ handed \in Nat
           /\ overflowed \in Nat /\ refused \in Nat
           /\ waits \in WaitsType
           /\ Clear(ring, waits)
           /\ \A i \in 0 .. ring.count - 1 :
                Entry(ring, i) \in Presents /\ Entry(ring, i) <= completed
<1>1. RingOK(ring, Numbers) /\ waits \in WaitsType
  BY DEF HandOverInv, TypeOK, RingOK, RingType, WaitsType, Numbers
<1>2. /\ ring.count \in Nat /\ ring.ready \in Nat /\ ring.ready <= ring.count
      /\ ring.count <= RingSize
  BY <1>1, RingSizeAssumption DEF RingOK, RingType
<1>3. /\ completed \in Nat /\ last \in Nat /\ handed \in Nat
      /\ overflowed \in Nat /\ refused \in Nat
  BY CompletedAssumption DEF HandOverInv, TypeOK
<1>4. Clear(ring, waits)
  BY DEF HandOverInv, ReadySettled, Clear
<1>5. ASSUME NEW i \in 0 .. ring.count - 1
      PROVE  Entry(ring, i) \in Presents /\ Entry(ring, i) <= completed
  <2>1. i \in 0 .. RingSize - 1
    BY <1>2, RingSizeAssumption
  <2>2. Entry(ring, i) \in 0 .. MaxPresents
    BY <1>1, <2>1, EntryIs DEF Numbers
  <2>3. last < Entry(ring, i) /\ Entry(ring, i) <= completed
    BY DEF HandOverInv, OrderInv, Sorted
  <2>. QED BY <1>3, <2>2, <2>3, CompletedAssumption DEF Presents
<1>. QED BY <1>1, <1>2, <1>3, <1>4, <1>5

\* A present that joins a ring of earlier ones.
LEMMA StoreKeepsOrder ==
    ASSUME HandOverInv,
           NEW p \in Presents, NEW w \in WaitsType, NEW l \in SUBSET Presents, NEW st,
           NEW n \in Nat, completed <= n, p <= n, last < p,
           \A i \in 0 .. ring.count - 1 : Entry(ring, i) < p,
           Clear(ring, w),
           NEW r, \/ ring.count < RingSize /\ r = AppendCompleted(ring, p)
                  \/ ring.count = RingSize /\ r = OverwriteOldest(ring, p)
    PROVE  LET s == Settle(r, w, l, st, p)
           IN /\ RingOK(s.ring, Numbers)
              /\ s.ring.count = r.count
              /\ r.count = IF ring.count < RingSize THEN ring.count + 1 ELSE ring.count
              /\ s.waits \in WaitsType
              /\ s.lost \in SUBSET Presents
              /\ Clear(s.ring, s.waits)
              /\ Stuck(s.ring, s.waits)
              /\ "frame" \notin Deferrals => ~Stale(s.ring, st, p)
              /\ Sorted(s.ring, last, n)
<1>1. /\ RingOK(ring, Numbers) /\ ring.count \in Nat /\ ring.ready \in Nat /\ ring.ready <= ring.count
      /\ ring.count <= RingSize /\ completed \in Nat /\ last \in Nat
      /\ \A i \in 0 .. ring.count - 1 :
                Entry(ring, i) \in Presents /\ Entry(ring, i) <= completed
  BY HandOverFacts
<1>2. p \in Numbers /\ p \in Nat
  BY CompletedAssumption DEF Presents, Numbers
<1>3. \A i \in 0 .. ring.count - 1 :
         /\ last < Entry(ring, i)
         /\ \A j \in 0 .. i - 1 : Entry(ring, j) < Entry(ring, i)
  BY DEF HandOverInv, OrderInv, Sorted
<1>4. /\ RingOK(r, Numbers)
      /\ r.count = IF ring.count < RingSize THEN ring.count + 1 ELSE ring.count
      /\ \A i \in 0 .. r.count - 1 : Entry(r, i) \in Presents
      /\ Clear(r, w)
      /\ Sorted(r, last, n)
  <2>1. CASE ring.count < RingSize /\ r = AppendCompleted(ring, p)
    <3>1. /\ RingOK(r, Numbers) /\ r.count = ring.count + 1 /\ r.ready = ring.ready
          /\ \A i \in 0 .. ring.count - 1 : Entry(r, i) = Entry(ring, i)
          /\ Entry(r, ring.count) = p
      BY <1>1, <1>2, <2>1, AppendIs
    <3>2. \A i \in 0 .. r.count - 1 : i = ring.count \/ i \in 0 .. ring.count - 1
      BY <1>1, <3>1
    <3>3. \A i \in 0 .. r.count - 1 : Entry(r, i) \in Presents
      BY <1>1, <3>1, <3>2
    <3>4. Clear(r, w)
      BY <1>1, <3>1 DEF Clear
    <3>5. Sorted(r, last, n)
      <4>. SUFFICES ASSUME NEW i \in 0 .. r.count - 1
                    PROVE  /\ last < Entry(r, i) /\ Entry(r, i) <= n
                           /\ \A j \in 0 .. i - 1 : Entry(r, j) < Entry(r, i)
        BY DEF Sorted
      <4>1. CASE i = ring.count
        BY <1>1, <1>2, <3>1, <4>1
      <4>2. CASE i \in 0 .. ring.count - 1
        <5>1. /\ Entry(r, i) = Entry(ring, i)
              /\ \A j \in 0 .. i - 1 : Entry(r, j) = Entry(ring, j)
          BY <1>1, <3>1, <4>2
        <5>2. Entry(ring, i) \in Nat /\ Entry(ring, i) <= n
          BY <1>1, <4>2 DEF Presents
        <5>. QED BY <1>3, <4>2, <5>1, <5>2
      <4>. QED BY <3>2, <4>1, <4>2
    <3>. QED BY <2>1, <3>1, <3>3, <3>4, <3>5
  <2>2. CASE ring.count = RingSize /\ r = OverwriteOldest(ring, p)
    <3>1. /\ RingOK(r, Numbers) /\ r.count = ring.count
          /\ r.ready = (IF ring.ready > 0 THEN ring.ready - 1 ELSE 0)
          /\ \A i \in 0 .. ring.count - 2 : Entry(r, i) = Entry(ring, i + 1)
          /\ Entry(r, ring.count - 1) = p
      <4>1. RingOK(ring, Numbers) /\ ring.count = RingSize
        BY <1>1, <2>2
      <4>2. LET t == OverwriteOldest(ring, p)
            IN /\ RingOK(t, Numbers) /\ t.count = ring.count
               /\ t.ready = IF ring.ready > 0 THEN ring.ready - 1 ELSE 0
               /\ \A i \in 0 .. ring.count - 2 : Entry(t, i) = Entry(ring, i + 1)
               /\ Entry(t, ring.count - 1) = p
        BY <1>2, <4>1, OverwriteIs, SMTT(30)
      <4>3. r = OverwriteOldest(ring, p)
        BY <2>2
      <4>. QED BY <4>2, <4>3
    <3>2. \A i \in 0 .. r.count - 1 :
            \/ i = ring.count - 1
            \/ i \in 0 .. ring.count - 2 /\ i + 1 \in 0 .. ring.count - 1
      BY <1>1, <3>1
    <3>3. \A i \in 0 .. r.count - 1 : Entry(r, i) \in Presents
      BY <1>1, <3>1, <3>2
    <3>4. Clear(r, w)
      <4>. SUFFICES ASSUME NEW i \in 0 .. r.ready - 1 PROVE w[Entry(r, i)] = {}
        BY DEF Clear
      <4>1. i \in 0 .. ring.count - 2 /\ i + 1 \in 0 .. ring.ready - 1
        BY <1>1, <3>1
      <4>. QED BY <3>1, <4>1 DEF Clear
    <3>5. Sorted(r, last, n)
      <4>. SUFFICES ASSUME NEW i \in 0 .. r.count - 1
                    PROVE  /\ last < Entry(r, i) /\ Entry(r, i) <= n
                           /\ \A j \in 0 .. i - 1 : Entry(r, j) < Entry(r, i)
        BY DEF Sorted
      <4>1. \A j \in 0 .. i - 1 : /\ j + 1 \in 0 .. ring.count - 1
                                  /\ j + 1 \in 0 .. (i + 1) - 1
                                  /\ Entry(r, j) = Entry(ring, j + 1)
        BY <1>1, <3>1
      <4>2. CASE i = ring.count - 1
        BY <1>1, <1>2, <3>1, <4>1, <4>2
      <4>3. CASE i \in 0 .. ring.count - 2 /\ i + 1 \in 0 .. ring.count - 1
        <5>1. Entry(r, i) = Entry(ring, i + 1)
          BY <3>1, <4>3
        <5>2. Entry(ring, i + 1) \in Nat /\ Entry(ring, i + 1) <= n
          BY <1>1, <4>3 DEF Presents
        <5>. QED BY <1>3, <4>1, <4>3, <5>1, <5>2
      <4>. QED BY <3>2, <4>2, <4>3
    <3>. QED BY <1>1, <2>2, <3>1, <3>3, <3>4, <3>5
  <2>. QED BY <2>1, <2>2
<1>. DEFINE s == Settle(r, w, l, st, p)
<1>5. /\ RingOK(s.ring, Numbers) /\ s.ring.count = r.count
      /\ \A i : Entry(s.ring, i) = Entry(r, i)
      /\ s.waits \in WaitsType /\ s.lost \in SUBSET Presents
      /\ Clear(s.ring, s.waits) /\ Stuck(s.ring, s.waits)
      /\ "frame" \notin Deferrals => ~Stale(s.ring, st, p)
  <2>1. RingOK(r, Numbers) /\ Clear(r, w) /\ \A i \in 0 .. r.count - 1 : Entry(r, i) \in Presents
    BY <1>4
  <2>2. LET t == Settle(r, w, l, st, p)
        IN /\ RingOK(t.ring, Numbers)
           /\ t.ring.count = r.count
           /\ \A i : Entry(t.ring, i) = Entry(r, i)
           /\ t.waits \in WaitsType
           /\ t.lost \in SUBSET Presents
           /\ Clear(t.ring, t.waits)
           /\ Stuck(t.ring, t.waits)
           /\ "frame" \notin Deferrals => ~Stale(t.ring, st, p)
    BY <2>1, SettleIs
  <2>. QED BY <2>2
<1>. HIDE DEF s
<1>6. Sorted(s.ring, last, n)
  BY <1>4, <1>5 DEF Sorted
<1>. QED BY <1>4, <1>5, <1>6 DEF s

----
\* The steps.

\* What CompletePresent has done when it comes to the ring.
Arrival(x, t, d, isLost, p, st, pr, w, l) ==
    /\ blocked = NoPresent
    /\ completed < MaxPresents
    /\ p = completed + 1
    /\ st = [start EXCEPT ![p] = t]
    /\ pr = [process EXCEPT ![p] = x]
    /\ w = MergeFrameId(ring, [waits EXCEPT ![p] = d], pr, p)
    /\ l = IF isLost THEN lost \cup {p} ELSE lost
    /\ completed' = p
    /\ start' = st
    /\ process' = pr
    /\ UNCHANGED outVars

\* What it leaves behind when no present waits for another.
CompleteSettles ==
    /\ Stuck(ring, waits) => Stuck(ring', waits')
    /\ ring' # ring => ~Stale(ring', start', completed')

\* What is then known of present p.
Arrived(p, st, pr, w, l) ==
    /\ p \in Presents /\ p \in Nat /\ completed <= p /\ last < p
    /\ p = completed + 1
    /\ w \in WaitsType /\ l \in SUBSET Presents
    /\ st \in [Presents -> Times] /\ pr \in [Presents -> Processes]
    /\ Clear(ring, w)
    /\ \A i \in 0 .. ring.count - 1 : Entry(ring, i) < p
    /\ "frame" \notin Deferrals => \A q \in Presents : q # p => w[q] = waits[q]

LEMMA ArrivalFacts ==
    ASSUME HandOverInv,
           NEW x \in Processes, NEW t \in Times, NEW d \in SUBSET Deferrals,
           NEW isLost \in BOOLEAN, NEW p, NEW st, NEW pr, NEW w, NEW l,
           Arrival(x, t, d, isLost, p, st, pr, w, l)
    PROVE  Arrived(p, st, pr, w, l)
<1>1. /\ completed \in Nat /\ last \in Nat /\ waits \in WaitsType /\ Clear(ring, waits)
      /\ ring.count \in Nat /\ ring.ready \in Nat /\ ring.ready <= ring.count
      /\ \A i \in 0 .. ring.count - 1 :
                Entry(ring, i) \in Presents /\ Entry(ring, i) <= completed
  BY HandOverFacts
<1>2. /\ p = completed + 1 /\ p \in Presents /\ p \in Nat /\ completed <= p
  BY <1>1, CompletedAssumption DEF Arrival, Presents
<1>3. last < p
  BY <1>1, <1>2 DEF HandOverInv, OrderInv
<1>4. \A i \in 0 .. ring.count - 1 : Entry(ring, i) < p
  BY <1>1, <1>2 DEF Presents
<1>5. l \in SUBSET Presents /\ st \in [Presents -> Times] /\ pr \in [Presents -> Processes]
  BY <1>2 DEF Arrival, HandOverInv, TypeOK
<1>. DEFINE v == [waits EXCEPT ![p] = d]
<1>6. v \in WaitsType /\ \A q \in Presents : q # p => v[q] = waits[q]
  BY <1>1, <1>2 DEF WaitsType
<1>7. w = MergeFrameId(ring, v, pr, p)
  BY DEF Arrival
<1>. HIDE DEF v
<1>8. w \in WaitsType /\ \A q \in Presents : w[q] \subseteq v[q]
  BY <1>6, <1>7 DEF MergeFrameId, WaitsType
<1>9. Clear(ring, w)
  <2>. SUFFICES ASSUME NEW i \in 0 .. ring.ready - 1 PROVE w[Entry(ring, i)] = {}
    BY DEF Clear
  <2>1. i \in 0 .. ring.count - 1
    BY <1>1
  <2>2. Entry(ring, i) \in Presents /\ Entry(ring, i) # p
    BY <1>1, <1>2, <1>4, <2>1
  <2>3. waits[Entry(ring, i)] = {}
    BY <1>1 DEF Clear
  <2>. QED BY <1>6, <1>8, <2>2, <2>3
<1>10. ASSUME "frame" \notin Deferrals, NEW q \in Presents, q # p
       PROVE  w[q] = waits[q]
  <2>1. "frame" \notin v[q] /\ v[q] = waits[q]
    BY <1>6, <1>10 DEF WaitsType
  <2>2. w[q] = v[q]
    BY <1>6, <1>7, <2>1, DomainOfWaits DEF MergeFrameId
  <2>. QED BY <2>1, <2>2
<1>. QED BY <1>2, <1>3, <1>4, <1>5, <1>8, <1>9, <1>10 DEF Arrived

\* CompletePresent is an arrival that is stored, blocks or is refused.
LEMMA CompleteIs ==
    ASSUME CompletePresent
    PROVE  \E x \in Processes, t \in Times, d \in SUBSET Deferrals, isLost \in BOOLEAN :
           \E p, st, pr, w, l :
             /\ Arrival(x, t, d, isLost, p, st, pr, w, l)
             /\ \/ Append(w, l, st, p)
                \/ Block(w, l, st, p)
                \/ Refuse(w, l, st, p)
                \/ Overflow(w, l, st, p)
<1>1. PICK x \in Processes, t \in Times, d \in SUBSET Deferrals, isLost \in BOOLEAN :
         LET p  == completed + 1
             st == [start EXCEPT ![p] = t]
             pr == [process EXCEPT ![p] = x]
             w  == MergeFrameId(ring, [waits EXCEPT ![p] = d], pr, p)
             l  == IF isLost THEN lost \cup {p} ELSE lost
         IN /\ isLost => d \subseteq {"frame"}
            /\ completed' = p
            /\ start' = st
            /\ process' = pr
            /\ \/ Append(w, l, st, p)
               \/ Block(w, l, st, p)
               \/ Refuse(w, l, st, p)
               \/ Overflow(w, l, st, p)
  BY Zenon DEF CompletePresent
<1>2. blocked = NoPresent /\ completed < MaxPresents /\ UNCHANGED outVars
  BY DEF CompletePresent
<1>. DEFINE p  == completed + 1
            st == [start EXCEPT ![p] = t]
            pr == [process EXCEPT ![p] = x]
            w  == MergeFrameId(ring, [waits EXCEPT ![p] = d], pr, p)
            l  == IF isLost THEN lost \cup {p} ELSE lost
<1>3. Arrival(x, t, d, isLost, p, st, pr, w, l)
  BY <1>1, <1>2, Zenon DEF Arrival
<1>4. \/ Append(w, l, st, p)
      \/ Block(w, l, st, p)
      \/ Refuse(w, l, st, p)
      \/ Overflow(w, l, st, p)
  BY <1>1, Zenon
<1>. HIDE DEF p, st, pr, w, l
<1>. QED BY <1>3, <1>4, Zenon

LEMMA CompleteKeepsInv ==
    ASSUME HandOverInv, CompletePresent
    PROVE  /\ HandOverInv'
           /\ "frame" \notin Deferrals => CompleteSettles
<1>1. PICK x \in Processes, t \in Times, d \in SUBSET Deferrals, isLost \in BOOLEAN :
           \E p, st, pr, w, l :
             /\ Arrival(x, t, d, isLost, p, st, pr, w, l)
             /\ \/ Append(w, l, st, p)
                \/ Block(w, l, st, p)
                \/ Refuse(w, l, st, p)
                \/ Overflow(w, l, st, p)
  BY CompleteIs
<1>2. PICK p, st, pr, w, l :
             /\ Arrival(x, t, d, isLost, p, st, pr, w, l)
             /\ \/ Append(w, l, st, p)
                \/ Block(w, l, st, p)
                \/ Refuse(w, l, st, p)
                \/ Overflow(w, l, st, p)
  BY <1>1
<1>3. /\ p \in Presents /\ p \in Nat /\ completed <= p /\ last < p
      /\ p = completed + 1
      /\ w \in WaitsType /\ l \in SUBSET Presents
      /\ st \in [Presents -> Times] /\ pr \in [Presents -> Processes]
      /\ Clear(ring, w)
      /\ \A i \in 0 .. ring.count - 1 : Entry(ring, i) < p
      /\ "frame" \notin Deferrals =>
           \A q \in Presents : q # p => w[q] = waits[q]
  <2>1. Arrival(x, t, d, isLost, p, st, pr, w, l)
    BY <1>2
  <2>2. Arrived(p, st, pr, w, l)
    BY <2>1, ArrivalFacts
  <2>. QED BY <2>2 DEF Arrived
<1>4. /\ RingOK(ring, Numbers)
      /\ ring.count \in Nat /\ ring.ready \in Nat /\ ring.ready <= ring.count
      /\ ring.count <= RingSize
      /\ completed \in Nat /\ last \in Nat /\ handed \in Nat
      /\ overflowed \in Nat /\ refused \in Nat
  BY HandOverFacts
<1>5. /\ completed' = p /\ start' = st /\ process' = pr
      /\ handed' = handed /\ last' = last /\ blocked = NoPresent
      /\ completed' \in 0 .. MaxPresents
  BY <1>2, <1>3, <1>4 DEF Arrival, outVars, Presents
<1>6. Held = 0
  BY <1>5 DEF Held
<1>12. completed' = handed + ring.count + overflowed + refused + 1 /\ handed' = handed
  <2>1. completed = handed + ring.count + Held + overflowed + refused
    BY DEF HandOverInv, Accounted
  <2>2. completed' = completed + 1
    BY <1>3, <1>5
  <2>. QED BY <1>4, <1>5, <1>6, <2>1, <2>2
<1>10. \A i \in 0 .. ring.count - 1 : Entry(ring, i) \in Nat /\ Entry(ring, i) <= p
  BY <1>3, HandOverFacts DEF Presents
<1>11. "frame" \notin Deferrals => (Stuck(ring, waits) => Stuck(ring, w))
  <2>. SUFFICES ASSUME "frame" \notin Deferrals, Stuck(ring, waits), ring.ready # ring.count
                PROVE  w[Entry(ring, ring.ready)] # {}
    BY DEF Stuck
  <2>1. ring.ready \in 0 .. ring.count - 1
    BY <1>4
  <2>2. Entry(ring, ring.ready) \in Presents /\ Entry(ring, ring.ready) # p
    BY <1>3, <2>1, HandOverFacts
  <2>. QED BY <1>3, <2>2 DEF Stuck
<1>7. ASSUME NEW r,
             \/ Append(w, l, st, p) /\ r = AppendCompleted(ring, p)
             \/ Overflow(w, l, st, p) /\ r = OverwriteOldest(ring, p)
      PROVE  HandOverInv' /\ ("frame" \notin Deferrals => CompleteSettles)
  <2>. DEFINE s == Settle(r, w, l, st, p)
  <2>1. \/ ring.count < RingSize /\ r = AppendCompleted(ring, p)
        \/ ring.count = RingSize /\ r = OverwriteOldest(ring, p)
    BY <1>7 DEF Append, Overflow
  <2>2. ring' = s.ring /\ waits' = s.waits /\ lost' = s.lost /\ blocked' = blocked
        /\ refused' = refused
    BY <1>7 DEF Append, Overflow, Become
  <2>3. /\ RingOK(s.ring, Numbers)
        /\ s.ring.count = r.count
        /\ r.count = IF ring.count < RingSize THEN ring.count + 1 ELSE ring.count
        /\ s.waits \in WaitsType
        /\ s.lost \in SUBSET Presents
        /\ Clear(s.ring, s.waits)
        /\ Stuck(s.ring, s.waits)
        /\ "frame" \notin Deferrals => ~Stale(s.ring, st, p)
        /\ Sorted(s.ring, last, p)
    <3>1. /\ p \in Presents /\ w \in WaitsType /\ l \in SUBSET Presents /\ p \in Nat
          /\ completed <= p /\ p <= p /\ last < p
          /\ \A i \in 0 .. ring.count - 1 : Entry(ring, i) < p
          /\ Clear(ring, w)
      BY <1>3
    <3>. QED BY <2>1, <3>1, StoreKeepsOrder, ZenonT(30)
  <2>. HIDE DEF s
  <2>4. ring'.count + overflowed' = ring.count + overflowed + 1 /\ overflowed' \in Nat
    <3>1. CASE Append(w, l, st, p)
      <4>1. ring.count < RingSize /\ overflowed' = overflowed
        BY <3>1 DEF Append
      <4>. QED BY <1>4, <2>2, <2>3, <4>1
    <3>2. CASE Overflow(w, l, st, p)
      <4>1. ring.count = RingSize /\ overflowed' = overflowed + 1
        BY <3>2 DEF Overflow
      <4>. QED BY <1>4, <2>2, <2>3, <4>1, RingSizeAssumption
    <3>. QED BY <1>7, <3>1, <3>2
  <2>5. TypeOK'
    <3>1. RingOK(ring', Numbers) /\ waits' \in WaitsType /\ lost' \in SUBSET Presents
      BY <2>2, <2>3
    <3>. QED BY <1>3, <1>4, <1>5, <2>2, <2>4, <3>1
         DEF HandOverInv, TypeOK, RingOK, RingType, WaitsType, Numbers
  <2>6. OrderInv'
    <3>1. Sorted(ring', last', completed') /\ last' <= completed' /\ blocked' = NoPresent
      BY <1>3, <1>4, <1>5, <2>2, <2>3
    <3>. QED BY <3>1 DEF OrderInv
  <2>7. ReadySettled'
    BY <2>2, <2>3 DEF ReadySettled, Clear
  <2>8. Accounted'
    <3>1. Held' = 0 /\ ring'.count \in Nat
      BY <1>5, <2>2, <2>3, <1>4 DEF Held
    <3>2. refused' = refused
      BY <2>2
    <3>3. completed' = handed + ring'.count + overflowed' + refused
      BY <1>4, <1>12, <2>4, <3>1
    <3>. QED BY <1>4, <1>12, <2>4, <3>1, <3>2, <3>3 DEF Accounted
  <2>9. "frame" \notin Deferrals => CompleteSettles
    BY <1>5, <2>2, <2>3 DEF CompleteSettles
  <2>. QED BY <2>5, <2>6, <2>7, <2>8, <2>9 DEF HandOverInv
<1>8. CASE Block(w, l, st, p)
  <2>1. /\ blocked' = p /\ waits' = w /\ lost' = l
        /\ ring' = ring /\ overflowed' = overflowed /\ refused' = refused
    BY <1>8 DEF Block
  <2>2. TypeOK'
    BY <1>3, <1>4, <1>5, <2>1
    DEF HandOverInv, TypeOK, RingOK, RingType, WaitsType, Numbers, Presents
  <2>3. OrderInv'
    <3>1. Sorted(ring, last, p)
      BY <1>3, <1>10 DEF HandOverInv, OrderInv, Sorted
    <3>. QED BY <1>3, <1>4, <1>5, <2>1, <3>1 DEF OrderInv, Sorted
  <2>4. ReadySettled'
    BY <1>3, <2>1 DEF ReadySettled, Clear
  <2>5. Accounted'
    <3>1. Held' = 1
      BY <1>3, <2>1 DEF Held, NoPresent, Presents
    <3>. QED BY <1>4, <1>12, <2>1, <3>1 DEF Accounted
  <2>6. "frame" \notin Deferrals => CompleteSettles
    BY <1>11, <2>1 DEF CompleteSettles
  <2>. QED BY <2>2, <2>3, <2>4, <2>5, <2>6 DEF HandOverInv
<1>9. CASE Refuse(w, l, st, p)
  <2>1. /\ blocked' = blocked /\ waits' = w /\ lost' = l
        /\ ring' = ring /\ overflowed' = overflowed /\ refused' = refused + 1
    BY <1>9 DEF Refuse
  <2>2. TypeOK'
    BY <1>3, <1>4, <1>5, <2>1
    DEF HandOverInv, TypeOK, RingOK, RingType, WaitsType, Numbers, Presents
  <2>3. OrderInv'
    <3>1. Sorted(ring, last, p)
      BY <1>3, <1>10 DEF HandOverInv, OrderInv, Sorted
    <3>. QED BY <1>3, <1>4, <1>5, <2>1, <3>1 DEF OrderInv, Sorted
  <2>4. ReadySettled'
    BY <1>3, <2>1 DEF ReadySettled, Clear
  <2>5. Accounted'
    <3>1. Held' = 0
      BY <1>5, <2>1 DEF Held
    <3>. QED BY <1>4, <1>12, <2>1, <3>1 DEF Accounted
  <2>6. "frame" \notin Deferrals => CompleteSettles
    BY <1>11, <2>1 DEF CompleteSettles
  <2>. QED BY <2>2, <2>3, <2>4, <2>5, <2>6 DEF HandOverInv
<1>. QED BY <1>2, <1>7, <1>8, <1>9

LEMMA UnblockKeepsInv ==
    ASSUME HandOverInv, Unblock
    PROVE  HandOverInv' /\ Stuck(ring', waits')
<1>. DEFINE p == blocked
            r == AppendCompleted(ring, p)
            s == Settle(r, waits, lost, start, p)
<1>1. /\ RingOK(ring, Numbers)
      /\ ring.count \in Nat /\ ring.ready \in Nat /\ ring.ready <= ring.count
      /\ ring.count <= RingSize
      /\ completed \in Nat /\ last \in Nat /\ handed \in Nat
      /\ overflowed \in Nat /\ refused \in Nat
      /\ waits \in WaitsType /\ Clear(ring, waits)
  BY HandOverFacts
<1>2. /\ p # NoPresent /\ ring.count < RingSize
      /\ ring' = s.ring /\ waits' = s.waits /\ lost' = s.lost /\ blocked' = NoPresent
      /\ completed' = completed /\ start' = start /\ process' = process
      /\ overflowed' = overflowed /\ refused' = refused
      /\ handed' = handed /\ last' = last
  BY DEF Unblock, Become, outVars
<1>3. /\ p \in Presents /\ p <= completed /\ completed <= completed /\ last < p
      /\ \A i \in 0 .. ring.count - 1 : Entry(ring, i) < p
      /\ lost \in SUBSET Presents
  BY <1>1, <1>2 DEF HandOverInv, TypeOK, OrderInv, Presents, NoPresent
<1>4. \/ ring.count < RingSize /\ r = AppendCompleted(ring, p)
      \/ ring.count = RingSize /\ r = OverwriteOldest(ring, p)
  BY <1>2
<1>. HIDE DEF p, r, s
<1>5. /\ RingOK(s.ring, Numbers)
      /\ s.ring.count = r.count
      /\ r.count = IF ring.count < RingSize THEN ring.count + 1 ELSE ring.count
      /\ s.waits \in WaitsType
      /\ s.lost \in SUBSET Presents
      /\ Clear(s.ring, s.waits)
      /\ Stuck(s.ring, s.waits)
      /\ "frame" \notin Deferrals => ~Stale(s.ring, start, p)
      /\ Sorted(s.ring, last, completed)
  BY <1>1, <1>3, <1>4, StoreKeepsOrder, ZenonT(30) DEF s
<1>6. TypeOK'
  <2>1. RingOK(ring', Numbers) /\ waits' \in WaitsType /\ lost' \in SUBSET Presents
    BY <1>2, <1>5
  <2>2. /\ completed' \in 0 .. MaxPresents /\ start' \in [Presents -> Times]
        /\ process' \in [Presents -> Processes] /\ blocked' \in 0 .. MaxPresents
        /\ overflowed' \in Nat /\ refused' \in Nat
        /\ handed' \in Nat /\ last' \in 0 .. MaxPresents
    BY <1>2, CompletedAssumption DEF HandOverInv, TypeOK, NoPresent
  <2>. QED BY <2>1, <2>2 DEF TypeOK, RingOK, RingType, WaitsType, Numbers
<1>7. OrderInv'
  <2>1. /\ Sorted(ring', last', completed') /\ last' <= completed' /\ blocked' = NoPresent
    BY <1>2, <1>5 DEF HandOverInv, OrderInv
  <2>. QED BY <2>1 DEF OrderInv
<1>8. ReadySettled'
  BY <1>2, <1>5 DEF ReadySettled, Clear
<1>9. Accounted'
  <2>1. Held = 1 /\ Held' = 0 /\ ring'.count = ring.count + 1
    BY <1>2, <1>5 DEF Held, p
  <2>. QED BY <1>1, <1>2, <2>1 DEF HandOverInv, Accounted
<1>. QED BY <1>2, <1>5, <1>6, <1>7, <1>8, <1>9 DEF HandOverInv

LEMMA EndDeferralKeepsInv ==
    ASSUME HandOverInv, NEW p \in Presents, NEW kind, EndDeferral(p, kind),
           lost' \in SUBSET Presents
    PROVE  HandOverInv' /\ Stuck(ring', waits')
<1>. DEFINE w == [waits EXCEPT ![p] = waits[p] \ {kind}]
            r == UpdateReadyCount(ring, Deferred(w))
<1>1. /\ RingOK(ring, Numbers)
      /\ ring.count \in Nat /\ ring.ready \in Nat /\ ring.ready <= ring.count
      /\ waits \in WaitsType /\ Clear(ring, waits)
      /\ \A i \in 0 .. ring.count - 1 : Entry(ring, i) \in Presents
  BY HandOverFacts
<1>2. /\ ring' = r /\ waits' = w /\ lost' \in SUBSET Presents /\ blocked' = blocked
      /\ completed' = completed /\ start' = start /\ process' = process
      /\ overflowed' = overflowed /\ refused' = refused
      /\ handed' = handed /\ last' = last
  BY DEF EndDeferral, outVars, HandOverInv, TypeOK
<1>3. w \in WaitsType /\ \A q \in Presents : w[q] \subseteq waits[q]
  BY <1>1 DEF WaitsType
<1>4. /\ RingOK(r, Numbers) /\ r.count = ring.count /\ r.ready \in ring.ready .. ring.count
      /\ \A i \in ring.ready .. r.ready - 1 : Entry(ring, i) \notin Deferred(w)
      /\ r.ready = ring.count \/ Entry(ring, r.ready) \in Deferred(w)
      /\ \A i : Entry(r, i) = Entry(ring, i)
  BY <1>1, ReadyCountIs
<1>. HIDE DEF w, r
<1>5. Clear(r, w) /\ Stuck(r, w)
  <2>1. Stuck(r, w)
    BY <1>1, <1>4 DEF Stuck, Deferred
  <2>2. ASSUME NEW i \in 0 .. r.ready - 1 PROVE w[Entry(r, i)] = {}
    <3>1. Entry(r, i) = Entry(ring, i) /\ Entry(ring, i) \in Presents
      BY <1>1, <1>4
    <3>2. CASE i \in 0 .. ring.ready - 1
      BY <1>1, <1>3, <3>1, <3>2 DEF Clear
    <3>3. CASE i \in ring.ready .. r.ready - 1
      BY <1>3, <1>4, <3>1, <3>3, DomainOfWaits DEF Deferred
    <3>. QED BY <1>1, <1>4, <3>2, <3>3
  <2>. QED BY <2>1, <2>2 DEF Clear
<1>6. TypeOK'
  <2>1. RingOK(ring', Numbers) /\ waits' \in WaitsType
    BY <1>2, <1>3, <1>4
  <2>. QED BY <1>2, <2>1 DEF HandOverInv, TypeOK, RingOK, RingType, WaitsType, Numbers
<1>7. OrderInv'
  BY <1>2, <1>4 DEF HandOverInv, OrderInv, Sorted
<1>8. ReadySettled'
  BY <1>2, <1>5 DEF ReadySettled, Clear
<1>9. Accounted'
  BY <1>2, <1>4 DEF HandOverInv, Accounted, Held
<1>. QED BY <1>2, <1>5, <1>6, <1>7, <1>8, <1>9 DEF HandOverInv

LEMMA OnlyLostKeepsInv ==
    ASSUME HandOverInv, lost' \in SUBSET Presents,
           UNCHANGED <<ring, completed, waits, start, process, blocked, overflowed, refused,
                       outVars>>
    PROVE  HandOverInv' /\ (Stuck(ring, waits) => Stuck(ring', waits'))
<1>1. /\ ring' = ring /\ waits' = waits /\ blocked' = blocked
      /\ completed' = completed /\ start' = start /\ process' = process
      /\ overflowed' = overflowed /\ refused' = refused
      /\ handed' = handed /\ last' = last
  BY DEF outVars
<1>2. TypeOK'
  BY <1>1 DEF HandOverInv, TypeOK
<1>3. OrderInv' /\ ReadySettled' /\ Accounted'
  BY <1>1 DEF HandOverInv, OrderInv, ReadySettled, Accounted, Held
<1>. QED BY <1>1, <1>2, <1>3 DEF HandOverInv

LEMMA DequeueKeepsInv ==
    ASSUME HandOverInv, DequeuePresentEvents
    PROVE  HandOverInv' /\ (Stuck(ring, waits) => Stuck(ring', waits'))
<1>. DEFINE r == TakeReady(ring)
<1>1. /\ RingOK(ring, Numbers)
      /\ ring.count \in Nat /\ ring.ready \in Nat /\ ring.ready <= ring.count
      /\ completed \in Nat /\ last \in Nat /\ handed \in Nat
      /\ overflowed \in Nat /\ refused \in Nat
      /\ \A i \in 0 .. ring.count - 1 :
                Entry(ring, i) \in Presents /\ Entry(ring, i) <= completed
  BY HandOverFacts
<1>2. /\ ring' = r /\ waits' = waits /\ lost' = lost /\ blocked' = blocked
      /\ completed' = completed /\ start' = start /\ process' = process
      /\ overflowed' = overflowed /\ refused' = refused
      /\ handed' = handed + ring.ready
      /\ last' = IF ring.ready > 0 THEN Entry(ring, ring.ready - 1) ELSE last
  BY DEF DequeuePresentEvents
<1>3. /\ RingOK(r, Numbers) /\ r.count = ring.count - ring.ready /\ r.ready = 0
      /\ \A i \in 0 .. ring.count - ring.ready - 1 : Entry(r, i) = Entry(ring, i + ring.ready)
  BY <1>1, TakeIs, NothingIsNumber
<1>. HIDE DEF r
<1>4. /\ last' \in 0 .. MaxPresents /\ last' \in Nat /\ last' <= completed
      /\ \A i \in ring.ready .. ring.count - 1 : last' < Entry(ring, i)
  <2>1. CASE ring.ready = 0
    BY <1>1, <1>2, <2>1 DEF HandOverInv, TypeOK, OrderInv, Sorted
  <2>2. CASE ring.ready > 0
    <3>1. ring.ready - 1 \in 0 .. ring.count - 1 /\ last' = Entry(ring, ring.ready - 1)
      BY <1>1, <1>2, <2>2
    <3>2. last' \in Presents /\ last' <= completed
      BY <1>1, <3>1
    <3>3. ASSUME NEW i \in ring.ready .. ring.count - 1 PROVE last' < Entry(ring, i)
      <4>1. i \in 0 .. ring.count - 1 /\ ring.ready - 1 \in 0 .. i - 1
        BY <1>1, <2>2
      <4>. QED BY <3>1, <4>1 DEF HandOverInv, OrderInv, Sorted
    <3>. QED BY <3>2, <3>3, CompletedAssumption DEF Presents
  <2>. QED BY <1>1, <2>1, <2>2
<1>5. TypeOK'
  <2>1. RingOK(ring', Numbers) /\ handed' \in Nat
    BY <1>1, <1>2, <1>3
  <2>. QED BY <1>2, <1>4, <2>1 DEF HandOverInv, TypeOK, RingOK, RingType, Numbers
<1>6. OrderInv'
  <2>1. ASSUME NEW i \in 0 .. r.count - 1
        PROVE  /\ last' < Entry(r, i)
               /\ Entry(r, i) <= completed
               /\ \A j \in 0 .. i - 1 : Entry(r, j) < Entry(r, i)
    <3>1. /\ i + ring.ready \in ring.ready .. ring.count - 1
          /\ i + ring.ready \in 0 .. ring.count - 1
          /\ Entry(r, i) = Entry(ring, i + ring.ready)
      BY <1>1, <1>3
    <3>2. ASSUME NEW j \in 0 .. i - 1 PROVE Entry(r, j) < Entry(r, i)
      <4>1. /\ j + ring.ready \in 0 .. (i + ring.ready) - 1
            /\ Entry(r, j) = Entry(ring, j + ring.ready)
        BY <1>1, <1>3
      <4>. QED BY <3>1, <4>1 DEF HandOverInv, OrderInv, Sorted
    <3>. QED BY <1>1, <1>4, <3>1, <3>2
  <2>2. Sorted(ring', last', completed')
    BY <1>2, <2>1 DEF Sorted
  <2>3. ASSUME blocked # NoPresent
        PROVE  /\ last' < blocked /\ blocked <= completed
               /\ \A i \in 0 .. r.count - 1 : Entry(r, i) < blocked
    <3>1. /\ last < blocked /\ blocked <= completed
          /\ \A i \in 0 .. ring.count - 1 : Entry(ring, i) < blocked
      BY <2>3 DEF HandOverInv, OrderInv
    <3>2. last' < blocked
      <4>1. CASE ring.ready = 0
        BY <1>2, <3>1, <4>1
      <4>2. CASE ring.ready > 0
        <5>1. ring.ready - 1 \in 0 .. ring.count - 1 /\ last' = Entry(ring, ring.ready - 1)
          BY <1>1, <1>2, <4>2
        <5>. QED BY <3>1, <5>1
      <4>. QED BY <1>1, <4>1, <4>2
    <3>3. ASSUME NEW i \in 0 .. r.count - 1 PROVE Entry(r, i) < blocked
      <4>1. i + ring.ready \in 0 .. ring.count - 1 /\ Entry(r, i) = Entry(ring, i + ring.ready)
        BY <1>1, <1>3
      <4>. QED BY <3>1, <4>1
    <3>. QED BY <3>1, <3>2, <3>3
  <2>. QED BY <1>2, <1>4, <2>2, <2>3 DEF OrderInv
<1>7. ReadySettled'
  BY <1>2, <1>3 DEF ReadySettled
<1>8. Accounted'
  <2>1. Held' = Held /\ Held \in Nat
    BY <1>2 DEF Held
  <2>. QED BY <1>1, <1>2, <1>3, <2>1 DEF HandOverInv, Accounted
<1>9. Stuck(ring, waits) => Stuck(r, waits)
  <2>1. CASE ring.ready = ring.count
    BY <1>1, <1>3, <2>1 DEF Stuck
  <2>2. CASE ring.ready # ring.count
    <3>1. 0 \in 0 .. ring.count - ring.ready - 1 /\ 0 + ring.ready = ring.ready
      BY <1>1, <2>2
    <3>2. Entry(r, 0) = Entry(ring, ring.ready)
      BY <1>3, <3>1
    <3>. QED BY <1>3, <2>2, <3>2 DEF Stuck
  <2>. QED BY <2>1, <2>2
<1>. QED BY <1>2, <1>5, <1>6, <1>7, <1>8, <1>9 DEF HandOverInv

----
\* The theorems.

LEMMA StepKeepsInv ==
    ASSUME HandOverInv, [Next]_vars
    PROVE  /\ HandOverInv'
           /\ "frame" \notin Deferrals => (Stuck(ring, waits) => Stuck(ring', waits'))
<1>1. CASE CompletePresent
  BY <1>1, CompleteKeepsInv DEF CompleteSettles
<1>2. CASE Unblock
  BY <1>2, UnblockKeepsInv
<1>3. CASE \E p \in Presents : PresentStop(p) \/ RemoveLostPresent(p) \/ FlipFrameTypesOver(p)
  <2>1. PICK p \in Presents : PresentStop(p) \/ RemoveLostPresent(p) \/ FlipFrameTypesOver(p)
    BY <1>3
  <2>2. lost' \in SUBSET Presents
    BY <2>1 DEF PresentStop, RemoveLostPresent, FlipFrameTypesOver, HandOverInv, TypeOK
  <2>3. CASE \E kind : EndDeferral(p, kind)
    BY <2>2, <2>3, EndDeferralKeepsInv
  <2>4. CASE UNCHANGED <<ring, completed, waits, start, process, blocked, overflowed, refused,
                         outVars>>
    BY <2>2, <2>4, OnlyLostKeepsInv
  <2>. QED BY <2>1, <2>3, <2>4 DEF PresentStop, RemoveLostPresent, FlipFrameTypesOver
<1>4. CASE DequeuePresentEvents
  BY <1>4, DequeueKeepsInv
<1>5. CASE UNCHANGED vars
  <2>1. /\ ring' = ring /\ completed' = completed /\ waits' = waits /\ lost' = lost
        /\ start' = start /\ process' = process /\ blocked' = blocked
        /\ overflowed' = overflowed /\ refused' = refused
        /\ handed' = handed /\ last' = last
    BY <1>5 DEF vars, outVars
  <2>. QED BY <2>1
       DEF HandOverInv, TypeOK, OrderInv, Sorted, ReadySettled, Accounted, Held, Stuck
<1>. QED BY <1>1, <1>2, <1>3, <1>4, <1>5 DEF Next

\* HandOverInv is an inductive invariant of the hand-over.
THEOREM HandOverInvariant == Spec => []HandOverInv
<1>1. Init => HandOverInv
  BY HandOverInvInit
<1>2. HandOverInv /\ [Next]_vars => HandOverInv'
  BY StepKeepsInv
<1>. QED BY <1>1, <1>2, PTL DEF Spec

\* Type correctness: mReadyCount never exceeds mCompletedCount, nor that the
\* ring's size.
THEOREM TypeCorrect == Spec => []TypeOK
<1>1. HandOverInv => TypeOK
  BY DEF HandOverInv
<1>. QED BY <1>1, HandOverInvariant, PTL

\* DequeuePresentEvents never takes a present that is still deferred.
THEOREM ReadyPresentsAreSettled == Spec => []ReadySettled
<1>1. HandOverInv => ReadySettled
  BY DEF HandOverInv
<1>. QED BY <1>1, HandOverInvariant, PTL

\* Presents are handed over in the order of their completion, none twice,
\* whatever the ring's size, the backpressure and the deferrals.
THEOREM HandedOverInOrder == Spec => []HandedInOrder
<1>1. HandOverInv => HandedInOrder
  BY DEF HandOverInv, OrderInv, Sorted, HandedInOrder
<1>. QED BY <1>1, HandOverInvariant, PTL

\* No completed present disappears without being counted.
THEOREM PresentsAreAccounted == Spec => []Accounted
<1>1. HandOverInv => Accounted
  BY DEF HandOverInv
<1>. QED BY <1>1, HandOverInvariant, PTL

\* Without presents that wait for another one, the ready count stops only at a
\* deferred present, so offline analysis overwrites nothing that is settled.
THEOREM OfflineOverwritesOnlyDeferred ==
    ASSUME "frame" \notin Deferrals
    PROVE  Spec => OfflineKeepsSettled
<1>. DEFINE I == HandOverInv /\ Stuck(ring, waits)
<1>1. Init => I
  <2>1. Init => Stuck(ring, waits)
    BY DEF Init, EmptyRing, Stuck
  <2>. QED BY <2>1, HandOverInvInit
<1>2. I /\ [Next]_vars => I'
  <2>. SUFFICES ASSUME HandOverInv, Stuck(ring, waits), [Next]_vars
                PROVE  HandOverInv' /\ Stuck(ring', waits')
    BY DEF Stuck
  <2>. QED BY StepKeepsInv
<1>3. I /\ [Next]_vars =>
        [Backpressure /\ overflowed' # overflowed => waits[Entry(ring, 0)] # {}]_vars
  <2>. SUFFICES ASSUME HandOverInv, Stuck(ring, waits), Next, Backpressure,
                       overflowed' # overflowed
                PROVE  waits[Entry(ring, 0)] # {}
    BY DEF vars
  <2>1. CompletePresent
    BY DEF Next, Unblock, PresentStop, RemoveLostPresent, FlipFrameTypesOver,
           EndDeferral, DequeuePresentEvents
  <2>2. PICK w, l, st, p : \/ Append(w, l, st, p)
                           \/ Block(w, l, st, p)
                           \/ Refuse(w, l, st, p)
                           \/ Overflow(w, l, st, p)
    <3>1. PICK x \in Processes, t \in Times, d \in SUBSET Deferrals, isLost \in BOOLEAN :
           \E p, st, pr, w, l :
             /\ Arrival(x, t, d, isLost, p, st, pr, w, l)
             /\ \/ Append(w, l, st, p)
                \/ Block(w, l, st, p)
                \/ Refuse(w, l, st, p)
                \/ Overflow(w, l, st, p)
      BY <2>1, CompleteIs
    <3>. QED BY <3>1, Zenon
  <2>3. Overflow(w, l, st, p)
    BY <2>2 DEF Append, Block, Refuse
  <2>4. ring.count = RingSize /\ ring.ready = 0
    BY <2>3 DEF Overflow
  <2>. QED BY <2>4, RingSizeAssumption DEF Stuck
<1>. QED BY <1>1, <1>2, <1>3, PTL DEF Spec, OfflineKeepsSettled

\* Without presents that wait for another one, giving up on the oldest present
\* works: a completion leaves no head that is stuck and too old.
THEOREM StuckHeadsGiveWay ==
    ASSUME "frame" \notin Deferrals
    PROVE  Spec => NoStaleHead
<1>1. HandOverInv /\ [Next]_vars =>
        [completed' # completed /\ ring' # ring => ~Stale(ring', start', completed')]_vars
  <2>. SUFFICES ASSUME HandOverInv, Next, completed' # completed, ring' # ring
                PROVE  ~Stale(ring', start', completed')
    BY DEF vars
  <2>1. CompletePresent
    BY DEF Next, Unblock, PresentStop, RemoveLostPresent, FlipFrameTypesOver,
           EndDeferral, DequeuePresentEvents
  <2>. QED BY <2>1, CompleteKeepsInv DEF CompleteSettles
<1>. QED BY <1>1, HandOverInvariant, PTL DEF Spec, NoStaleHead
====
