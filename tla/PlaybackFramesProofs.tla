---- MODULE PlaybackFramesProofs ----
(***************************************************************************)
(* Backpressured playback loses no frame that it need not lose: for every  *)
(* trace, size of the rings and number of clients.                         *)
(*                                                                         *)
(* The presents under way (the output thread's batch, then the completed   *)
(* ring) are in the order of their completion, and behind the frames that  *)
(* were pushed since their process is tracked.  A present only leaves that *)
(* line for the frame ring of its process, because it is skipped, or, being*)
(* deferred, off the head of a ring without ready presents: the ready count*)
(* stops only at a present that waits.                                     *)
(*                                                                         *)
(* The last does not hold of a trace with a lost present that is also      *)
(* frame-typed: CompletePresent merges, gives that present up and returns  *)
(* without counting the ready presents again.                              *)
(***************************************************************************)
EXTENDS PlaybackSessionProofs

Batched(b) == {b[i] : i \in 1 .. Len(b)}

\* The batch b and the ring r are in line for the present n that completes next.
InLine(b, r, n) ==
    /\ \A i, j \in 1 .. Len(b) : i < j => b[i] < b[j]
    /\ \A i, j \in 0 .. r.count - 1 : i < j => Entry(r, i) < Entry(r, j)
    /\ \A x \in Batched(b), y \in InRing(r) : x < y
    /\ \A x \in Batched(b) \cup InRing(r) : x < n

LEMMA LineSame ==
    ASSUME NEW b, NEW r, NEW s, NEW n, r.count \in Nat, InLine(b, r, n), SameEntries(r, s)
    PROVE  InLine(b, s, n) /\ InRing(s) = InRing(r)
<1>1. InRing(s) = InRing(r)
  BY DEF SameEntries, InRing
<1>2. \A i, j \in 0 .. s.count - 1 : i < j => Entry(s, i) < Entry(s, j)
  BY DEF SameEntries, InLine
<1> QED
  BY <1>1, <1>2 DEF InLine

LEMMA LineAdvances ==
    ASSUME NEW b \in Seq(Presents), NEW r, NEW n \in Nat, InRing(r) \subseteq Presents,
           InLine(b, r, n)
    PROVE  InLine(b, r, n + 1)
<1>1. Batched(b) \cup InRing(r) \subseteq Nat
  BY DEF Batched, Presents
<1>2. \A x \in Batched(b) \cup InRing(r) : x < n + 1
  BY <1>1 DEF InLine
<1> QED
  BY <1>2 DEF InLine

LEMMA LineAdded ==
    ASSUME NEW b \in Seq(Presents), NEW r, NEW s, NEW n \in Nat, r.count \in Nat,
           InRing(r) \subseteq Presents, InLine(b, r, n), Added(r, s, n)
    PROVE  InLine(b, s, n + 1) /\ InRing(s) = InRing(r) \cup {n}
<1>1. s.count = r.count + 1 /\ Entry(s, r.count) = n
      /\ \A i \in 0 .. r.count - 1 : Entry(s, i) = Entry(r, i)
  BY DEF Added
<1>2. \A i \in 0 .. s.count - 1 : i = r.count \/ i \in 0 .. r.count - 1
  BY <1>1
<1>3. InRing(s) = InRing(r) \cup {n}
  <2>1. \A i \in 0 .. r.count - 1 : i \in 0 .. s.count - 1
    BY <1>1
  <2>2. r.count \in 0 .. s.count - 1
    BY <1>1
  <2> QED
    BY <1>1, <1>2, <2>1, <2>2 DEF InRing
<1>4. \A i \in 0 .. r.count - 1 : Entry(r, i) < n
  BY DEF InLine, InRing
<1>5. \A i, j \in 0 .. s.count - 1 : i < j => Entry(s, i) < Entry(s, j)
  <2> SUFFICES ASSUME NEW i \in 0 .. s.count - 1, NEW j \in 0 .. s.count - 1, i < j
               PROVE  Entry(s, i) < Entry(s, j)
    OBVIOUS
  <2>1. i \in 0 .. r.count - 1
    BY <1>1
  <2>2. CASE j = r.count
    BY <1>1, <1>4, <2>1, <2>2
  <2>3. CASE j \in 0 .. r.count - 1
    BY <1>1, <2>1, <2>3 DEF InLine
  <2> QED
    BY <1>2, <2>2, <2>3
<1>6. Batched(b) \cup InRing(r) \subseteq Nat
  BY DEF Batched, Presents
<1>7. \A x \in Batched(b), y \in InRing(s) : x < y
  BY <1>3 DEF InLine
<1>8. \A x \in Batched(b) \cup InRing(s) : x < n + 1
  BY <1>3, <1>6 DEF InLine
<1> QED
  BY <1>3, <1>5, <1>7, <1>8 DEF InLine

LEMMA LineRolled ==
    ASSUME NEW b \in Seq(Presents), NEW r, NEW s, NEW n \in Nat, r.count \in Nat,
           InRing(r) \subseteq Presents, InLine(b, r, n), Rolled(r, s, n)
    PROVE  /\ InLine(b, s, n + 1)
           /\ InRing(s) \subseteq InRing(r) \cup {n} /\ n \in InRing(s)
           /\ InRing(r) \subseteq InRing(s) \cup {Entry(r, 0)}
<1>1. r.count >= 1 /\ s.count = r.count /\ Entry(s, r.count - 1) = n
      /\ \A i \in 0 .. r.count - 2 : Entry(s, i) = Entry(r, i + 1)
  BY DEF Rolled
<1>2. \A i \in 0 .. s.count - 1 :
        i = r.count - 1 \/ (i \in 0 .. r.count - 2 /\ i + 1 \in 0 .. r.count - 1)
  BY <1>1
<1>3. InRing(s) \subseteq InRing(r) \cup {n}
  BY <1>1, <1>2 DEF InRing
<1>4. n \in InRing(s)
  <2>1. r.count - 1 \in 0 .. s.count - 1
    BY <1>1
  <2> QED
    BY <1>1, <2>1 DEF InRing
<1>5. InRing(r) \subseteq InRing(s) \cup {Entry(r, 0)}
  <2> SUFFICES ASSUME NEW i \in 0 .. r.count - 1
               PROVE  Entry(r, i) \in InRing(s) \cup {Entry(r, 0)}
    BY DEF InRing
  <2>1. CASE i = 0
    BY <2>1
  <2>2. CASE i # 0
    <3>1. i - 1 \in 0 .. r.count - 2 /\ i - 1 \in 0 .. s.count - 1 /\ (i - 1) + 1 = i
      BY <1>1, <2>2
    <3>2. Entry(s, i - 1) = Entry(r, i)
      BY <1>1, <3>1
    <3> QED
      BY <3>1, <3>2 DEF InRing
  <2> QED
    BY <2>1, <2>2
<1>6. \A i \in 0 .. r.count - 1 : Entry(r, i) < n
  BY DEF InLine, InRing
<1>7. \A i, j \in 0 .. s.count - 1 : i < j => Entry(s, i) < Entry(s, j)
  <2> SUFFICES ASSUME NEW i \in 0 .. s.count - 1, NEW j \in 0 .. s.count - 1, i < j
               PROVE  Entry(s, i) < Entry(s, j)
    OBVIOUS
  <2>1. i \in 0 .. r.count - 2 /\ i + 1 \in 0 .. r.count - 1
    BY <1>1
  <2>2. CASE j = r.count - 1
    BY <1>1, <1>6, <2>1, <2>2
  <2>3. CASE j \in 0 .. r.count - 2 /\ j + 1 \in 0 .. r.count - 1
    <3>1. i + 1 < j + 1
      BY <2>1, <2>3
    <3>2. Entry(r, i + 1) < Entry(r, j + 1)
      BY <2>1, <2>3, <3>1 DEF InLine
    <3> QED
      BY <1>1, <2>1, <2>3, <3>2
  <2> QED
    BY <1>2, <2>2, <2>3
<1>8. Batched(b) \cup InRing(r) \subseteq Nat
  BY DEF Batched, Presents
<1>9. \A x \in Batched(b), y \in InRing(s) : x < y
  BY <1>3 DEF InLine
<1>10. \A x \in Batched(b) \cup InRing(s) : x < n + 1
  BY <1>3, <1>8 DEF InLine
<1> QED
  BY <1>3, <1>4, <1>5, <1>7, <1>9, <1>10 DEF InLine

LEMMA LineTaken ==
    ASSUME Stored, NEW n \in Nat, InLine(<<>>, ring, n)
    PROVE  /\ InLine(ReadyPresents, TakeReady(ring), n)
           /\ Batched(ReadyPresents) \cup InRing(TakeReady(ring)) = InRing(ring)
<1> DEFINE b == ReadyPresents
           s == TakeReady(ring)
<1>1. /\ b \in Seq(Presents) /\ Len(b) = ring.ready /\ ring.ready \in Nat
      /\ \A i \in 1 .. ring.ready : b[i] = Entry(ring, i - 1)
  BY ReadyPresentsIs
<1>2. /\ s.count = ring.count - ring.ready /\ s.ready = 0
      /\ \A i \in 0 .. s.count - 1 :
            /\ i + ring.ready \in 0 .. ring.count - 1
            /\ Entry(s, i) = Entry(ring, i + ring.ready)
  BY TakenIs
<1>3. ring.count \in Nat /\ ring.ready <= ring.count
  BY RingCounts DEF Stored
<1> HIDE DEF b, s
<1>4. \A i \in 1 .. Len(b) : i - 1 \in 0 .. ring.count - 1 /\ i \in 1 .. ring.ready
  BY <1>1, <1>3
<1>5. Batched(b) \cup InRing(s) = InRing(ring)
  <2>1. Batched(b) \cup InRing(s) \subseteq InRing(ring)
    BY <1>1, <1>2, <1>4 DEF Batched, InRing
  <2>2. ASSUME NEW i \in 0 .. ring.count - 1
        PROVE  Entry(ring, i) \in Batched(b) \cup InRing(s)
    <3>1. CASE i < ring.ready
      <4>1. i + 1 \in 1 .. Len(b) /\ i + 1 \in 1 .. ring.ready /\ (i + 1) - 1 = i
        BY <1>1, <3>1
      <4>2. b[i + 1] = Entry(ring, i)
        BY <1>1, <4>1
      <4> QED
        BY <4>1, <4>2 DEF Batched
    <3>2. CASE i >= ring.ready
      <4>1. i - ring.ready \in 0 .. s.count - 1 /\ (i - ring.ready) + ring.ready = i
        BY <1>1, <1>2, <1>3, <3>2
      <4>2. Entry(s, i - ring.ready) = Entry(ring, i)
        BY <1>2, <4>1
      <4> QED
        BY <4>1, <4>2 DEF InRing
    <3> QED
      BY <1>1, <3>1, <3>2
  <2> QED
    BY <2>1, <2>2 DEF InRing
<1>6. \A i, j \in 1 .. Len(b) : i < j => b[i] < b[j]
  <2> SUFFICES ASSUME NEW i \in 1 .. Len(b), NEW j \in 1 .. Len(b), i < j PROVE b[i] < b[j]
    OBVIOUS
  <2>1. i - 1 < j - 1
    BY <1>1
  <2>2. Entry(ring, i - 1) < Entry(ring, j - 1)
    BY <1>4, <2>1 DEF InLine
  <2> QED
    BY <1>1, <1>4, <2>2
<1>7. \A i, j \in 0 .. s.count - 1 : i < j => Entry(s, i) < Entry(s, j)
  <2> SUFFICES ASSUME NEW i \in 0 .. s.count - 1, NEW j \in 0 .. s.count - 1, i < j
               PROVE  Entry(s, i) < Entry(s, j)
    OBVIOUS
  <2>1. i + ring.ready < j + ring.ready
    BY <1>1
  <2>2. Entry(ring, i + ring.ready) < Entry(ring, j + ring.ready)
    BY <1>2, <2>1 DEF InLine
  <2> QED
    BY <1>2, <2>2
<1>8. ASSUME NEW i \in 1 .. Len(b), NEW j \in 0 .. s.count - 1 PROVE b[i] < Entry(s, j)
  <2>1. i - 1 < j + ring.ready
    BY <1>1, <1>4
  <2>2. Entry(ring, i - 1) < Entry(ring, j + ring.ready)
    BY <1>2, <1>4, <2>1 DEF InLine
  <2> QED
    BY <1>1, <1>2, <1>4, <2>2
<1>9. \A x \in Batched(b) \cup InRing(s) : x < n
  BY <1>5 DEF InLine
<1>10. \A x \in Batched(b), y \in InRing(s) : x < y
  BY <1>8 DEF Batched, InRing
<1>11. InLine(b, s, n)
  BY <1>6, <1>7, <1>9, <1>10 DEF InLine
<1> QED
  BY <1>5, <1>11 DEF b, s

LEMMA TailBatched ==
    ASSUME NEW b \in Seq(Presents), b # <<>>
    PROVE  /\ Tail(b) \in Seq(Presents) /\ Head(b) = b[1] /\ Head(b) \in Presents
           /\ Len(b) \in Nat /\ Len(b) >= 1 /\ Len(Tail(b)) = Len(b) - 1
           /\ \A i \in 1 .. Len(Tail(b)) : i + 1 \in 1 .. Len(b) /\ Tail(b)[i] = b[i + 1]
           /\ Batched(b) = Batched(Tail(b)) \cup {Head(b)}
<1>1. /\ Tail(b) \in Seq(Presents) /\ Head(b) = b[1] /\ Head(b) \in Presents
      /\ Len(b) \in Nat /\ Len(b) >= 1 /\ Len(Tail(b)) = Len(b) - 1
  OBVIOUS
<1>2. \A i \in 1 .. Len(Tail(b)) : i + 1 \in 1 .. Len(b) /\ Tail(b)[i] = b[i + 1]
  BY <1>1
<1>3. ASSUME NEW i \in 1 .. Len(b) PROVE b[i] \in Batched(Tail(b)) \cup {Head(b)}
  <2>1. CASE i = 1
    BY <1>1, <2>1
  <2>2. CASE i # 1
    <3>1. i - 1 \in 1 .. Len(Tail(b)) /\ (i - 1) + 1 = i
      BY <1>1, <2>2
    <3> QED
      BY <1>2, <3>1 DEF Batched
  <2> QED
    BY <2>1, <2>2
<1>4. Batched(Tail(b)) \cup {Head(b)} \subseteq Batched(b)
  <2>1. 1 \in 1 .. Len(b)
    BY <1>1
  <2> QED
    BY <1>1, <1>2, <2>1 DEF Batched
<1>5. Batched(b) \subseteq Batched(Tail(b)) \cup {Head(b)}
  BY <1>3 DEF Batched
<1> QED
  BY <1>1, <1>2, <1>4, <1>5

LEMMA LineTail ==
    ASSUME NEW b \in Seq(Presents), b # <<>>, NEW r, NEW n, InLine(b, r, n)
    PROVE  /\ InLine(Tail(b), r, n)
           /\ Head(b) < n /\ \A x \in Batched(Tail(b)) \cup InRing(r) : Head(b) < x
<1> DEFINE t == Tail(b)
<1>1. /\ t \in Seq(Presents) /\ Head(b) = b[1] /\ Head(b) \in Presents
      /\ Len(b) \in Nat /\ Len(b) >= 1 /\ Len(t) = Len(b) - 1
      /\ \A i \in 1 .. Len(t) : i + 1 \in 1 .. Len(b) /\ t[i] = b[i + 1]
      /\ Batched(b) = Batched(t) \cup {Head(b)}
  BY TailBatched
<1> HIDE DEF t
<1>2. \A i, j \in 1 .. Len(t) : i < j => t[i] < t[j]
  <2> SUFFICES ASSUME NEW i \in 1 .. Len(t), NEW j \in 1 .. Len(t), i < j PROVE t[i] < t[j]
    OBVIOUS
  <2>1. i + 1 < j + 1
    BY <1>1
  <2>2. b[i + 1] < b[j + 1]
    BY <1>1, <2>1 DEF InLine
  <2> QED
    BY <1>1, <2>2
<1>3. \A i \in 1 .. Len(t) : Head(b) < t[i]
  <2> SUFFICES ASSUME NEW i \in 1 .. Len(t) PROVE Head(b) < t[i]
    OBVIOUS
  <2>1. 1 < i + 1 /\ 1 \in 1 .. Len(b)
    BY <1>1
  <2>2. b[1] < b[i + 1]
    BY <1>1, <2>1 DEF InLine
  <2> QED
    BY <1>1, <2>2
<1>4. InLine(t, r, n)
  BY <1>1, <1>2 DEF InLine
<1>5. Head(b) < n /\ \A y \in InRing(r) : Head(b) < y
  BY <1>1 DEF InLine
<1> QED
  BY <1>3, <1>4, <1>5 DEF Batched, t

----
\* The frames of segment s since process p is tracked, with the presents U under way,
\* X excused and n to complete next: in order, before those under way, without gaps.
FramesOf(s, p, U, X, n) ==
    /\ \A i, j \in Fresh(s) : i < j => s.written[i] < s.written[j]
    /\ \A i \in Fresh(s) : s.written[i] < n /\ \A k \in U : s.written[i] < k
    /\ \A k \in s.from .. n - 1 :
         Trace[k].pid = p => (\E i \in Fresh(s) : s.written[i] = k) \/ k \in U \cup X

LEMMA FramesMoved ==
    ASSUME NEW s \in Segments, NEW r, SameFrames(s, r), NEW p,
           NEW U, NEW X, NEW n \in Nat, FramesOf(s, p, U, X, n),
           NEW V \in SUBSET Int, NEW Y, NEW m, X \subseteq Y,
           \A k \in V : k \in U \/ k >= n,
           \A k \in U : k \in V \cup Y \/ Trace[k].pid # p,
           m = n \/ (m = n + 1 /\ n \in V \cup Y)
    PROVE  FramesOf(r, p, V, Y, m)
<1>1. Fresh(r) = Fresh(s) /\ r.written = s.written /\ r.from = s.from
  BY DEF SameFrames, Fresh
<1>2. \A i \in Fresh(s) : s.written[i] \in Nat
  BY SegmentFields DEF Fresh, Presents
<1>3. \A i \in Fresh(s) : s.written[i] < m /\ \A k \in V : s.written[i] < k
  BY <1>2 DEF FramesOf
<1>4. \A k \in s.from .. m - 1 : k \in s.from .. n - 1 \/ (k = n /\ n \in V \cup Y)
  BY SegmentFields
<1>5. \A k \in s.from .. m - 1 :
        Trace[k].pid = p => (\E i \in Fresh(s) : s.written[i] = k) \/ k \in V \cup Y
  BY <1>4 DEF FramesOf
<1>6. \A i, j \in Fresh(s) : i < j => s.written[i] < s.written[j]
  BY DEF FramesOf
<1> QED
  BY <1>1, <1>3, <1>5, <1>6 DEF FramesOf

\* A ring without frames of this session
LEMMA FramesNone ==
    ASSUME NEW r, NEW n \in Nat, r.since = Len(r.written), Len(r.written) \in Nat, r.from = n,
           NEW p, NEW U, NEW X
    PROVE  FramesOf(r, p, U, X, n)
BY DEF FramesOf, Fresh

LEMMA FramesPushed ==
    ASSUME NEW s \in Segments, s.since <= Len(s.written), NEW r, NEW h \in Presents,
           r.written = Append(s.written, h), r.since = s.since, r.from = s.from,
           NEW p, NEW U, NEW X, NEW n \in Nat, FramesOf(s, p, U, X, n),
           h \in U, h < n, NEW V, V \subseteq U, U \subseteq V \cup {h},
           \A k \in V : h < k
    PROVE  FramesOf(r, p, V, X, n)
<1> DEFINE l == Len(s.written)
<1>1. l \in Nat /\ s.written \in Seq(Presents) /\ s.since \in Nat /\ s.since <= l
  BY SegmentFields
<1>2. /\ Len(r.written) = l + 1 /\ r.written[l + 1] = h
      /\ \A i \in 1 .. l : r.written[i] = s.written[i]
  BY <1>1
<1> HIDE DEF l
<1>3. /\ l + 1 \in Fresh(r)
      /\ \A i \in Fresh(r) : i = l + 1 \/ (i \in Fresh(s) /\ i \in 1 .. l /\ i < l + 1)
      /\ \A i \in Fresh(s) : i \in Fresh(r) /\ i \in 1 .. l
  BY <1>1, <1>2 DEF Fresh, l
<1>4. \A i \in Fresh(s) : s.written[i] < h
  BY DEF FramesOf
<1>5. \A i, j \in Fresh(r) : i < j => r.written[i] < r.written[j]
  <2> SUFFICES ASSUME NEW i \in Fresh(r), NEW j \in Fresh(r), i < j
               PROVE  r.written[i] < r.written[j]
    OBVIOUS
  <2>1. i \in Fresh(s) /\ i \in 1 .. l
    <3>1. i # l + 1
      BY <1>1, <1>3
    <3> QED
      BY <1>3, <3>1
  <2>2. CASE j = l + 1
    BY <1>2, <1>4, <2>1, <2>2
  <2>3. CASE j \in Fresh(s) /\ j \in 1 .. l
    BY <1>2, <2>1, <2>3 DEF FramesOf
  <2> QED
    BY <1>3, <2>2, <2>3
<1>6. \A i \in Fresh(r) : r.written[i] < n /\ \A k \in V : r.written[i] < k
  <2> SUFFICES ASSUME NEW i \in Fresh(r)
               PROVE  r.written[i] < n /\ \A k \in V : r.written[i] < k
    OBVIOUS
  <2>1. CASE i = l + 1
    BY <1>2, <2>1
  <2>2. CASE i \in Fresh(s) /\ i \in 1 .. l
    BY <1>2, <2>2 DEF FramesOf
  <2> QED
    BY <1>3, <2>1, <2>2
<1>7. ASSUME NEW k \in r.from .. n - 1, Trace[k].pid = p
      PROVE  (\E i \in Fresh(r) : r.written[i] = k) \/ k \in V \cup X
  <2>1. CASE k = h
    BY <1>2, <1>3, <2>1
  <2>2. CASE k # h
    BY <1>2, <1>3, <1>7, <2>2 DEF FramesOf
  <2> QED
    BY <2>1, <2>2
<1> QED
  BY <1>5, <1>6, <1>7 DEF FramesOf

----
\* The line of presents.

\* DequeueAnalyzedInfo fills presentEvents, which AddPresents empties again.
BatchPlace == output.pc \notin {"add", "push"} => output.batch = <<>>

\* The presents that are to come do not wait and are not lost yet.
FutureClean ==
    \A q \in Presents :
        q > analysis.next \/ (q = analysis.next /\ analysis.pc # "blocked") =>
            waits[q] = {} /\ q \notin lost

LineInv ==
    /\ BatchPlace
    /\ InLine(output.batch, ring, analysis.next)
    /\ analysis.pc = "events" => Stuck(ring, waits)
    /\ pc.action = "startConsumer" => ring.count = 0 /\ ring.ready = 0
    /\ FutureClean

\* A step that leaves the line alone
Quiet ==
    /\ UNCHANGED <<consumerVars, consumer>>
    /\ analysis'.next = analysis.next
    /\ analysis'.pc = "events" => analysis.pc = "events" \/ pc.action = "startConsumer"
    /\ analysis.pc = "blocked" => analysis'.pc = "blocked"
    /\ output'.batch = output.batch
    /\ output'.pc = "push" <=> output.pc = "push"
    /\ BatchPlace'
    /\ pc'.action = "startConsumer" => pc.action = "startConsumer"
    /\ closing => closing'

LEMMA QuietSteps ==
    ASSUME SessionInv, BatchPlace, [Next]_vars
    PROVE  \/ CompletionStep \/ DequeuePresentEvents \/ AddPresent \/ Broadcast
           \/ StartTraceSession \/ (\E t \in {"action", "main"} : CleanUp(t))
           \/ Quiet
<1> USE DEF SessionInv, Shape, StopInv, StopPlaces, Stopping, StopperInv, Starting, BatchPlace,
            Goto, sessionVars, threadVars, trackVars, stopVars, consumerVars, Quiet
<1>1. CASE UpdateTracking
  <2>1. CASE Snapshot
    BY <2>1 DEF Snapshot
  <2>6. CASE SyncTrackedPidState
    BY <2>6 DEF SyncTrackedPidState
  <2>5. CASE Decide
    BY <2>5 DEF Decide
  <2>2. CASE StartFails \/ FinishStart \/ FinishStop
    BY <2>2 DEF StartFails, FinishStart, FinishStop
  <2>3. CASE StartConsumerThread
    BY <2>3 DEF StartConsumerThread
  <2>4. CASE StartOutputThread
    BY <2>4 DEF StartOutputThread
  <2> QED
    BY <1>1, <2>1, <2>2, <2>3, <2>4, <2>5, <2>6 DEF UpdateTracking
<1>2. ASSUME NEW t \in {"action", "main"}, StopTraceSession(t) PROVE Quiet \/ CleanUp(t)
  <2>1. CASE StopBegins(t) \/ CloseTrace(t) \/ StopOutputThread(t)
    BY <1>2, <2>1 DEF StopBegins, CloseTrace, StopOutputThread
  <2>2. CASE WaitForConsumerThreadToExit(t)
    BY <1>2, <2>2 DEF WaitForConsumerThreadToExit
  <2>3. CASE JoinOutput(t)
    BY <1>2, <2>3 DEF JoinOutput
  <2> QED
    BY <1>2, <2>1, <2>2, <2>3 DEF StopTraceSession
<1>3. CASE ReleaseBackpressure \/ CheckTraceSessions \/ MainReturns \/ DestroyPresentMon
  BY <1>3 DEF ReleaseBackpressure, CheckTraceSessions, MainReturns, DestroyPresentMon
<1>4. CASE ProcessTraceReturns
  BY <1>4 DEF ProcessTraceReturns
<1>5. CASE ReadQuit \/ CheckActive \/ EndRound
  BY <1>5 DEF ReadQuit, CheckActive, EndRound
<1>6. CASE Report \/ StopPlayback \/ StopTraceSessions
  BY <1>6 DEF Report, ReportFrameReadProgress, StopPlayback, StopTraceSessions
<1>7. ASSUME NEW c, NEW p, NEW bp, StartTracking(c, p, bp) PROVE Quiet
  BY <1>7 DEF StartTracking, Call
<1>8. ASSUME NEW c, NEW ps, BeginRelease(c, ps) PROVE Quiet
  BY <1>8 DEF BeginRelease, Call
<1>9. CASE UNCHANGED vars
  BY <1>9 DEF vars
<1> HIDE DEF Quiet
<1> QED
  BY <1>1, <1>2, <1>3, <1>4, <1>5, <1>6, <1>7, <1>8, <1>9
     DEF Next, Action, Main, Analysis, CompletionStep, Output, ClientCall, StopTracking, Dispose

\* The steps that may add to the tracked processes
LEMMA TrackedSteps ==
    [Next]_vars => tracked' \subseteq tracked \/ SyncTrackedPidState \/ StartFails
<1> SUFFICES ASSUME [Next]_vars
             PROVE  tracked' \subseteq tracked \/ SyncTrackedPidState \/ StartFails
  OBVIOUS
<1> USE DEF sessionVars, threadVars, trackVars, stopVars
<1>1. CASE UpdateTracking
  <2>1. CASE Snapshot \/ Decide
    BY <2>1 DEF Snapshot, Decide
  <2>2. CASE StartTraceSession \/ StartConsumerThread \/ StartOutputThread
    BY <2>2 DEF StartTraceSession, OpenSession, StartConsumerThread, StartOutputThread
  <2>3. CASE FinishStart \/ FinishStop
    BY <2>3 DEF FinishStart, FinishStop
  <2> QED
    BY <1>1, <2>1, <2>2, <2>3 DEF UpdateTracking
<1>2. ASSUME NEW t, StopTraceSession(t) PROVE UNCHANGED tracked
  BY <1>2 DEF StopTraceSession, StopBegins, CloseTrace, WaitForConsumerThreadToExit,
     StopOutputThread, JoinOutput, CleanUp
<1>3. CASE ReleaseBackpressure \/ CheckTraceSessions \/ DestroyPresentMon
  BY <1>3 DEF ReleaseBackpressure, CheckTraceSessions, DestroyPresentMon
<1>8. CASE MainReturns
  BY <1>8 DEF MainReturns
<1>4. CASE Analysis
  BY <1>4, CompletionIs DEF Analysis, CompletionStep, ProcessTraceReturns
<1>5. CASE Output \/ Report
  BY <1>5 DEF Output, ReadQuit, CheckActive, DequeuePresentEvents, AddPresent, Broadcast,
     EndRound, Report, ReportFrameReadProgress
<1>6. CASE ClientCall
  BY <1>6 DEF ClientCall, StartTracking, StopTracking, Dispose, BeginRelease, StopPlayback,
     StopTraceSessions
<1>7. CASE UNCHANGED vars
  BY <1>7 DEF vars
<1> QED
  BY <1>1, <1>2, <1>3, <1>4, <1>5, <1>6, <1>7, <1>8 DEF Next, Action, Main

LEMMA LineFacts ==
    ASSUME Queued, Stored
    PROVE  /\ output.batch \in Seq(Presents) /\ analysis.next \in Nat /\ ring.count \in Nat
           /\ InRing(ring) \subseteq Presents
<1>1. output.batch \in Seq(Presents) /\ analysis.next \in Nat
  BY LenTrace DEF Queued
<1>2. ring.count \in Nat
  BY RingCounts DEF Stored
<1>3. InRing(ring) \subseteq Presents
  BY DEF Stored, InRing
<1> QED
  BY <1>1, <1>2, <1>3

\* A present that is refused was counted as ready when it came.
LostSettled == \A n \in Presents : Trace[n].lost => Trace[n].waits = {}

LEMMA CompletionMoves ==
    ASSUME Shape, Queued, Stored, LineInv, StoreFacts
    PROVE  /\ InLine(output.batch, ring', analysis'.next)
           /\ \A k \in InRing(ring') : k \in InRing(ring) \/ k = analysis.next
           /\ \A k \in InRing(ring) : k \in InRing(ring') \cup lost' \cup gaveUp'
           /\ gaveUp \subseteq gaveUp'
           /\ \/ analysis'.next = analysis.next
              \/ /\ analysis'.next = analysis.next + 1
                 /\ analysis.next \in InRing(ring') \cup lost'
<1> DEFINE b == output.batch
           n == analysis.next
<1>1. /\ b \in Seq(Presents) /\ n \in Nat /\ ring.count \in Nat
      /\ InRing(ring) \subseteq Presents /\ InLine(b, ring, n)
  BY LineFacts DEF LineInv
<1> HIDE DEF b
<1>2. CASE /\ analysis' = analysis /\ analysis.pc = "events"
           /\ SameEntries(ring, ring') /\ Stuck(ring', waits') /\ gaveUp' = gaveUp
  <2>1. InLine(b, ring', n) /\ InRing(ring') = InRing(ring)
    <3> HIDE DEF n
    <3> QED
      BY <1>1, <1>2, LineSame
  <2> QED
    BY <1>2, <2>1 DEF b
<1>3. CASE /\ analysis.pc = "events" /\ analysis' = [analysis EXCEPT !.pc = "blocked"]
           /\ ring' = ring /\ gaveUp' = gaveUp
  <2>1. analysis'.next = n
    BY <1>3 DEF Shape
  <2> QED
    BY <1>1, <1>3, <2>1 DEF b
<1>4. CASE /\ Advanced /\ ring' = ring /\ gaveUp' = gaveUp /\ n \in lost'
  <2>1. InLine(b, ring, n + 1)
    <3> HIDE DEF n
    <3> QED
      BY <1>1, LineAdvances
  <2> QED
    BY <1>4, <2>1 DEF Advanced, b
<1>5. CASE Advanced /\ Added(ring, ring', n) /\ gaveUp' = gaveUp
  <2>1. InLine(b, ring', n + 1) /\ InRing(ring') = InRing(ring) \cup {n}
    <3> HIDE DEF n
    <3> QED
      BY <1>1, <1>5, LineAdded
  <2> QED
    BY <1>5, <2>1 DEF Advanced, b
<1>6. CASE /\ Advanced /\ Rolled(ring, ring', n) /\ analysis.pc = "events" /\ ring.ready = 0
           /\ gaveUp \subseteq gaveUp'
           /\ waits[Entry(ring, 0)] # {} => Entry(ring, 0) \in gaveUp'
  <2>1. /\ InLine(b, ring', n + 1)
        /\ InRing(ring') \subseteq InRing(ring) \cup {n} /\ n \in InRing(ring')
        /\ InRing(ring) \subseteq InRing(ring') \cup {Entry(ring, 0)}
    <3> HIDE DEF n
    <3> QED
      BY <1>1, <1>6, LineRolled
  <2>2. waits[Entry(ring, 0)] # {}
    <3>1. Stuck(ring, waits) /\ ring.count >= 1
      BY <1>6 DEF LineInv, Rolled
    <3> QED
      BY <1>1, <1>6, <3>1 DEF Stuck
  <2> QED
    BY <1>6, <2>1, <2>2 DEF Advanced, b
<1> QED
  BY <1>2, <1>3, <1>4, <1>5, <1>6 DEF StoreFacts, StoreStep

LEMMA CompletionLine ==
    ASSUME LostSettled, SessionInv, Queued, Stored, LineInv, CompletionStep
    PROVE  LineInv'
<1>1. StoreFacts
  BY CompletionStores
<1>2. Shape
  BY DEF SessionInv
<1>3. /\ InLine(output.batch, ring', analysis'.next)
      /\ UNCHANGED <<output, pc>> /\ analysis.pc \in {"events", "blocked"}
  BY <1>1, <1>2, CompletionMoves, CompletionIs
<1>4. BatchPlace' /\ InLine(output.batch, ring, analysis.next)'
  BY <1>3 DEF LineInv, BatchPlace
<1>5. pc'.action # "startConsumer"
  BY <1>3 DEF SessionInv, StopInv
<1>6. \A q \in InRing(ring) : q < analysis.next
  BY DEF LineInv, InLine
<1>7. analysis.next \in Nat /\ InRing(ring) \subseteq Presents
  BY LineFacts
<1>8. analysis'.pc = "events" => Stuck(ring', waits')
  <2>1. CASE /\ ring' = ring /\ analysis.pc = "events" /\ analysis.next \in lost'
             /\ analysis.next \in lost \/ Trace[analysis.next].lost
             /\ Trace[analysis.next].waits = {} =>
                  \A q \in Presents : q # analysis.next => waits'[q] = waits[q]
    <3>1. CASE analysis.next \in Presents
      <4>1. analysis.next \notin lost
        BY <2>1, <3>1 DEF LineInv, FutureClean
      <4>2. \A q \in Presents : q # analysis.next => waits'[q] = waits[q]
        BY <2>1, <3>1, <4>1 DEF LostSettled
      <4>3. ring.ready = ring.count \/ waits[Entry(ring, ring.ready)] # {}
        BY <2>1 DEF LineInv, Stuck
      <4>4. ring.ready # ring.count =>
              Entry(ring, ring.ready) \in Presents /\ Entry(ring, ring.ready) # analysis.next
        <5>1. ring.ready # ring.count => ring.ready \in 0 .. ring.count - 1
          BY RingCounts DEF Stored
        <5> QED
          BY <1>6, <1>7, <5>1 DEF InRing
      <4> QED
        BY <2>1, <4>2, <4>3, <4>4 DEF Stuck
    <3>2. CASE analysis.next \notin Presents
      BY <1>1, <2>1, <3>2 DEF StoreFacts, Stored
    <3> QED
      BY <3>1, <3>2
  <2>2. CASE Stuck(ring', waits')
    BY <2>2
  <2>3. CASE analysis' = [analysis EXCEPT !.pc = "blocked"]
    BY <1>2, <2>3 DEF Shape
  <2> QED
    BY <1>1, <2>1, <2>2, <2>3 DEF StoreFacts, StoreStep
<1>9. FutureClean'
  <2> SUFFICES ASSUME NEW q \in Presents,
                      q > analysis'.next \/ (q = analysis'.next /\ analysis'.pc # "blocked")
               PROVE  waits'[q] = {} /\ q \notin lost'
    BY DEF FutureClean
  <2>1. \/ analysis' = analysis
        \/ analysis'.pc = "blocked" /\ analysis'.next = analysis.next
        \/ analysis'.next = analysis.next + 1
    BY <1>2, CompletionIs DEF Shape
  <2>2. q \in Nat
    BY DEF Presents
  <2>3. /\ q > analysis.next \/ (q = analysis.next /\ analysis.pc # "blocked")
        /\ q = analysis.next => analysis' = analysis
    BY <1>7, <2>1, <2>2
  <2>4. q \notin InRing(ring) /\ waits[q] = {} /\ q \notin lost
    BY <1>6, <1>7, <2>2, <2>3 DEF LineInv, FutureClean
  <2> QED
    BY <1>1, <2>3, <2>4 DEF StoreFacts, Untouched
<1> QED
  BY <1>4, <1>5, <1>8, <1>9 DEF LineInv

LEMMA TakenLine ==
    ASSUME SessionInv, Queued, Stored, LineInv, DequeuePresentEvents
    PROVE  LineInv' /\ InRing(ring) = Batched(output'.batch) \cup InRing(ring')
           /\ output.batch = <<>>
<1>1. /\ output.pc = "take" /\ output'.pc = "add" /\ output'.batch = ReadyPresents
      /\ ring' = TakeReady(ring) /\ UNCHANGED <<waits, lost, analysis, pc>>
  BY DEF DequeuePresentEvents, SessionInv, Shape
<1>2. output.batch = <<>>
  BY <1>1 DEF LineInv, BatchPlace
<1>3. /\ InLine(ReadyPresents, TakeReady(ring), analysis.next)
      /\ Batched(ReadyPresents) \cup InRing(TakeReady(ring)) = InRing(ring)
  <2>1. analysis.next \in Nat /\ InLine(<<>>, ring, analysis.next)
    BY <1>2, LineFacts DEF LineInv
  <2> QED
    BY <2>1, LineTaken
<1>4. InLine(output.batch, ring, analysis.next)'
  BY <1>1, <1>3
<1>5. analysis'.pc = "events" => Stuck(ring', waits')
  <2>1. /\ ring'.count = ring.count - ring.ready /\ ring'.ready = 0
        /\ \A i \in 0 .. ring'.count - 1 : Entry(ring', i) = Entry(ring, i + ring.ready)
    BY <1>1, TakenIs
  <2>2. ring.count \in Nat /\ ring.ready \in Nat /\ ring.ready <= ring.count
    BY RingCounts DEF Stored
  <2>3. CASE ring.ready = ring.count
    BY <2>1, <2>2, <2>3 DEF Stuck
  <2>4. CASE ring.ready # ring.count
    <3>1. 0 \in 0 .. ring'.count - 1 /\ 0 + ring.ready = ring.ready
      BY <2>1, <2>2, <2>4
    <3>2. Entry(ring', 0) = Entry(ring, ring.ready)
      BY <2>1, <3>1
    <3> QED
      BY <1>1, <2>1, <2>4, <3>2 DEF LineInv, Stuck
  <2> QED
    BY <2>3, <2>4
<1>6. pc'.action # "startConsumer"
  BY <1>1 DEF SessionInv, StopInv, Starting
<1>7. FutureClean'
  BY <1>1 DEF LineInv, FutureClean
<1>8. BatchPlace'
  BY <1>1 DEF BatchPlace
<1> QED
  BY <1>1, <1>2, <1>3, <1>4, <1>5, <1>6, <1>7, <1>8 DEF LineInv

LEMMA TailLine ==
    ASSUME Queued, LineInv, output.batch # <<>>, output'.pc = "add",
           output'.batch = Tail(output.batch), UNCHANGED <<ring, waits, lost, analysis, pc>>
    PROVE  LineInv'
<1>1. InLine(output.batch, ring, analysis.next)'
  <2>1. InLine(Tail(output.batch), ring, analysis.next)
    BY LineTail DEF LineInv, Queued
  <2> QED
    BY <2>1
<1>2. BatchPlace'
  BY DEF BatchPlace
<1>3. FutureClean'
  BY DEF LineInv, FutureClean
<1> QED
  BY <1>1, <1>2, <1>3 DEF LineInv

\* No present is in line when a session begins or is cleaned up.
LEMMA ResetLine ==
    ASSUME LineInv, output.pc = "none", ResetConsumer, output' = output
    PROVE  LineInv' /\ output'.batch = <<>> /\ InRing(ring') = {}
<1>1. ring'.count = 0 /\ ring'.ready = 0 /\ waits' = [n \in Presents |-> {}] /\ lost' = {}
  BY ResetStores DEF ResetConsumer
<1>2. output'.batch = <<>> /\ BatchPlace'
  BY DEF LineInv, BatchPlace
<1>3. InRing(ring') = {} /\ Batched(<<>>) = {}
  BY <1>1 DEF InRing, Batched
<1>4. InLine(output.batch, ring, analysis.next)'
  BY <1>1, <1>2, <1>3 DEF InLine
<1>5. Stuck(ring', waits') /\ FutureClean'
  BY <1>1 DEF Stuck, FutureClean
<1> QED
  BY <1>1, <1>2, <1>3, <1>4, <1>5 DEF LineInv

LEMMA LineNext ==
    ASSUME LostSettled, SessionInv, Queued, Stored, LineInv, [Next]_vars
    PROVE  LineInv'
<1>1. CASE CompletionStep
  BY <1>1, CompletionLine
<1>2. CASE DequeuePresentEvents
  BY <1>2, TakenLine
<1>3. CASE AddPresent
  <2>1. output.pc = "add" /\ output.batch # <<>> /\ UNCHANGED <<ring, waits, lost, analysis, pc>>
    BY <1>3 DEF AddPresent, sessionVars, consumerVars
  <2>2. CASE output' = [output EXCEPT !.pc = "push"]
    <3>1. output'.pc = "push" /\ output'.batch = output.batch
      BY <2>2 DEF SessionInv, Shape
    <3> QED
      BY <2>1, <3>1 DEF LineInv, BatchPlace, FutureClean
  <2>3. CASE output' = [output EXCEPT !.batch = Tail(@)]
    <3>1. output'.pc = "add" /\ output'.batch = Tail(output.batch)
      BY <2>1, <2>3 DEF SessionInv, Shape
    <3> QED
      BY <2>1, <3>1, TailLine
  <2> QED
    BY <1>3, <2>2, <2>3 DEF AddPresent
<1>4. CASE Broadcast
  <2>1. output.batch # <<>> /\ UNCHANGED <<ring, waits, lost, analysis, pc>>
    BY <1>4 DEF Broadcast, Queued, sessionVars, consumerVars
  <2>2. output'.pc = "add" /\ output'.batch = Tail(output.batch)
    BY <1>4 DEF Broadcast, SessionInv, Shape
  <2> QED
    BY <2>1, <2>2, TailLine
<1>5. CASE StartTraceSession
  <2>1. ResetConsumer /\ output' = output /\ output.pc = "none"
    BY <1>5 DEF StartTraceSession, OpenSession, SessionInv, StopInv
  <2> QED
    BY <2>1, ResetLine
<1>6. ASSUME NEW t \in {"action", "main"}, CleanUp(t) PROVE LineInv'
  <2>1. ResetConsumer /\ output' = output /\ output.pc = "none"
    BY <1>6 DEF CleanUp, threadVars, SessionInv, StopInv, StopperInv
  <2> QED
    BY <2>1, ResetLine
<1>7. CASE Quiet
  <2>1. UNCHANGED <<ring, waits, lost>> /\ analysis'.next = analysis.next
        /\ output'.batch = output.batch
    BY <1>7 DEF Quiet, consumerVars
  <2>2. InLine(output.batch, ring, analysis.next)'
    BY <2>1 DEF LineInv
  <2>3. analysis'.pc = "events" => Stuck(ring', waits')
    BY <1>7, <2>1 DEF Quiet, LineInv, Stuck
  <2>4. FutureClean'
    BY <1>7, <2>1 DEF Quiet, LineInv, FutureClean
  <2> QED
    BY <1>7, <2>1, <2>2, <2>3, <2>4 DEF Quiet, LineInv
<1> QED
  BY <1>1, <1>2, <1>3, <1>4, <1>5, <1>6, <1>7, QuietSteps DEF LineInv

----
\* The frames of the tracked processes.

SegmentShape ==
    \A p \in Pids : /\ segment[p].since <= Len(segment[p].written)
                    /\ segment[p].backpressured => segment[p].exists

LEMMA SegmentShapeNext ==
    ASSUME Rings, Serials, Queued, SegmentShape, [Next]_vars PROVE SegmentShape'
<1> SUFFICES ASSUME NEW p \in Pids
             PROVE  /\ segment'[p].since <= Len(segment'[p].written)
                    /\ segment'[p].backpressured => segment'[p].exists
  BY DEF SegmentShape
<1>1. /\ segment[p].since <= Len(segment[p].written)
      /\ segment[p].backpressured => segment[p].exists
      /\ segment[p] \in Segments
  BY DEF SegmentShape, Rings
<1>2. NoSegment.since <= Len(NoSegment.written) /\ ~NoSegment.backpressured
  BY NoSegmentFields
<1>3. CASE SameFrames(segment[p], segment'[p])
  BY <1>1, <1>3 DEF SameFrames
<1>4. CASE segment'[p] = NoSegment
  BY <1>2, <1>4
<1>5. ASSUME NEW n, FreshFrom(segment[p], segment'[p], n)
      PROVE  /\ segment'[p].since <= Len(segment'[p].written)
             /\ segment'[p].backpressured => segment'[p].exists
  BY <1>1, <1>5, SegmentFields DEF FreshFrom
<1>6. segment'[p] = segment[p] => SameFrames(segment[p], segment'[p])
  BY DEF SameFrames
<1>7. ASSUME NEW c \in Clients, NEW q \in Pids, NEW bp \in BOOLEAN, StartTracking(c, q, bp)
      PROVE  /\ segment'[p].since <= Len(segment'[p].written)
             /\ segment'[p].backpressured => segment'[p].exists
  <2>1. segment'[p] = segment[p] \/ segment'[p] = NewSegment(bp)
    BY <1>7, StartTrackingRings
  <2>2. NewSegment(bp).since <= Len(NewSegment(bp).written) /\ NewSegment(bp).exists
    <3>1. analysis.next \in Nat
      BY LenTrace DEF Queued
    <3>2. NewSegment(bp).since = 0 /\ NewSegment(bp).written = <<>> /\ NewSegment(bp).exists
      BY <3>1, NewSegmentFields
    <3> QED
      BY <3>2
  <2> QED
    BY <1>1, <2>1, <2>2
<1>8. ASSUME NEW c \in Clients, NEW q \in Pids, ReportFrameReadProgress(c, q)
      PROVE  SameFrames(segment[p], segment'[p])
  BY <1>8, ReportRings
<1>9. CASE ReleaseBackpressure
  BY <1>3, <1>4, <1>9, ReleaseRings
<1>10. CASE SyncTrackedPidState
  BY <1>3, <1>5, <1>6, <1>10, SyncRings
<1>11. CASE StartFails
  BY <1>3, <1>4, <1>6, <1>11, StartFailsRings
<1>12. CASE StartTraceSession
  BY <1>5, <1>12, OpenRings
<1>13. CASE FinishStart
  BY <1>3, <1>13, FinishStartRings
<1>14. CASE Broadcast
  <2>1. \/ segment'[p] = NoSegment \/ segment'[p] = segment[p]
        \/ /\ segment'[p].exists = segment[p].exists
           /\ segment'[p].backpressured = segment[p].backpressured
           /\ segment'[p].written = Append(segment[p].written, Head(output.batch))
           /\ segment'[p].since = segment[p].since
    BY <1>14, BroadcastRings
  <2>2. Head(output.batch) \in Presents
    BY <1>14, TailBatched DEF Queued, Broadcast
  <2>3. Len(Append(segment[p].written, Head(output.batch))) = Len(segment[p].written) + 1
    BY <1>1, <2>2, SegmentFields
  <2> QED
    BY <1>1, <1>4, <2>1, <2>3, SegmentFields
<1>15. CASE DestroyPresentMon
  BY <1>3, <1>4, <1>6, <1>15, DestroyRings
<1>16. CASE UNCHANGED segment
  BY <1>1, <1>16
<1> QED
  BY <1>3, <1>7, <1>8, <1>9, <1>10, <1>11, <1>12, <1>13, <1>14, <1>15, <1>16, RingSteps

FramesAre(p) == FramesOf(segment[p], p, Underway, Excused, analysis.next)

Frames ==
    ~closing /\ consumer =>
      \A p \in tracked \cup HeldByOutput : segment[p].backpressured => FramesAre(p)

LEMMA UnderwayIs ==
    /\ Underway = Batched(output.batch) \cup InRing(ring)
    /\ Underway' = Batched(output'.batch) \cup InRing(ring')
BY DEF Underway, Batched, InRing

LEMMA UnderwayType ==
    ASSUME Queued, Stored PROVE Underway \in SUBSET Presents /\ HeldByOutput \subseteq Pids
<1>1. Batched(output.batch) \subseteq Presents
  BY LineFacts DEF Batched
<1>2. output.pc = "push" => Trace[Head(output.batch)].pid \in Pids
  <2>1. output.pc = "push" => Head(output.batch) \in Presents
    BY TailBatched DEF Queued
  <2> QED
    BY <2>1, FieldsOfPresent
<1> QED
  BY <1>1, <1>2, LineFacts, UnderwayIs DEF HeldByOutput

LEMMA FramesKept ==
    ASSUME Rings, Queued, Stored, NEW p \in Pids, FramesAre(p),
           SameFrames(segment[p], segment'[p]),
           Underway' = Underway, Excused \subseteq Excused', analysis'.next = analysis.next
    PROVE  FramesAre(p)'
<1>1. segment[p] \in Segments /\ analysis.next \in Nat /\ Underway \in SUBSET Int
  BY LineFacts, UnderwayType DEF Rings, Presents
<1>2. FramesOf(segment[p], p, Underway, Excused, analysis.next)
  BY DEF FramesAre
<1>3. FramesOf(segment'[p], p, Underway', Excused', analysis'.next)
  BY <1>1, <1>2, FramesMoved
<1> QED
  BY <1>3 DEF FramesAre

LEMMA FramesBegin ==
    ASSUME Queued', NEW p \in Pids, segment'[p].since = Len(segment'[p].written),
           Len(segment'[p].written) \in Nat, segment'[p].from = analysis'.next
    PROVE  FramesAre(p)'
<1>1. analysis'.next \in Nat
  BY LenTrace DEF Queued
<1>2. FramesOf(segment'[p], p, Underway', Excused', analysis'.next)
  BY <1>1, FramesNone
<1> QED
  BY <1>2 DEF FramesAre

\* What is excused stays so while the consumer is there.
LEMMA CompletionFrames ==
    ASSUME Shape, Rings, Queued, Stored, LineInv, CompletionStep, NEW p \in Pids, FramesAre(p),
           Stored'
    PROVE  FramesAre(p)'
<1>1. StoreFacts
  BY CompletionStores
<1>2. UNCHANGED <<segment, output>>
  BY CompletionIs DEF trackVars
<1>3. /\ \A k \in InRing(ring') : k \in InRing(ring) \/ k = analysis.next
      /\ \A k \in InRing(ring) : k \in InRing(ring') \cup lost' \cup gaveUp'
      /\ gaveUp \subseteq gaveUp' /\ lost \subseteq lost'
      /\ \/ analysis'.next = analysis.next
         \/ analysis'.next = analysis.next + 1 /\ analysis.next \in InRing(ring') \cup lost'
  BY <1>1, CompletionMoves DEF StoreFacts
<1>4. /\ Underway = Batched(output.batch) \cup InRing(ring)
      /\ Underway' = Batched(output.batch) \cup InRing(ring')
  BY <1>2, UnderwayIs
<1>5. Excused \subseteq Excused' /\ lost' \cup gaveUp' \subseteq Excused'
  BY <1>3 DEF Excused
<1>6. /\ segment[p] \in Segments /\ analysis.next \in Nat /\ Batched(output.batch) \subseteq Presents
      /\ SameFrames(segment[p], segment'[p])
  BY <1>2, LineFacts DEF Rings, SameFrames, Batched
<1>7. InRing(ring') \subseteq Presents
  BY DEF Stored, InRing
<1>8. Underway' \in SUBSET Int
  BY <1>4, <1>6, <1>7 DEF Presents
<1>9. /\ \A k \in Underway' : k \in Underway \/ k >= analysis.next
      /\ \A k \in Underway : k \in Underway' \cup Excused'
      /\ analysis'.next = analysis.next
           \/ (analysis'.next = analysis.next + 1 /\ analysis.next \in Underway' \cup Excused')
  BY <1>3, <1>4, <1>5, <1>6
<1>10. FramesOf(segment[p], p, Underway, Excused, analysis.next)
  BY DEF FramesAre
<1>11. FramesOf(segment'[p], p, Underway', Excused', analysis'.next)
  BY <1>5, <1>6, <1>8, <1>9, <1>10, FramesMoved
<1> QED
  BY <1>11 DEF FramesAre

\* AddPresents skips a present that is excused, or of a process that is not tracked.
LEMMA SkipFrames ==
    ASSUME Rings, Queued, Stored, SegmentShape, AddPresent, NEW p \in Pids,
           output'.batch = Tail(output.batch), FramesAre(p),
           ~(LET n == Head(output.batch)
             IN n \notin lost /\ ~Trace[n].failed /\ Trace[n].pid \in tracked
                  /\ segment[Trace[n].pid].exists),
           p \in tracked, segment[p].backpressured
    PROVE  FramesAre(p)'
<1> DEFINE h == Head(output.batch)
<1>1. /\ output.batch # <<>>
      /\ UNCHANGED <<ring, lost, gaveUp, segment, analysis>>
  BY DEF AddPresent, sessionVars, consumerVars, trackVars
<1>2. /\ output.batch \in Seq(Presents) /\ h \in Presents
      /\ Batched(output.batch) = Batched(Tail(output.batch)) \cup {h}
  BY <1>1, TailBatched DEF Queued
<1>3. h \in Excused \/ Trace[h].pid # p
  BY <1>2 DEF SegmentShape, Excused
<1> HIDE DEF h
<1>4. Excused' = Excused
  BY <1>1 DEF Excused
<1>5. Underway' \subseteq Underway /\ Underway \subseteq Underway' \cup {h}
  BY <1>1, <1>2, UnderwayIs
<1>6. /\ segment[p] \in Segments /\ analysis.next \in Nat /\ Underway' \in SUBSET Int
      /\ SameFrames(segment[p], segment'[p]) /\ analysis'.next = analysis.next
  <2>1. segment[p] \in Segments /\ analysis.next \in Nat /\ Underway \in SUBSET Int
    BY LineFacts, UnderwayType DEF Rings, Presents
  <2>2. SameFrames(segment[p], segment'[p]) /\ analysis'.next = analysis.next
    BY <1>1 DEF SameFrames
  <2> QED
    BY <1>5, <2>1, <2>2
<1>7. /\ \A k \in Underway' : k \in Underway
      /\ \A k \in Underway : k \in Underway' \cup Excused' \/ Trace[k].pid # p
  BY <1>3, <1>4, <1>5
<1>8. FramesOf(segment[p], p, Underway, Excused, analysis.next)
  BY DEF FramesAre
<1>9. FramesOf(segment'[p], p, Underway', Excused', analysis'.next)
  BY <1>4, <1>6, <1>7, <1>8, FramesMoved
<1> QED
  BY <1>9 DEF FramesAre

LEMMA BroadcastFrames ==
    ASSUME Shape, Rings, Queued, Stored, LineInv, SegmentShape, Broadcast, NEW p \in Pids,
           FramesAre(p), segment'[p].backpressured
    PROVE  FramesAre(p)'
<1> DEFINE h == Head(output.batch)
           q == Trace[h].pid
<1>1. /\ output.batch # <<>> /\ output'.batch = Tail(output.batch)
      /\ UNCHANGED <<ring, lost, gaveUp, analysis>>
  BY DEF Broadcast, Queued, Shape, sessionVars, consumerVars
<1>2. /\ output.batch \in Seq(Presents) /\ h \in Presents
      /\ Batched(output.batch) = Batched(Tail(output.batch)) \cup {h}
  BY <1>1, TailBatched DEF Queued
<1>3. h < analysis.next /\ \A x \in Batched(Tail(output.batch)) \cup InRing(ring) : h < x
  BY <1>1, <1>2, LineTail DEF LineInv
<1>4. /\ Underway = Batched(output.batch) \cup InRing(ring)
      /\ Underway' = Batched(Tail(output.batch)) \cup InRing(ring)
  BY <1>1, UnderwayIs
<1>5. /\ h \in Underway /\ Underway' \subseteq Underway /\ Underway \subseteq Underway' \cup {h}
      /\ \A k \in Underway' : h < k
  BY <1>2, <1>3, <1>4
<1>6. Excused' = Excused /\ analysis'.next = analysis.next
  BY <1>1 DEF Excused
<1>7. /\ segment[p] \in Segments /\ segment[p].since <= Len(segment[p].written)
      /\ analysis.next \in Nat /\ Underway' \in SUBSET Int
      /\ FramesOf(segment[p], p, Underway, Excused, analysis.next)
  BY <1>5, LineFacts, UnderwayType DEF Rings, SegmentShape, FramesAre, Presents
<1>8. \/ /\ segment'[p] = segment[p] /\ p # q
      \/ /\ segment'[p].written = Append(segment[p].written, h)
         /\ segment'[p].since = segment[p].since /\ segment'[p].from = segment[p].from
  BY BroadcastRings, NoSegmentFields
<1> HIDE DEF h
<1>9. CASE segment'[p] = segment[p] /\ p # q
  <2>1. /\ \A k \in Underway' : k \in Underway
        /\ \A k \in Underway : k \in Underway' \cup Excused' \/ Trace[k].pid # p
    BY <1>5, <1>9
  <2>2. SameFrames(segment[p], segment'[p])
    BY <1>9 DEF SameFrames
  <2>3. FramesOf(segment'[p], p, Underway', Excused', analysis'.next)
    BY <1>6, <1>7, <2>1, <2>2, FramesMoved
  <2> QED
    BY <2>3 DEF FramesAre
<1>10. CASE /\ segment'[p].written = Append(segment[p].written, h)
            /\ segment'[p].since = segment[p].since /\ segment'[p].from = segment[p].from
  <2>1. FramesOf(segment'[p], p, Underway', Excused, analysis.next)
    BY <1>2, <1>3, <1>5, <1>7, <1>10, FramesPushed
  <2> QED
    BY <1>6, <2>1 DEF FramesAre
<1> QED
  BY <1>8, <1>9, <1>10

LEMMA FramesNext ==
    ASSUME LostSettled, SessionInv, PlaybackTypes, PlaybackTypes', TargetsKept, LineInv,
           SegmentShape, Frames, [Next]_vars
    PROVE  Frames'
<1> SUFFICES ASSUME ~closing', consumer', NEW p \in tracked' \cup HeldByOutput',
                    segment'[p].backpressured
             PROVE  FramesAre(p)'
  BY DEF Frames
<1>1. /\ Shape /\ Queued /\ Stored /\ Tracking /\ Rings /\ Serials /\ Rings'
      /\ Queued' /\ Stored'
  BY DEF PlaybackTypes
<1>2. p \in Pids /\ tracked \subseteq Pids /\ HeldByOutput \subseteq Pids
  <2>1. tracked \subseteq Pids /\ tracked' \subseteq Pids
    BY DEF PlaybackTypes, Tracking
  <2>2. output'.pc = "push" => Trace[Head(output'.batch)].pid \in Pids
    <3>1. output'.pc = "push" => Head(output'.batch) \in Presents
      BY <1>1, TailBatched DEF Queued
    <3> QED
      BY <3>1, FieldsOfPresent
  <2>3. HeldByOutput' \subseteq Pids
    BY <2>2 DEF HeldByOutput
  <2> QED
    BY <1>1, <2>1, <2>3, UnderwayType
<1>3. ~closing /\ consumer /\ p \in tracked \cup HeldByOutput /\ segment[p].backpressured
        => FramesAre(p)
  BY DEF Frames
<1>4. CASE CompletionStep
  <2>1. UNCHANGED <<segment, tracked, output, closing, consumer>>
    BY <1>4, CompletionIs DEF trackVars, stopVars
  <2>2. FramesAre(p)
    BY <1>3, <2>1 DEF HeldByOutput
  <2> QED
    BY <1>1, <1>2, <1>4, <2>2, CompletionFrames
<1>5. CASE DequeuePresentEvents
  <2>1. /\ UNCHANGED <<segment, tracked, closing, consumer, analysis, lost, gaveUp>>
        /\ output.pc = "take" /\ output'.pc = "add"
    BY <1>1, <1>5 DEF DequeuePresentEvents, Shape, trackVars, stopVars
  <2>2. FramesAre(p)
    BY <1>3, <2>1 DEF HeldByOutput
  <2>3. Underway' = Underway
    <3>1. InRing(ring) = Batched(output'.batch) \cup InRing(ring') /\ output.batch = <<>>
      BY <1>1, <1>5, TakenLine
    <3>2. Batched(<<>>) = {}
      BY DEF Batched
    <3> QED
      BY <3>1, <3>2, UnderwayIs
  <2>4. Excused \subseteq Excused' /\ SameFrames(segment[p], segment'[p])
    BY <2>1 DEF Excused, SameFrames
  <2> QED
    BY <1>1, <1>2, <2>1, <2>2, <2>3, <2>4, FramesKept
<1>6. CASE AddPresent
  <2>1. /\ UNCHANGED <<segment, tracked, closing, consumer, analysis, ring, lost, gaveUp>>
        /\ output.pc = "add" /\ output.batch # <<>>
    BY <1>6 DEF AddPresent, sessionVars, consumerVars, trackVars, stopVars
  <2>2. SameFrames(segment[p], segment'[p])
    BY <2>1 DEF SameFrames
  <2> DEFINE n == Head(output.batch)
             goes == /\ n \notin lost /\ ~Trace[n].failed /\ Trace[n].pid \in tracked
                     /\ segment[Trace[n].pid].exists
  <2>3. CASE goes
    <3>1. output'.pc = "push" /\ output'.batch = output.batch
      BY <1>1, <1>6, <2>3 DEF AddPresent, Shape
    <3>2. FramesAre(p)
      BY <1>3, <2>1, <2>3, <3>1 DEF HeldByOutput
    <3>3. Underway' = Underway /\ Excused \subseteq Excused'
      BY <2>1, <3>1 DEF Underway, Excused
    <3> QED
      BY <1>1, <1>2, <2>1, <2>2, <3>2, <3>3, FramesKept
  <2>4. CASE ~goes
    <3>1. output'.pc = "add" /\ output'.batch = Tail(output.batch)
      BY <1>1, <1>6, <2>1, <2>4 DEF AddPresent, Shape
    <3>2. p \in tracked /\ segment[p].backpressured /\ FramesAre(p)
      BY <1>3, <2>1, <3>1 DEF HeldByOutput
    <3> QED
      BY <1>1, <1>2, <1>6, <2>4, <3>1, <3>2, SkipFrames
  <2> QED
    BY <2>3, <2>4
<1>7. CASE Broadcast
  <2>1. UNCHANGED <<tracked, closing, consumer>> /\ output'.pc = "add"
    BY <1>1, <1>7 DEF Broadcast, Shape, sessionVars, stopVars
  <2>2. segment[p].backpressured
    BY <1>1, <1>2, <1>7, BroadcastRings, NoSegmentFields
  <2>3. FramesAre(p)
    BY <1>3, <2>1, <2>2 DEF HeldByOutput
  <2> QED
    BY <1>1, <1>2, <1>7, <2>3, BroadcastFrames
<1>8. CASE StartTraceSession
  <2>1. FreshFrom(segment[p], segment'[p], 1)
    BY <1>1, <1>2, <1>8, OpenRings
  <2>2. analysis'.next = 1
    BY <1>1, <1>8 DEF StartTraceSession, OpenSession, Shape
  <2>3. Len(segment[p].written) \in Nat
    BY <1>1, <1>2, SegmentFields DEF Rings
  <2> QED
    BY <1>1, <1>2, <2>1, <2>2, <2>3, FramesBegin DEF FreshFrom
<1>9. ASSUME NEW t \in {"action", "main"}, CleanUp(t) PROVE FALSE
  BY <1>9 DEF CleanUp
<1>10. CASE Quiet
  <2>1. /\ ~closing /\ consumer
        /\ analysis'.next = analysis.next /\ output'.batch = output.batch
        /\ UNCHANGED <<ring, lost, gaveUp>> /\ HeldByOutput' = HeldByOutput
    BY <1>10 DEF Quiet, consumerVars, HeldByOutput
  <2>2. Underway' = Underway /\ Excused \subseteq Excused'
    BY <2>1 DEF Underway, Excused
  <2>3. ASSUME p \in tracked \cup HeldByOutput, SameFrames(segment[p], segment'[p])
        PROVE  FramesAre(p)'
    <3>1. FramesAre(p)
      BY <1>3, <2>1, <2>3 DEF SameFrames
    <3> QED
      BY <1>1, <1>2, <2>1, <2>2, <2>3, <3>1, FramesKept
  <2>4. ~SyncTrackedPidState /\ ~StartFails => p \in tracked \cup HeldByOutput
    BY <2>1, TrackedSteps
  <2>5. ASSUME NEW c \in Clients, NEW q \in Pids, NEW bp \in BOOLEAN, StartTracking(c, q, bp)
        PROVE  FramesAre(p)'
    <3>1. segment'[p] = segment[p] \/ segment'[p] = NewSegment(bp)
      BY <1>1, <1>2, <2>5, StartTrackingRings
    <3>2. tracked' = tracked
      BY <2>5 DEF StartTracking
    <3>3. CASE segment'[p] = segment[p]
      BY <2>1, <2>3, <3>2, <3>3 DEF SameFrames
    <3>4. CASE segment'[p] = NewSegment(bp)
      <4>1. analysis.next \in Nat
        BY <1>1, LineFacts
      <4>2. segment'[p].since = 0 /\ segment'[p].written = <<>> /\ segment'[p].from = analysis.next
        BY <3>4, <4>1, NewSegmentFields
      <4> QED
        BY <1>1, <1>2, <2>1, <4>2, FramesBegin
    <3> QED
      BY <3>1, <3>3, <3>4
  <2>6. ASSUME NEW c \in Clients, NEW q \in Pids, ReportFrameReadProgress(c, q)
        PROVE  FramesAre(p)'
    <3>1. tracked' = tracked
      BY <2>6 DEF ReportFrameReadProgress
    <3> QED
      BY <1>1, <1>2, <2>1, <2>3, <2>6, <3>1, ReportRings
  <2>7. CASE ReleaseBackpressure
    <3>1. tracked' = tracked
      BY <2>7 DEF ReleaseBackpressure
    <3>2. SameFrames(segment[p], segment'[p])
      BY <1>1, <1>2, <2>7, ReleaseRings, NoSegmentFields
    <3> QED
      BY <2>1, <2>3, <3>1, <3>2
  <2>8. CASE SyncTrackedPidState
    <3>1. tracked' = act.set
      BY <2>8 DEF SyncTrackedPidState
    <3>2. CASE p \in act.set \ tracked
      <4>1. FreshFrom(segment[p], segment'[p], analysis.next)
        BY <1>1, <1>2, <2>8, <3>2, SyncRings
      <4>2. Len(segment[p].written) \in Nat
        BY <1>1, <1>2, SegmentFields DEF Rings
      <4> QED
        BY <1>1, <1>2, <2>1, <4>1, <4>2, FramesBegin DEF FreshFrom
    <3>3. CASE p \notin act.set \ tracked
      <4>1. segment'[p] = segment[p]
        BY <1>1, <1>2, <2>8, <3>3, SyncRings
      <4>2. p \in tracked \cup HeldByOutput
        BY <2>1, <3>1, <3>3
      <4> QED
        BY <2>3, <4>1, <4>2 DEF SameFrames
    <3> QED
      BY <3>2, <3>3
  <2>9. CASE StartFails
    <3>1. p \in PidsOf(targets) \cup HeldByOutput /\ segment'[p] = segment[p]
      BY <1>1, <1>2, <2>9, StartFailsRings, NoSegmentFields
    <3>2. PidsOf(targets) \subseteq tracked
      BY <2>1 DEF TargetsKept
    <3> QED
      BY <2>3, <3>1, <3>2 DEF SameFrames
  <2>10. CASE StartTraceSession
    BY <1>8, <2>10
  <2>11. CASE FinishStart
    <3>1. tracked' = tracked
      BY <2>11 DEF FinishStart
    <3> QED
      BY <1>1, <1>2, <2>1, <2>3, <2>11, <3>1, FinishStartRings
  <2>12. CASE Broadcast
    BY <1>7, <2>12
  <2>13. CASE DestroyPresentMon
    BY <2>1, <2>13 DEF DestroyPresentMon, TargetsKept
  <2>14. CASE UNCHANGED segment
    BY <2>3, <2>4, <2>8, <2>9, <2>14 DEF SameFrames
  <2> QED
    BY <2>5, <2>6, <2>7, <2>8, <2>9, <2>10, <2>11, <2>12, <2>13, <2>14, RingSteps
<1> QED
  BY <1>4, <1>5, <1>6, <1>7, <1>8, <1>9, <1>10, QuietSteps DEF LineInv

FramesInv == PlaybackTypes /\ SessionInv /\ TargetsKept /\ LineInv /\ SegmentShape /\ Frames

LEMMA FramesInit == Init => FramesInv
<1> SUFFICES ASSUME Init PROVE FramesInv
  OBVIOUS
<1>1. PlaybackTypes /\ SessionInv
  BY TypesInit, InvInit
<1>2. TargetsKept
  BY DEF Init, TargetsKept, PidsOf
<1>3. LineInv
  <2>1. ring.count = 0 /\ ring.ready = 0 /\ output.batch = <<>>
    BY DEF Init, EmptyRing
  <2>2. InLine(output.batch, ring, analysis.next)
    BY <2>1 DEF InLine, Batched, InRing
  <2> QED
    BY <2>1, <2>2 DEF Init, LineInv, BatchPlace, FutureClean, Stuck
<1>4. SegmentShape /\ Frames
  BY NoSegmentFields DEF Init, SegmentShape, Frames
<1> QED
  BY <1>1, <1>2, <1>3, <1>4 DEF FramesInv

\* The frames of a process that is tracked with backpressure are in the order in
\* which its presents completed, and none is missing but those that were lost, had
\* failed, or were overwritten while deferred - if no stop races with a start, and no
\* present is lost that waits.
THEOREM BackpressureLosesNothing ==
    ASSUME ~StopRaces, \A n \in Presents : Trace[n].lost => Trace[n].waits = {}
    PROVE  Spec => []NoGaps
<1>1. LostSettled
  BY DEF LostSettled
<1>2. FramesInv /\ [Next]_vars => FramesInv'
  <2> SUFFICES ASSUME FramesInv, [Next]_vars PROVE FramesInv'
    OBVIOUS
  <2>1. PlaybackTypes' /\ SessionInv'
    BY TypesNext, InvNext DEF FramesInv
  <2>2. TargetsKept'
    BY TargetsKeptNext DEF FramesInv, PlaybackTypes
  <2>3. Queued /\ Stored /\ Rings /\ Serials
    BY DEF FramesInv, PlaybackTypes
  <2>4. LineInv'
    BY <1>1, <2>3, LineNext DEF FramesInv
  <2>5. SegmentShape'
    BY <2>3, SegmentShapeNext DEF FramesInv
  <2>6. Frames'
    BY <1>1, <2>1, FramesNext DEF FramesInv
  <2> QED
    BY <2>1, <2>2, <2>4, <2>5, <2>6 DEF FramesInv
<1>3. FramesInv => NoGaps
  <2> SUFFICES ASSUME FramesInv, ~closing, consumer, NEW p \in tracked,
                      segment[p].backpressured
               PROVE  FramesAre(p)
    BY DEF NoGaps, FramesAre, FramesOf
  <2> QED
    BY DEF FramesInv, Frames
<1> QED
  BY <1>2, <1>3, FramesInit, PTL DEF Spec
====
