---- MODULE ShmRingProofs ----
(***************************************************************************)
(* Proofs about the frame ring for every capacity, read buffer and bound.  *)
(*                                                                         *)
(* RingInv holds on every ring and says where the frames are; from it      *)
(* follows what the read buffer protects on a broadcast ring.  CursorInv   *)
(* holds on a backpressured ring and relates the producer, the read        *)
(* cursor, the reports under way and the reader; with RingInv it gives the *)
(* safety of playback and the refinement of FrameChannel.                  *)
(***************************************************************************)
EXTENDS ShmRing, TLAPS, SequenceTheorems

\* Two serials less than a ring apart live in different slots.
LEMMA SlotsDiffer ==
    ASSUME NEW C \in Nat \ {0}, NEW a \in Nat, NEW b \in Nat, a < b, b < a + C
    PROVE  a % C # b % C
<1>. DEFINE qa == a \div C
            qb == b \div C
            ra == a % C
            rb == b % C
<1>1. /\ qa \in Int /\ qb \in Int /\ ra \in Int /\ rb \in Int
      /\ a = C * qa + ra /\ 0 <= ra /\ ra < C
      /\ b = C * qb + rb /\ 0 <= rb /\ rb < C
  BY SMT
<1>. HIDE DEF qa, qb, ra, rb
<1>2. SUFFICES ASSUME ra = rb PROVE FALSE
  BY DEF ra, rb
<1>3. C * qb - C * qa > 0 /\ C * qb - C * qa < C
  BY <1>1, <1>2
<1>. DEFINE k == qb - qa
<1>4. k \in Int /\ C * k = C * qb - C * qa
  BY <1>1
<1>. HIDE DEF k
<1>5. CASE k >= 1
  <2>1. C * k >= C
    BY <1>5, <1>4, SMT
  <2>. QED BY <2>1, <1>3, <1>4
<1>6. CASE k <= 0
  <2>1. C * k <= 0
    BY <1>6, <1>4, SMT
  <2>. QED BY <2>1, <1>3, <1>4
<1>. QED BY <1>4, <1>5, <1>6

\* The index of a serial is a slot of the ring.
LEMMA IndexIsSlot ==
    ASSUME NEW s \in Nat
    PROVE  IndexFromSerial(s) \in Slots
BY RingAssumption DEF IndexFromSerial, Slots
----
\* Where the frames are, on every ring.  A published serial is in its slot until
\* the producer starts to copy the serial one capacity later over it.
SlotInv ==
    \A s \in 0 .. nextWriteSerial - 1 :
        \/ nextWriteSerial < s + Capacity
        \/ nextWriteSerial = s + Capacity /\ ppc \notin {"copying", "publish"}
        => data[IndexFromSerial(s)] = s

PublishInv == ppc = "publish" => data[IndexFromSerial(nextWriteSerial)] = nextWriteSerial

\* What the reader's local copies of the write serial still mean.
RangeInv ==
    /\ firstLoad <= nextWriteSerial
    /\ range[2] <= nextWriteSerial
    /\ rpc \in {"address", "body"} => serial < range[2]
    /\ rpc = "done" => serial = range[2]
    /\ InBatch /\ firstLoad >= Capacity => serial >= range[2] - Capacity + ReadBufferSize

RingInv == TypeOK /\ SlotInv /\ PublishInv /\ RangeInv

Starting == rpc \in {"seed", "seedrange", "seedset", "open", "openrange"}

\* Who is ahead of whom on a backpressured ring:
\* cursor <= reports under way <= reader <= producer < cursor + window.
WindowInv ==
    /\ nextReadSerial = cursor
    /\ nextWriteSerial <= nextReadSerial + Capacity - ReadBufferSize
    /\ ppc \in {"copy", "copying", "publish"} => HasRoom

ReportInv ==
    /\ \A i \in 1 .. Len(progress) : cursor <= progress[i] /\ progress[i] <= nextFrameSerial
    /\ \A i, j \in 1 .. Len(progress) : i <= j => progress[i] <= progress[j]

ReaderInv ==
    /\ cursor <= nextFrameSerial /\ nextFrameSerial <= nextWriteSerial
    /\ InBatch => nextFrameSerial <= serial
    /\ rpc = "body" => address = serial
    /\ last = Received - 1

StartInv ==
    /\ Starting => cursor = 0 /\ nextFrameSerial = 0 /\ progress = <<>>
    /\ rpc = "seedset" => range[1] = 0

CursorInv == WindowInv /\ ReportInv /\ ReaderInv /\ StartInv

----
LEMMA RingInvInit == Init => RingInv
<1>. SUFFICES ASSUME Init PROVE RingInv
  OBVIOUS
<1>1. TypeOK
  BY RingAssumption DEF Init, TypeOK, Slots, Blank, Torn
<1>2. SlotInv /\ PublishInv /\ RangeInv
  BY RingAssumption DEF Init, SlotInv, PublishInv, RangeInv, InBatch
<1>. QED BY <1>1, <1>2 DEF RingInv

\* The two steps of a copy, the only ones that write a slot.
LEMMA CopyKeepsSlots ==
    ASSUME RingInv, CopyBegins \/ CopyEnds
    PROVE  SlotInv' /\ PublishInv'
<1>. USE RingAssumption
<1>1. /\ TypeOK /\ nextWriteSerial' = nextWriteSerial /\ nextWriteSerial \in Nat
      /\ ppc' \in {"copying", "publish"}
      /\ IndexFromSerial(nextWriteSerial) \in Slots
  BY IndexIsSlot DEF RingInv, TypeOK, CopyBegins, CopyEnds
<1>2. SlotInv'
  <2>. SUFFICES ASSUME NEW s \in 0 .. nextWriteSerial - 1, nextWriteSerial < s + Capacity
                PROVE  data'[IndexFromSerial(s)] = s
    BY <1>1 DEF SlotInv, IndexFromSerial, TypeOK
  <2>1. data[IndexFromSerial(s)] = s
    BY DEF RingInv, SlotInv
  <2>2. IndexFromSerial(s) # IndexFromSerial(nextWriteSerial)
    <3>1. Capacity \in Nat \ {0} /\ s \in Nat /\ s < nextWriteSerial
      BY <1>1
    <3>. QED BY <1>1, <3>1, SlotsDiffer, Zenon DEF IndexFromSerial
  <2>3. IndexFromSerial(s) \in Slots
    BY <1>1, IndexIsSlot
  <2>. QED BY <2>1, <2>2, <2>3, <1>1 DEF TypeOK, CopyBegins, CopyEnds
<1>3. PublishInv'
  BY <1>1 DEF PublishInv, TypeOK, CopyBegins, CopyEnds, IndexFromSerial
<1>. QED BY <1>2, <1>3

LEMMA RingInvNext == RingInv /\ [Next]_vars => RingInv'
<1>. SUFFICES ASSUME RingInv, [Next]_vars PROVE RingInv'
  OBVIOUS
<1>. USE RingAssumption
<1>1. CASE BeginPush \/ PushUnblocked \/ PushTimesOut
  <2>1. TypeOK'
    BY <1>1 DEF RingInv, TypeOK, BeginPush, PushUnblocked, PushTimesOut, readVars, servVars
  <2>2. SlotInv' /\ PublishInv' /\ RangeInv'
    BY <1>1 DEF RingInv, TypeOK, SlotInv, PublishInv, RangeInv, InBatch, IndexFromSerial,
                BeginPush, PushUnblocked, PushTimesOut, readVars, servVars
  <2>. QED BY <2>1, <2>2 DEF RingInv
<1>2. CASE CopyBegins \/ CopyEnds
  <2>1. TypeOK'
    <3>1. IndexFromSerial(nextWriteSerial) \in Slots
      BY IndexIsSlot DEF RingInv, TypeOK
    <3>2. data' \in [Slots -> Int]
      BY <1>2, <3>1 DEF RingInv, TypeOK, CopyBegins, CopyEnds, Torn
    <3>. QED BY <1>2, <3>2 DEF RingInv, TypeOK, CopyBegins, CopyEnds, readVars, servVars
  <2>2. RangeInv'
    BY <1>2 DEF RingInv, RangeInv, InBatch, CopyBegins, CopyEnds, readVars
  <2>. QED BY <1>2, <2>1, <2>2, CopyKeepsSlots DEF RingInv
<1>3. CASE Publish
  <2>1. TypeOK'
    BY <1>3 DEF RingInv, TypeOK, Publish, readVars, servVars
  <2>2. SlotInv'
    <3>. SUFFICES ASSUME NEW s \in 0 .. nextWriteSerial, nextWriteSerial + 1 <= s + Capacity
                  PROVE  data[IndexFromSerial(s)] = s
      BY <1>3 DEF SlotInv, Publish, RingInv, TypeOK, IndexFromSerial
    <3>1. CASE s = nextWriteSerial
      BY <3>1, <1>3 DEF RingInv, PublishInv, Publish
    <3>2. CASE s < nextWriteSerial
      BY <3>2 DEF RingInv, TypeOK, SlotInv
    <3>. QED BY <3>1, <3>2 DEF RingInv, TypeOK
  <2>3. PublishInv' /\ RangeInv'
    BY <1>3 DEF RingInv, TypeOK, PublishInv, RangeInv, InBatch, Publish, readVars
  <2>. QED BY <2>1, <2>2, <2>3 DEF RingInv
<1>4. CASE Seeding \/ Reader \/ HandleProgress
  <2>1. prodVars' = prodVars
    BY <1>4 DEF Seeding, SeedLoad, SeedRange, SeedCursor, Reader, OpenLoad, OpenRange, PollLoad,
                PollRange, ReadAddress, ReadBody, FinishBatch, HandleProgress
  <2>2. SlotInv' /\ PublishInv'
    BY <2>1 DEF RingInv, SlotInv, PublishInv, prodVars, IndexFromSerial
  <2>3. TypeOK' /\ RangeInv'
    <3>1. CASE SeedLoad \/ OpenLoad \/ PollLoad
      <4>1. TypeOK'
        <5>1. /\ firstLoad' = nextWriteSerial /\ rpc' \in {"seedrange", "openrange", "pollrange"}
              /\ servVars' = servVars
              /\ UNCHANGED <<range, nextFrameSerial, serial, address, last>>
          BY <3>1 DEF SeedLoad, OpenLoad, PollLoad
        <5>. QED BY <2>1, <5>1 DEF RingInv, TypeOK, prodVars, servVars
      <4>2. RangeInv'
        BY <3>1, <2>1 DEF RingInv, TypeOK, RangeInv, InBatch, SeedLoad, OpenLoad, PollLoad, prodVars
      <4>. QED BY <4>1, <4>2
    <3>2. CASE SeedRange \/ OpenRange \/ PollRange
      <4>1. range' \in Nat \X Nat /\ range'[2] = nextWriteSerial
        BY <3>2 DEF RingInv, TypeOK, RangeInv, SeedRange, OpenRange, PollRange, RangeOf
      <4>2. firstLoad >= Capacity => range'[1] = nextWriteSerial - Capacity + ReadBufferSize
        BY <3>2 DEF RingInv, TypeOK, SeedRange, OpenRange, PollRange, RangeOf
      <4>3. TypeOK'
        BY <3>2, <4>1, <2>1 DEF RingInv, TypeOK, SeedRange, OpenRange, PollRange, prodVars, servVars
      <4>4. RangeInv'
        BY <3>2, <4>1, <4>2, <2>1
           DEF RingInv, TypeOK, RangeInv, InBatch, SeedRange, OpenRange, PollRange, prodVars
      <4>. QED BY <4>3, <4>4
    <3>3. CASE SeedCursor
      BY <3>3, <2>1 DEF RingInv, TypeOK, RangeInv, InBatch, SeedCursor, prodVars
    <3>4. CASE ReadAddress
      <4>1. data[IndexFromSerial(serial)] \in Int
        BY IndexIsSlot DEF RingInv, TypeOK
      <4>. QED BY <3>4, <4>1, <2>1 DEF RingInv, TypeOK, RangeInv, InBatch, ReadAddress,
                                       prodVars, servVars
    <3>5. CASE ReadBody
      <4>1. data[IndexFromSerial(serial)] \in Int
        BY IndexIsSlot DEF RingInv, TypeOK
      <4>. QED BY <3>5, <4>1, <2>1 DEF RingInv, TypeOK, RangeInv, InBatch, ReadBody,
                                       prodVars, servVars
    <3>6. CASE FinishBatch
      BY <3>6, <2>1 DEF RingInv, TypeOK, RangeInv, InBatch, FinishBatch, prodVars
    <3>7. CASE HandleProgress
      BY <3>7, <2>1 DEF RingInv, TypeOK, RangeInv, InBatch, HandleProgress, prodVars, readVars
    <3>. QED BY <1>4, <3>1, <3>2, <3>3, <3>4, <3>5, <3>6, <3>7 DEF Seeding, Reader
  <2>. QED BY <2>2, <2>3 DEF RingInv
<1>5. CASE UNCHANGED vars
  BY <1>5 DEF RingInv, TypeOK, SlotInv, PublishInv, RangeInv, InBatch, IndexFromSerial,
              vars, prodVars, readVars, servVars
<1>. QED BY <1>1, <1>2, <1>3, <1>4, <1>5 DEF Next, Producer

\* Type correctness of the ring, its producer, reader and read cursor.
THEOREM TypeCorrect == Spec => []TypeOK
<1>1. RingInv => TypeOK
  BY DEF RingInv
<1>. QED BY <1>1, RingInvInit, RingInvNext, PTL DEF Spec

\* GetSerialRange's read buffer: on every ring that has wrapped, what At returns
\* is the frame asked for until ReadBufferSize more frames are published.
THEOREM MarginHolds == Spec => []MarginProtects
<1>1. RingInv => MarginProtects
  BY RingAssumption DEF RingInv, TypeOK, SlotInv, RangeInv, InBatch, MarginProtects
<1>. QED BY <1>1, RingInvInit, RingInvNext, PTL DEF Spec

----
\* The backpressured ring.

LEMMA CursorInvInit == ASSUME Backpressured PROVE Init => CursorInv
BY RingAssumption DEF Init, CursorInv, WindowInv, ReportInv, ReaderInv, StartInv, Starting,
   Received, InBatch, Torn

\* A frame the reader has not passed is in its slot: the producer is less than a
\* capacity ahead of the cursor and the cursor is not ahead of the reader.
LEMMA UnreadInSlot ==
    ASSUME RingInv, CursorInv, NEW s \in Nat, nextFrameSerial <= s, s < nextWriteSerial
    PROVE  data[IndexFromSerial(s)] = s
<1>1. nextWriteSerial < s + Capacity
  BY RingAssumption DEF RingInv, TypeOK, CursorInv, WindowInv, ReaderInv
<1>. QED BY <1>1 DEF RingInv, TypeOK, SlotInv

\* The range a backpressured reader gets never starts past its position.
LEMMA RangeBehindReader ==
    ASSUME RingInv, CursorInv
    PROVE  LET r == RangeOf(firstLoad, nextWriteSerial)
           IN  r \in Nat \X Nat /\ r[1] <= nextFrameSerial /\ r[2] = nextWriteSerial
BY RingAssumption
   DEF RingInv, TypeOK, RangeInv, RangeOf, CursorInv, WindowInv, ReaderInv

LEMMA CursorInvNext == ASSUME Backpressured PROVE RingInv /\ CursorInv /\ [Next]_vars => CursorInv'
<1>. SUFFICES ASSUME RingInv, CursorInv, [Next]_vars PROVE CursorInv'
  OBVIOUS
<1>. USE RingAssumption
<1>1. CASE Producer
  <2>1. UNCHANGED <<readVars, servVars>>
    BY <1>1 DEF Producer, BeginPush, PushUnblocked, PushTimesOut, CopyBegins, CopyEnds, Publish
  <2>2. nextWriteSerial' \in Nat /\ nextWriteSerial' >= nextWriteSerial
    BY <1>1 DEF RingInv, TypeOK, Producer, BeginPush, PushUnblocked, PushTimesOut, CopyBegins,
                CopyEnds, Publish
  <2>3. WindowInv'
    BY <1>1, <2>1 DEF RingInv, TypeOK, CursorInv, WindowInv, HasRoom, Producer, BeginPush,
       PushUnblocked, PushTimesOut, CopyBegins, CopyEnds, Publish, readVars, servVars
  <2>4. ReportInv' /\ StartInv'
    BY <2>1 DEF CursorInv, ReportInv, StartInv, Starting, readVars, servVars
  <2>5. ReaderInv'
    BY <2>1, <2>2 DEF RingInv, TypeOK, CursorInv, ReaderInv, Received, InBatch, readVars, servVars
  <2>. QED BY <2>3, <2>4, <2>5 DEF CursorInv
<1>2. CASE Seeding
  <2>1. /\ cursor' = 0 /\ nextReadSerial' = nextReadSerial /\ progress' = <<>>
        /\ nextFrameSerial' = 0 /\ last' = last /\ prodVars' = prodVars
        /\ ~InBatch /\ ~InBatch' /\ rpc' # "body" /\ Starting
    BY <1>2 DEF CursorInv, WindowInv, StartInv, Starting, Seeding, SeedLoad, SeedRange, SeedCursor,
                InBatch, servVars
  <2>2. WindowInv'
    BY <2>1 DEF CursorInv, WindowInv, StartInv, HasRoom, prodVars
  <2>3. ReportInv' /\ ReaderInv'
    BY <2>1 DEF RingInv, TypeOK, CursorInv, ReportInv, ReaderInv, StartInv, Received, prodVars
  <2>4. StartInv'
    <3>1. CASE SeedRange
      BY <3>1, <2>1, RangeBehindReader DEF SeedRange, CursorInv, StartInv, Starting
    <3>2. CASE SeedLoad \/ SeedCursor
      BY <3>2, <2>1 DEF SeedLoad, SeedCursor, StartInv
    <3>. QED BY <1>2, <3>1, <3>2 DEF Seeding
  <2>. QED BY <2>2, <2>3, <2>4 DEF CursorInv
<1>3. CASE OpenLoad \/ PollLoad \/ ReadAddress
  <2>1. UNCHANGED <<prodVars, servVars, nextFrameSerial, serial, last>>
    BY <1>3 DEF OpenLoad, PollLoad, ReadAddress
  <2>2. WindowInv' /\ ReportInv'
    BY <2>1 DEF CursorInv, WindowInv, HasRoom, ReportInv, prodVars, servVars
  <2>3. StartInv'
    BY <1>3, <2>1 DEF CursorInv, StartInv, Starting, OpenLoad, PollLoad, ReadAddress, servVars
  <2>4. ReaderInv'
    <3>1. rpc' = "body" => address' = serial'
      BY <1>3, <2>1, UnreadInSlot DEF RingInv, TypeOK, RangeInv, CursorInv, ReaderInv, InBatch,
         OpenLoad, PollLoad, ReadAddress
    <3>. QED BY <1>3, <2>1, <3>1 DEF CursorInv, ReaderInv, Received, InBatch,
         OpenLoad, PollLoad, ReadAddress, prodVars, servVars
  <2>. QED BY <2>2, <2>3, <2>4 DEF CursorInv
<1>4. CASE OpenRange \/ PollRange
  <2>1. UNCHANGED <<prodVars, servVars, last>>
    BY <1>4 DEF OpenRange, PollRange
  <2>2. nextFrameSerial' = nextFrameSerial /\ (InBatch' => serial' = nextFrameSerial)
        /\ rpc' # "body" /\ ~InBatch
    BY <1>4, RangeBehindReader DEF OpenRange, PollRange, CursorInv, StartInv, Starting, RingInv,
       TypeOK, InBatch
  <2>3. WindowInv' /\ ReportInv'
    BY <2>1, <2>2 DEF CursorInv, WindowInv, HasRoom, ReportInv, prodVars, servVars
  <2>4. StartInv'
    BY <1>4 DEF StartInv, Starting, OpenRange, PollRange
  <2>5. ReaderInv'
    BY <2>1, <2>2 DEF RingInv, TypeOK, CursorInv, ReaderInv, Received, prodVars, servVars
  <2>. QED BY <2>3, <2>4, <2>5 DEF CursorInv
<1>5. CASE ReadBody
  <2>1. data[IndexFromSerial(serial)] = serial
    BY <1>5, UnreadInSlot DEF RingInv, TypeOK, RangeInv, CursorInv, ReaderInv, InBatch, ReadBody
  <2>2. WindowInv' /\ ReportInv' /\ StartInv'
    BY <1>5 DEF CursorInv, WindowInv, HasRoom, ReportInv, StartInv, Starting, ReadBody,
                prodVars, servVars
  <2>3. ReaderInv'
    BY <1>5, <2>1 DEF RingInv, TypeOK, CursorInv, ReaderInv, Received, InBatch, ReadBody,
                      prodVars, servVars
  <2>. QED BY <2>2, <2>3 DEF CursorInv
<1>6. CASE FinishBatch
  <2>1. /\ UNCHANGED <<prodVars, nextReadSerial, cursor, last>>
        /\ nextFrameSerial' = serial /\ serial \in Nat /\ nextFrameSerial <= serial
        /\ serial <= nextWriteSerial /\ InBatch /\ ~InBatch' /\ rpc' = "idle"
        /\ progress' = Append(progress, serial)
    BY <1>6 DEF RingInv, TypeOK, RangeInv, CursorInv, ReaderInv, InBatch, FinishBatch
  <2>2. WindowInv' /\ StartInv'
    BY <2>1 DEF CursorInv, WindowInv, HasRoom, StartInv, Starting, prodVars
  <2>3. ReportInv'
    <3>1. progress \in Seq(Nat) /\ Len(progress) \in Nat /\ Len(progress') = Len(progress) + 1
      BY <2>1 DEF RingInv, TypeOK
    <3>2. \A i \in 1 .. Len(progress) : progress'[i] = progress[i]
      BY <2>1, <3>1
    <3>3. progress'[Len(progress) + 1] = serial
      BY <2>1, <3>1
    <3>4. cursor <= serial /\ cursor \in Nat /\ nextFrameSerial \in Nat
      BY <2>1 DEF RingInv, TypeOK, CursorInv, ReaderInv
    <3>5. cursor' = cursor /\ nextFrameSerial' = serial
      BY <2>1
    <3>6. serial \in Nat /\ nextFrameSerial <= serial /\ \A i \in 1 .. Len(progress) : progress[i] \in Nat
      BY <2>1, <3>1
    <3>7. \A i \in 1 .. Len(progress) : cursor <= progress[i] /\ progress[i] <= serial
      BY <3>4, <3>6 DEF CursorInv, ReportInv
    <3>8. \A i \in 1 .. Len(progress') : \/ i \in 1 .. Len(progress)
                                         \/ i = Len(progress) + 1
      BY <3>1
    <3>9. \A i \in 1 .. Len(progress') : cursor <= progress'[i] /\ progress'[i] <= serial
      BY <3>2, <3>3, <3>4, <3>6, <3>7, <3>8
    <3>10. ASSUME NEW i \in 1 .. Len(progress'), NEW j \in 1 .. Len(progress'), i <= j
           PROVE  progress'[i] <= progress'[j]
      <4>1. CASE j = Len(progress) + 1
        BY <3>3, <3>9, <4>1
      <4>2. CASE j \in 1 .. Len(progress)
        <5>1. i \in 1 .. Len(progress)
          BY <3>1, <3>8, <3>10, <4>2
        <5>. QED BY <3>2, <3>10, <4>2, <5>1 DEF CursorInv, ReportInv
      <4>. QED BY <3>8, <4>1, <4>2
    <3>. QED BY <3>5, <3>9, <3>10 DEF ReportInv
  <2>4. ReaderInv'
    BY <2>1 DEF RingInv, TypeOK, CursorInv, ReaderInv, Received, prodVars
  <2>. QED BY <2>2, <2>3, <2>4 DEF CursorInv
<1>7. CASE HandleProgress
  <2>1. /\ UNCHANGED <<prodVars, readVars>> /\ progress \in Seq(Nat) /\ progress # <<>>
        /\ progress' = Tail(progress) /\ progress[1] = Head(progress) /\ Head(progress) \in Nat
    BY <1>7 DEF RingInv, TypeOK, HandleProgress
  <2>2. cursor <= Head(progress) /\ Head(progress) <= nextFrameSerial
    BY <2>1 DEF CursorInv, ReportInv
  <2>3. cursor' = Head(progress) /\ nextReadSerial' = Head(progress)
    BY <1>7, <2>1, <2>2 DEF RingInv, TypeOK, CursorInv, ReaderInv, HandleProgress, Acceptable
  <2>4. WindowInv'
    BY <2>1, <2>2, <2>3 DEF RingInv, TypeOK, CursorInv, WindowInv, HasRoom, prodVars
  <2>5. ReportInv'
    <3>1. Len(progress') = Len(progress) - 1 /\ Len(progress) \in Nat
      BY <2>1
    <3>2. \A i \in 1 .. Len(progress') : progress'[i] = progress[i + 1]
      BY <2>1
    <3>. QED BY <2>1, <2>3, <3>1, <3>2 DEF CursorInv, ReportInv, readVars
  <2>6. ReaderInv'
    BY <2>1, <2>2, <2>3 DEF RingInv, TypeOK, CursorInv, ReaderInv, Received, InBatch,
                            prodVars, readVars
  <2>7. StartInv'
    BY <2>1 DEF CursorInv, StartInv, Starting, readVars
  <2>. QED BY <2>4, <2>5, <2>6, <2>7 DEF CursorInv
<1>8. CASE UNCHANGED vars
  BY <1>8 DEF CursorInv, WindowInv, HasRoom, ReportInv, ReaderInv, StartInv, Starting, Received,
              InBatch, vars, prodVars, readVars, servVars
<1>. QED BY <1>1, <1>2, <1>3, <1>4, <1>5, <1>6, <1>7, <1>8 DEF Next, Reader

PlaybackInv == RingInv /\ CursorInv

LEMMA PlaybackSafe == ASSUME Backpressured PROVE Spec => []PlaybackInv
<1>1. Init => PlaybackInv
  BY RingInvInit, CursorInvInit DEF PlaybackInv
<1>2. PlaybackInv /\ [Next]_vars => PlaybackInv'
  BY RingInvNext, CursorInvNext DEF PlaybackInv
<1>. QED BY <1>1, <1>2, PTL DEF Spec

\* Push never overwrites a frame that a backpressured ring's reader has not taken.
THEOREM NoFrameLost == ASSUME Backpressured PROVE Spec => []UnreadIntact
<1>1. PlaybackInv => UnreadIntact
  <2>. SUFFICES ASSUME PlaybackInv, NEW s \in Received .. nextWriteSerial - 1
                PROVE  data[IndexFromSerial(s)] = s
    BY DEF UnreadIntact
  <2>1. Received \in Nat /\ nextFrameSerial <= Received
    BY DEF PlaybackInv, RingInv, TypeOK, CursorInv, ReaderInv, Received
  <2>2. s \in Nat /\ nextFrameSerial <= s /\ s < nextWriteSerial
    BY <2>1 DEF PlaybackInv, RingInv, TypeOK
  <2>. QED BY <2>2, UnreadInSlot DEF PlaybackInv
<1>. QED BY <1>1, PlaybackSafe, PTL

\* ReportFrameReadProgress accepts every report the middleware sends.
THEOREM ReportsAccepted == ASSUME Backpressured PROVE Spec => []ReportsAcceptable
<1>1. PlaybackInv => ReportsAcceptable
  <2>. SUFFICES ASSUME PlaybackInv, progress # <<>> PROVE Acceptable(Head(progress))
    BY DEF ReportsAcceptable
  <2>1. progress[1] = Head(progress) /\ Head(progress) \in Nat /\ 1 \in 1 .. Len(progress)
    BY DEF PlaybackInv, RingInv, TypeOK
  <2>. QED BY <2>1 DEF PlaybackInv, RingInv, TypeOK, CursorInv, ReportInv, ReaderInv, Acceptable
<1>. QED BY <1>1, PlaybackSafe, PTL

\* Every step of a backpressured ring is a step of the lossless channel or leaves
\* the channel alone.
LEMMA ChannelStep ==
    ASSUME Backpressured, PlaybackInv, [Next]_vars
    PROVE  [Channel!Next]_<<nextWriteSerial, Received, last>>
<1>. USE RingAssumption
<1>1. CASE Producer
  <2>1. UNCHANGED <<Received, last>>
    BY <1>1 DEF Producer, BeginPush, PushUnblocked, PushTimesOut, CopyBegins, CopyEnds, Publish,
                readVars, Received, InBatch
  <2>2. CASE Publish
    <3>1. nextWriteSerial - Received < Capacity - ReadBufferSize
      BY <2>2 DEF Publish, PlaybackInv, RingInv, TypeOK, CursorInv, WindowInv, ReaderInv,
                  HasRoom, Received
    <3>. QED BY <2>1, <2>2, <3>1 DEF Publish, Channel!Next, Channel!Send
  <2>3. CASE ~Publish
    BY <1>1, <2>1, <2>3 DEF Producer, BeginPush, PushUnblocked, PushTimesOut, CopyBegins, CopyEnds
  <2>. QED BY <2>2, <2>3
<1>2. CASE Seeding \/ OpenLoad \/ PollLoad \/ ReadAddress \/ HandleProgress
  BY <1>2 DEF PlaybackInv, RingInv, TypeOK, Seeding, SeedLoad, SeedRange, SeedCursor, OpenLoad,
     PollLoad, ReadAddress, HandleProgress, prodVars, readVars, Received, InBatch
<1>3. CASE OpenRange \/ PollRange
  <2>1. nextFrameSerial' = nextFrameSerial /\ (InBatch' => serial' = nextFrameSerial) /\ ~InBatch
    BY <1>3, RangeBehindReader DEF PlaybackInv, OpenRange, PollRange, CursorInv, StartInv, Starting,
       RingInv, TypeOK, InBatch
  <2>. QED BY <1>3, <2>1 DEF OpenRange, PollRange, Received, prodVars
<1>4. CASE ReadBody
  <2>1. /\ data[IndexFromSerial(serial)] = serial /\ serial < nextWriteSerial
        /\ Received = serial
    BY <1>4, UnreadInSlot DEF PlaybackInv, RingInv, TypeOK, RangeInv, CursorInv, ReaderInv,
       InBatch, Received, ReadBody
  <2>2. Received' = serial + 1 /\ last' = serial /\ nextWriteSerial' = nextWriteSerial
    BY <1>4, <2>1 DEF ReadBody, Received, InBatch, prodVars
  <2>. QED BY <2>1, <2>2 DEF Channel!Next, Channel!Deliver
<1>5. CASE FinishBatch
  BY <1>5 DEF PlaybackInv, RingInv, TypeOK, RangeInv, FinishBatch, Received, InBatch, prodVars
<1>6. CASE UNCHANGED vars
  BY <1>6 DEF vars, prodVars, readVars, Received, InBatch
<1>. QED BY <1>1, <1>2, <1>3, <1>4, <1>5, <1>6 DEF Next, Reader

\* The playback ring implements the abstract channel: its one reader gets every
\* frame, once, in order and whole.
THEOREM RingImplementsChannel == ASSUME Backpressured PROVE Spec => IsChannel
<1>1. Init => Channel!Init
  BY DEF Init, Channel!Init, Received, InBatch, Torn
<1>2. PlaybackInv /\ [Next]_vars => [Channel!Next]_(Channel!chanVars)
  BY ChannelStep DEF Channel!chanVars
<1>. QED BY <1>1, <1>2, PlaybackSafe, PTL DEF Spec, IsChannel, Channel!Spec

\* Neither the read cursor nor the reader's position moves back.
THEOREM CursorsOnlyAdvance == ASSUME Backpressured PROVE Spec => CursorsAdvance
<1>1. PlaybackInv /\ [Next]_vars
        => [nextReadSerial' >= nextReadSerial /\ Received' >= Received]_vars
  <2>. SUFFICES ASSUME PlaybackInv, [Next]_vars
                PROVE  nextReadSerial' >= nextReadSerial /\ Received' >= Received
    OBVIOUS
  <2>1. Received \in Nat
    BY DEF PlaybackInv, RingInv, TypeOK, Received
  <2>2. Received' >= Received
    BY <2>1, ChannelStep DEF Channel!Next, Channel!Send, Channel!Deliver
  <2>3. nextReadSerial' >= nextReadSerial
    <3>1. CASE SeedCursor
      BY <3>1 DEF PlaybackInv, CursorInv, WindowInv, StartInv, Starting, SeedCursor
    <3>2. CASE HandleProgress
      BY <3>2 DEF HandleProgress, Acceptable, PlaybackInv, RingInv, TypeOK, CursorInv, WindowInv
    <3>3. CASE ~SeedCursor /\ ~HandleProgress
      BY <3>3 DEF PlaybackInv, RingInv, TypeOK, Next, Producer, BeginPush, PushUnblocked,
         PushTimesOut, CopyBegins, CopyEnds, Publish, Seeding, SeedLoad, SeedRange, Reader, OpenLoad,
         OpenRange, PollLoad, PollRange, ReadAddress, ReadBody, FinishBatch, servVars, vars
    <3>. QED BY <3>1, <3>2, <3>3
  <2>. QED BY <2>2, <2>3
<1>. QED BY <1>1, PlaybackSafe, PTL DEF Spec, CursorsAdvance
====
