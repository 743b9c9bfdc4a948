---- MODULE ShmRing ----
(***************************************************************************)
(* The shared-memory frame ring (Interprocess/source/ShmRing.h) between the*)
(* service's output thread, which pushes, and one client, which polls it   *)
(* through FrameMetricsSource.  Slots are overwritten in place, so a push  *)
(* is three steps (the copy begins, the copy ends, the serial is published)*)
(* and a frame is read in two (its swap chain address, then its body).     *)
(*                                                                         *)
(* A backpressured (playback) ring adds the service's action thread, which *)
(* seeds the read cursor in StartTracking and advances it in               *)
(* ReportFrameReadProgress; those messages travel a FIFO pipe.             *)
(*                                                                         *)
(* A frame is abstracted to the serial it was pushed under.                *)
(***************************************************************************)
EXTENDS Integers, Sequences

CONSTANTS Capacity,        \* data_.size()
          ReadBufferSize,  \* template argument, 4 in the code
          Backpressured,   \* backpressured_
          TimedPush,       \* the caller gives Push a timeout
          MaxSerial        \* bound: frames pushed in a behaviour

\* The constructor throws unless the capacity is twice the read buffer.
ASSUME RingAssumption ==
    /\ ReadBufferSize \in Nat \ {0}
    /\ Capacity \in Nat
    /\ Capacity >= 2 * ReadBufferSize
    /\ Backpressured \in BOOLEAN
    /\ TimedPush \in BOOLEAN
    /\ MaxSerial \in Nat

Torn == -1    \* a slot whose copy is under way
Blank == -2   \* a slot never written

VARIABLES
    data,             \* the slots
    nextWriteSerial,  \* the ring's write serial
    nextReadSerial,   \* the ring's read cursor (backpressured rings)
    ppc,              \* the producer's place in Push
    rpc,              \* the consumer side's place
    firstLoad,        \* GetSerialRange: the first load of nextWriteSerial
    range,            \* GetSerialRange: the pair returned last
    nextFrameSerial,  \* FrameMetricsSource::nextFrameSerial_
    serial,           \* FrameMetricsSource::ProcessNewFrames_: the loop variable
    address,          \* the frame whose swap chain address was read
    last,             \* the frame whose body was processed last
    cursor,           \* TrackedTarget::backpressureReadSerial
    progress          \* ReportFrameReadProgress messages under way

prodVars == <<data, nextWriteSerial, ppc>>
readVars == <<rpc, firstLoad, range, nextFrameSerial, serial, address, last>>
servVars == <<nextReadSerial, cursor, progress>>
vars == <<prodVars, readVars, servVars>>

IndexFromSerial(s) == s % Capacity

Init ==
    /\ data = [i \in 0 .. Capacity - 1 |-> Blank]
    /\ nextWriteSerial = 0
    /\ nextReadSerial = 0
    /\ ppc = "idle"
    /\ rpc = IF Backpressured THEN "seed" ELSE "open"
    /\ firstLoad = 0
    /\ range = <<0, 0>>
    /\ nextFrameSerial = 0
    /\ serial = 0
    /\ address = Blank
    /\ last = Torn
    /\ cursor = 0
    /\ progress = <<>>

----
\* Push, on the service's output thread.

BeginPush ==
    /\ ppc = "idle"
    /\ nextWriteSerial < MaxSerial
    /\ ppc' = IF Backpressured THEN "wait" ELSE "copy"
    /\ UNCHANGED <<data, nextWriteSerial, readVars, servVars>>

\* Mutant: the wait ignores the read buffer and is off by one.
HasRoomNoBuffer == nextWriteSerial <= nextReadSerial + Capacity

HasRoom == nextWriteSerial < nextReadSerial + Capacity - ReadBufferSize

\* The backpressure loop leaves its wait; until then it sleeps 10 ms a round.
PushUnblocked ==
    /\ ppc = "wait"
    /\ HasRoom
    /\ ppc' = "copy"
    /\ UNCHANGED <<data, nextWriteSerial, readVars, servVars>>

\* Push returns false and writes nothing.
PushTimesOut ==
    /\ ppc = "wait"
    /\ TimedPush
    /\ ~HasRoom
    /\ ppc' = "idle"
    /\ UNCHANGED <<data, nextWriteSerial, readVars, servVars>>

CopyBegins ==
    /\ ppc = "copy"
    /\ data' = [data EXCEPT ![IndexFromSerial(nextWriteSerial)] = Torn]
    /\ ppc' = "copying"
    /\ UNCHANGED <<nextWriteSerial, readVars, servVars>>

CopyEnds ==
    /\ ppc = "copying"
    /\ data' = [data EXCEPT ![IndexFromSerial(nextWriteSerial)] = nextWriteSerial]
    /\ ppc' = "publish"
    /\ UNCHANGED <<nextWriteSerial, readVars, servVars>>

Publish ==
    /\ ppc = "publish"
    /\ nextWriteSerial' = nextWriteSerial + 1
    /\ ppc' = "idle"
    /\ UNCHANGED <<data, readVars, servVars>>

Producer == BeginPush \/ PushUnblocked \/ PushTimesOut \/ CopyBegins \/ CopyEnds \/ Publish

----
\* GetSerialRange loads nextWriteSerial_ once to choose the branch and once
\* more for the result.

\* Mutant: the first lap is not told apart.
RangeOfNoFirstLap(load1, load2) == <<load2 - Capacity + ReadBufferSize, load2>>

\* Mutant: the range starts at the oldest slot, the next one to be overwritten.
RangeOfNoBuffer(load1, load2) ==
    IF load1 < Capacity THEN <<0, load2>> ELSE <<load2 - Capacity, load2>>

RangeOf(load1, load2) ==
    IF load1 < Capacity THEN <<0, load2>>
                        ELSE <<load2 - Capacity + ReadBufferSize, load2>>

\* StartTracking, on the action thread, after UpdateTracking started playback:
\* the first serial of the range becomes the read cursor.
SeedLoad ==
    /\ rpc = "seed"
    /\ firstLoad' = nextWriteSerial
    /\ rpc' = "seedrange"
    /\ UNCHANGED <<range, nextFrameSerial, serial, address, last, prodVars, servVars>>

SeedRange ==
    /\ rpc = "seedrange"
    /\ range' = RangeOf(firstLoad, nextWriteSerial)
    /\ rpc' = "seedset"
    /\ UNCHANGED <<firstLoad, nextFrameSerial, serial, address, last, prodVars, servVars>>

SeedCursor ==
    /\ rpc = "seedset"
    /\ cursor' = range[1]
    /\ nextReadSerial' = range[1]
    /\ rpc' = "open"
    /\ UNCHANGED <<firstLoad, range, nextFrameSerial, serial, address, last, progress, prodVars>>

\* The client opens the store: FrameMetricsSource's constructor.
OpenLoad ==
    /\ rpc = "open"
    /\ firstLoad' = nextWriteSerial
    /\ rpc' = "openrange"
    /\ UNCHANGED <<range, nextFrameSerial, serial, address, last, prodVars, servVars>>

OpenRange ==
    /\ rpc = "openrange"
    /\ range' = RangeOf(firstLoad, nextWriteSerial)
    /\ nextFrameSerial' = range'[1]
    /\ rpc' = "idle"
    /\ UNCHANGED <<firstLoad, serial, address, last, prodVars, servVars>>

----
\* ProcessNewFrames_, on the client's polling thread.

PollLoad ==
    /\ rpc = "idle"
    /\ firstLoad' = nextWriteSerial
    /\ rpc' = "pollrange"
    /\ UNCHANGED <<range, nextFrameSerial, serial, address, last, prodVars, servVars>>

\* Serials the ring no longer offers are skipped; with nothing new the poll ends.
PollRange ==
    /\ rpc = "pollrange"
    /\ range' = RangeOf(firstLoad, nextWriteSerial)
    /\ nextFrameSerial' = IF range'[1] > nextFrameSerial THEN range'[1] ELSE nextFrameSerial
    /\ serial' = nextFrameSerial'
    /\ rpc' = IF nextFrameSerial' >= range'[2] THEN "idle" ELSE "address"
    /\ UNCHANGED <<firstLoad, address, last, prodVars, servVars>>

\* At(serial) returns a reference into the ring: the swap chain address is
\* read through it first ...
ReadAddress ==
    /\ rpc = "address"
    /\ address' = data[IndexFromSerial(serial)]
    /\ rpc' = "body"
    /\ UNCHANGED <<firstLoad, range, nextFrameSerial, serial, last, prodVars, servVars>>

\* ... and the whole frame is copied through it in ProcessFrame.
ReadBody ==
    /\ rpc = "body"
    /\ last' = data[IndexFromSerial(serial)]
    /\ serial' = serial + 1
    /\ rpc' = IF serial + 1 < range[2] THEN "address" ELSE "done"
    /\ UNCHANGED <<firstLoad, range, nextFrameSerial, address, prodVars, servVars>>

\* Mutant: the report is not sent.
FinishBatchSilent ==
    /\ rpc = "done"
    /\ nextFrameSerial' = range[2]
    /\ rpc' = "idle"
    /\ UNCHANGED <<firstLoad, range, serial, address, last, servVars, prodVars>>

\* The batch ends: the client's position moves, and a backpressured target
\* reports it to the service.
FinishBatch ==
    /\ rpc = "done"
    /\ nextFrameSerial' = range[2]
    /\ progress' = IF Backpressured THEN Append(progress, range[2]) ELSE progress
    /\ rpc' = "idle"
    /\ UNCHANGED <<firstLoad, range, serial, address, last, nextReadSerial, cursor, prodVars>>

Seeding == SeedLoad \/ SeedRange \/ SeedCursor
Reader == \/ OpenLoad \/ OpenRange
          \/ PollLoad \/ PollRange \/ ReadAddress \/ ReadBody \/ FinishBatch

----
\* ReportFrameReadProgress, on the action thread: a report that goes back or
\* past the write serial is refused.

Acceptable(n) == n >= cursor /\ n <= nextWriteSerial

HandleProgress ==
    /\ progress # <<>>
    /\ LET n == Head(progress)
       IN  /\ cursor' = IF Acceptable(n) THEN n ELSE cursor
           /\ nextReadSerial' = IF Acceptable(n) THEN n ELSE nextReadSerial
    /\ progress' = Tail(progress)
    /\ UNCHANGED <<prodVars, readVars>>

Next == Producer \/ Seeding \/ Reader \/ HandleProgress

Spec == Init /\ [][Next]_vars

\* Threads keep running; the client keeps polling.
Fairness ==
    /\ WF_vars(Producer)
    /\ WF_vars(Seeding)
    /\ WF_vars(Reader)
    /\ WF_vars(HandleProgress)

FairSpec == Spec /\ Fairness

----
Slots == 0 .. Capacity - 1

\* The variables keep their types: serials are naturals, a slot holds a serial
\* or is blank or torn, and every thread is at a place of its code.
TypeOK ==
    /\ data \in [Slots -> Int]
    /\ nextWriteSerial \in Nat
    /\ nextReadSerial \in Nat
    /\ ppc \in {"idle", "wait", "copy", "copying", "publish"}
    /\ rpc \in {"seed", "seedrange", "seedset", "open", "openrange",
                "idle", "pollrange", "address", "body", "done"}
    /\ firstLoad \in Nat
    /\ range \in Nat \X Nat
    /\ nextFrameSerial \in Nat
    /\ serial \in Nat
    /\ address \in Int
    /\ last \in Int
    /\ cursor \in Nat
    /\ progress \in Seq(Nat)

InBatch == rpc \in {"address", "body", "done"}

\* The frames the client has taken out of the ring so far.
Received == IF InBatch THEN serial ELSE nextFrameSerial

\* A backpressured ring never loses or damages a frame its reader has not taken:
\* Push waits for the read cursor, which trails the reader, so the slot of every
\* published unread serial still holds that frame.
UnreadIntact ==
    Backpressured =>
        \A s \in Received .. nextWriteSerial - 1 : data[IndexFromSerial(s)] = s

\* ReportFrameReadProgress never refuses what the middleware sends: a report
\* under way is not behind the cursor nor past the write serial when handled.
ReportsAcceptable == progress # <<>> => Acceptable(Head(progress))

\* What GetSerialRange's read buffer buys on a ring without backpressure: once
\* the ring has wrapped, a frame of the range is what At returns for as long as
\* the producer has published fewer than ReadBufferSize frames since.
MarginProtects ==
    /\ rpc \in {"address", "body"}
    /\ firstLoad >= Capacity
    /\ nextWriteSerial < range[2] + ReadBufferSize
    => data[IndexFromSerial(serial)] = serial

\* Neither the ring's read cursor nor the client's position ever moves back.
CursorsAdvance ==
    [][nextReadSerial' >= nextReadSerial /\ Received' >= Received]_vars

\* With the client polling, backpressure always clears: every frame is delivered.
AllDelivered == <>(Received = MaxSerial)

\* A backpressured ring with a fresh owner implements the lossless channel.
Channel == INSTANCE FrameChannel
             WITH Window <- Capacity - ReadBufferSize,
                  sent <- nextWriteSerial, received <- Received
IsChannel == Channel!Spec
====
