---- MODULE PresentRingProofs ----
(***************************************************************************)
(* What the operations of the ring of completed presents do, for every size*)
(* of the ring and every set S of presents: which entries each of them     *)
(* leaves, at which places.                                                *)
(***************************************************************************)
EXTENDS PresentRing, TLAPS, WellFoundedInduction

RingType(S) == [slots : [0 .. RingSize - 1 -> S],
                index : 0 .. RingSize - 1,
                count : 0 .. RingSize,
                ready : 0 .. RingSize]

RingOK(r, S) == r \in RingType(S) /\ r.ready <= r.count

----
\* Numbers.

LessOnNat == {ss \in Nat \X Nat : ss[1] < ss[2]}

\* A set of naturals has a least element.
LEMMA LeastNatural ==
    ASSUME NEW T, T \subseteq Nat, T # {}
    PROVE  \E x \in T : \A y \in T : x <= y
<1>1. IsWellFoundedOn(LessOnNat, Nat)
  BY NatLessThanWellFounded DEF OpToRel, LessOnNat
<1>2. PICK x \in T : \A y \in T : ~ (<<y, x>> \in LessOnNat)
  BY <1>1, WFMin
<1>3. ASSUME NEW y \in T PROVE ~(y < x)
  <2>1. <<y, x>> \notin LessOnNat
    BY <1>2
  <2>2. <<y, x>> \in Nat \X Nat
    OBVIOUS
  <2>. QED BY <2>1, <2>2 DEF LessOnNat
<1>. QED BY <1>3

\* An index is at most one lap past the end of the ring.
LEMMA RingIndexIs ==
    ASSUME NEW a \in Nat, a < 2 * RingSize
    PROVE  GetRingIndex(a) = IF a < RingSize THEN a ELSE a - RingSize
<1>. DEFINE q == a \div RingSize
            m == a % RingSize
<1>1. /\ q \in Int /\ m \in Int
      /\ a = RingSize * q + m /\ 0 <= m /\ m < RingSize
  BY RingSizeAssumption, SMT
<1>2. m = GetRingIndex(a)
  BY DEF GetRingIndex
<1>. HIDE DEF q, m
<1>3. CASE q = 0
  BY <1>1, <1>2, <1>3, RingSizeAssumption
<1>4. CASE q = 1
  BY <1>1, <1>2, <1>4, RingSizeAssumption
<1>5. CASE q >= 2
  <2>1. RingSize * q >= RingSize * 2
    BY <1>1, <1>5, RingSizeAssumption, SMT
  <2>. QED BY <2>1, <1>1, RingSizeAssumption
<1>6. CASE q <= -1
  <2>1. RingSize * q <= RingSize * (-1)
    BY <1>1, <1>6, RingSizeAssumption, SMT
  <2>. QED BY <2>1, <1>1, RingSizeAssumption
<1>. QED BY <1>1, <1>3, <1>4, <1>5, <1>6

\* The slot i places after x.
Place(x, i) == IF x + i < RingSize THEN x + i ELSE x + i - RingSize

LEMMA PlaceIs ==
    ASSUME NEW x \in 0 .. RingSize - 1, NEW i \in 0 .. RingSize
    PROVE  GetRingIndex(x + i) = Place(x, i) /\ Place(x, i) \in 0 .. RingSize - 1
<1>1. x + i \in Nat /\ x + i < 2 * RingSize
  BY RingSizeAssumption
<1>2. GetRingIndex(x + i) = IF x + i < RingSize THEN x + i ELSE x + i - RingSize
  BY <1>1, RingIndexIs, RingSizeAssumption
<1>. QED BY <1>1, <1>2, RingSizeAssumption DEF Place

LEMMA PlacesDiffer ==
    ASSUME NEW x \in 0 .. RingSize - 1, NEW i \in 0 .. RingSize - 1,
           NEW j \in 0 .. RingSize - 1, i # j
    PROVE  Place(x, i) # Place(x, j)
BY RingSizeAssumption DEF Place

LEMMA PlacesAdd ==
    ASSUME NEW x \in 0 .. RingSize - 1, NEW n \in 0 .. RingSize, NEW i \in 0 .. RingSize - 1,
           n + i < RingSize
    PROVE  Place(Place(x, n), i) = Place(x, n + i)
BY RingSizeAssumption DEF Place

LEMMA PlaceFullLap ==
    ASSUME NEW x \in 0 .. RingSize - 1
    PROVE  Place(Place(x, 1), RingSize - 1) = x
BY RingSizeAssumption DEF Place

----
\* The operations of the ring.

\* The slot of an entry.
LEMMA EntryIs ==
    ASSUME NEW S, NEW r, RingOK(r, S)
    PROVE  \A i \in 0 .. RingSize - 1 :
             /\ Entry(r, i) = r.slots[Place(r.index, i)]
             /\ Entry(r, i) \in S
<1>. SUFFICES ASSUME NEW i \in 0 .. RingSize - 1
              PROVE  /\ Entry(r, i) = r.slots[Place(r.index, i)]
                     /\ Entry(r, i) \in S
  OBVIOUS
<1>1. r.index \in 0 .. RingSize - 1 /\ i \in 0 .. RingSize
  BY RingSizeAssumption DEF RingOK, RingType
<1>2. GetRingIndex(r.index + i) = Place(r.index, i) /\ Place(r.index, i) \in 0 .. RingSize - 1
  BY <1>1, PlaceIs
<1>3. Entry(r, i) = r.slots[Place(r.index, i)]
  BY <1>2 DEF Entry
<1>. QED BY <1>2, <1>3 DEF RingOK, RingType

\* UpdateReadyCount moves only the ready count, to the first deferred present.
LEMMA ReadyCountIs ==
    ASSUME NEW S, NEW r, RingOK(r, S), NEW D
    PROVE  LET s == UpdateReadyCount(r, D)
           IN /\ RingOK(s, S)
              /\ s.slots = r.slots /\ s.index = r.index /\ s.count = r.count
              /\ s.ready \in r.ready .. r.count
              /\ \A i \in r.ready .. s.ready - 1 : Entry(r, i) \notin D
              /\ s.ready = r.count \/ Entry(r, s.ready) \in D
              /\ \A i : Entry(s, i) = Entry(r, i)
<1>. DEFINE T == {n \in r.ready .. r.count : n = r.count \/ Entry(r, n) \in D}
            Good(n) == /\ \A i \in r.ready .. n - 1 : Entry(r, i) \notin D
                       /\ n = r.count \/ Entry(r, n) \in D
            c == CHOOSE n \in r.ready .. r.count : Good(n)
<1>1. r.ready \in Nat /\ r.count \in Nat /\ r.ready <= r.count
  BY RingSizeAssumption DEF RingOK, RingType
<1>2. T \subseteq Nat /\ r.count \in T
  BY <1>1
<1>3. PICK n \in T : \A m \in T : n <= m
  BY <1>2, LeastNatural
<1>4. Good(n) /\ n \in r.ready .. r.count
  BY <1>1, <1>3
<1>5. c \in r.ready .. r.count /\ Good(c)
  BY <1>4
<1>6. UpdateReadyCount(r, D) = [r EXCEPT !.ready = c]
  BY DEF UpdateReadyCount
<1>. HIDE DEF c
<1>7. /\ UpdateReadyCount(r, D).ready = c
      /\ UpdateReadyCount(r, D).slots = r.slots
      /\ UpdateReadyCount(r, D).index = r.index
      /\ UpdateReadyCount(r, D).count = r.count
      /\ RingOK(UpdateReadyCount(r, D), S)
  <2>1. c \in 0 .. RingSize /\ c <= r.count
    BY <1>1, <1>5, RingSizeAssumption DEF RingOK, RingType
  <2>. QED BY <1>6, <2>1 DEF RingOK, RingType
<1>. QED BY <1>5, <1>7 DEF Entry

\* A present is appended after the others.
LEMMA AppendIs ==
    ASSUME NEW S, NEW r, RingOK(r, S), r.count < RingSize, NEW p \in S
    PROVE  LET s == AppendCompleted(r, p)
           IN /\ RingOK(s, S)
              /\ s.count = r.count + 1 /\ s.ready = r.ready
              /\ \A i \in 0 .. r.count - 1 : Entry(s, i) = Entry(r, i)
              /\ Entry(s, r.count) = p
<1>. DEFINE s == AppendCompleted(r, p)
            k == Place(r.index, r.count)
<1>1. r.count \in 0 .. RingSize - 1 /\ r.index \in 0 .. RingSize - 1 /\ r.count \in 0 .. RingSize
  BY RingSizeAssumption DEF RingOK, RingType
<1>2. GetRingIndex(r.index + r.count) = k /\ k \in 0 .. RingSize - 1
  BY <1>1, PlaceIs
<1>. HIDE DEF k
<1>3. /\ s.slots = [r.slots EXCEPT ![k] = p] /\ s.index = r.index
      /\ s.count = r.count + 1 /\ s.ready = r.ready /\ RingOK(s, S)
  <2>1. s = [r EXCEPT !.slots = [r.slots EXCEPT ![k] = p], !.count = r.count + 1]
    BY <1>2 DEF AppendCompleted
  <2>2. [r.slots EXCEPT ![k] = p] \in [0 .. RingSize - 1 -> S]
    BY <1>2 DEF RingOK, RingType
  <2>3. r.count + 1 \in 0 .. RingSize /\ r.ready <= r.count + 1
    BY <1>1, RingSizeAssumption DEF RingOK, RingType
  <2>. QED BY <2>1, <2>2, <2>3 DEF RingOK, RingType
<1>. HIDE DEF s
<1>4. r.slots \in [0 .. RingSize - 1 -> S]
  BY DEF RingOK, RingType
<1>7. \A i \in 0 .. RingSize - 1 : Entry(s, i) = s.slots[Place(s.index, i)]
  <2>1. RingOK(s, S)
    BY <1>3
  <2>. QED BY <2>1, EntryIs
<1>5. ASSUME NEW i \in 0 .. r.count - 1 PROVE Entry(s, i) = Entry(r, i)
  <2>1. i \in 0 .. RingSize - 1 /\ i # r.count
    BY <1>1, RingSizeAssumption
  <2>2. Place(r.index, i) # k /\ Place(r.index, i) \in 0 .. RingSize - 1
    <3>1. Place(r.index, i) # Place(r.index, r.count)
      BY <1>1, <2>1, PlacesDiffer
    <3>2. Place(r.index, i) \in 0 .. RingSize - 1
      <4>1. i \in 0 .. RingSize
        BY <2>1, RingSizeAssumption
      <4>. QED BY <1>1, <4>1, PlaceIs
    <3>. QED BY <3>1, <3>2, Zenon DEF k
  <2>3. Entry(r, i) = r.slots[Place(r.index, i)] /\ Entry(s, i) = s.slots[Place(r.index, i)]
    <3>1. Entry(r, i) = r.slots[Place(r.index, i)]
      BY <2>1, EntryIs, Zenon
    <3>2. Entry(s, i) = s.slots[Place(s.index, i)]
      BY <1>7, <2>1, Zenon
    <3>. QED BY <1>3, <3>1, <3>2, Zenon
  <2>. QED BY <1>2, <1>3, <1>4, <2>2, <2>3
<1>6. Entry(s, r.count) = p
  <2>1. Entry(s, r.count) = s.slots[k]
    <3>1. Entry(s, r.count) = s.slots[Place(s.index, r.count)]
      BY <1>1, <1>3, <1>7, Zenon
    <3>. QED BY <1>3, <3>1, Zenon DEF k
  <2>. QED BY <1>2, <1>3, <1>4, <2>1
<1>. QED BY <1>3, <1>5, <1>6 DEF s

\* In a full ring the oldest present goes and the others move up.
LEMMA OverwriteIs ==
    ASSUME NEW S, NEW r, RingOK(r, S), r.count = RingSize, NEW p \in S
    PROVE  LET s == OverwriteOldest(r, p)
           IN /\ RingOK(s, S)
              /\ s.count = r.count
              /\ s.ready = IF r.ready > 0 THEN r.ready - 1 ELSE 0
              /\ \A i \in 0 .. r.count - 2 : Entry(s, i) = Entry(r, i + 1)
              /\ Entry(s, r.count - 1) = p
<1>. DEFINE s == OverwriteOldest(r, p)
            k == Place(r.index, 1)
<1>1. r.index \in 0 .. RingSize - 1 /\ 1 \in 0 .. RingSize
  BY RingSizeAssumption DEF RingOK, RingType
<1>2. GetRingIndex(r.index + 1) = k /\ k \in 0 .. RingSize - 1
  BY <1>1, PlaceIs
<1>. HIDE DEF k
<1>3. /\ s.slots = [r.slots EXCEPT ![r.index] = p] /\ s.index = k
      /\ s.count = r.count /\ s.ready = (IF r.ready > 0 THEN r.ready - 1 ELSE 0)
      /\ RingOK(s, S)
  <2>. DEFINE n == IF r.ready > 0 THEN r.ready - 1 ELSE 0
  <2>1. s = [r EXCEPT !.slots = [r.slots EXCEPT ![r.index] = p], !.index = k, !.ready = n]
    BY <1>2 DEF OverwriteOldest
  <2>2. [r.slots EXCEPT ![r.index] = p] \in [0 .. RingSize - 1 -> S]
    BY <1>1 DEF RingOK, RingType
  <2>3. n \in 0 .. RingSize /\ n <= r.count
    BY <1>1, RingSizeAssumption DEF RingOK, RingType
  <2>. HIDE DEF n
  <2>4. s.slots = [r.slots EXCEPT ![r.index] = p] /\ s.index = k
        /\ s.count = r.count /\ s.ready = n /\ RingOK(s, S)
    BY <1>2, <2>1, <2>2, <2>3 DEF RingOK, RingType
  <2>. QED BY <2>4 DEF n
<1>. HIDE DEF s
<1>4. r.slots \in [0 .. RingSize - 1 -> S]
  BY DEF RingOK, RingType
<1>7. \A i \in 0 .. RingSize - 1 : Entry(s, i) = s.slots[Place(s.index, i)]
  <2>1. RingOK(s, S)
    BY <1>3
  <2>. QED BY <2>1, EntryIs
<1>5. ASSUME NEW i \in 0 .. r.count - 2 PROVE Entry(s, i) = Entry(r, i + 1)
  <2>1. i \in 0 .. RingSize - 1 /\ i + 1 \in 0 .. RingSize - 1 /\ 1 + i < RingSize /\ 1 + i = i + 1
        /\ i + 1 # 0 /\ 0 \in 0 .. RingSize - 1 /\ i + 1 \in 0 .. RingSize
    BY RingSizeAssumption
  <2>2. Entry(s, i) = s.slots[Place(k, i)] /\ Entry(r, i + 1) = r.slots[Place(r.index, i + 1)]
    BY <1>3, <1>7, <2>1, EntryIs
  <2>3. Place(k, i) = Place(r.index, 1 + i)
    BY <1>1, <2>1, PlacesAdd DEF k
  <2>4. Place(r.index, i + 1) # Place(r.index, 0)
    BY <1>1, <2>1, PlacesDiffer
  <2>5. Place(r.index, 0) = r.index
    BY <1>1, RingSizeAssumption DEF Place
  <2>6. Place(r.index, i + 1) \in 0 .. RingSize - 1
    BY <1>1, <2>1, PlaceIs
  <2>. QED BY <1>1, <1>3, <1>4, <2>1, <2>2, <2>3, <2>4, <2>5, <2>6
<1>6. Entry(s, r.count - 1) = p
  <2>1. RingSize - 1 \in 0 .. RingSize - 1
    BY RingSizeAssumption
  <2>2. Entry(s, RingSize - 1) = s.slots[Place(k, RingSize - 1)]
    BY <1>3, <1>7, <2>1, EntryIs
  <2>3. Place(k, RingSize - 1) = r.index
    BY <1>1, PlaceFullLap DEF k
  <2>. QED BY <1>1, <1>3, <1>4, <2>2, <2>3
<1>. QED BY <1>3, <1>5, <1>6 DEF s

\* The ready prefix is taken and the rest stays.
LEMMA TakeIs ==
    ASSUME NEW S, NoPresent \in S, NEW r, RingOK(r, S)
    PROVE  LET s == TakeReady(r)
           IN /\ RingOK(s, S)
              /\ s.count = r.count - r.ready /\ s.ready = 0
              /\ \A i \in 0 .. r.count - r.ready - 1 : Entry(s, i) = Entry(r, i + r.ready)
<1>. DEFINE s == TakeReady(r)
            k == Place(r.index, r.ready)
<1>1. /\ r.index \in 0 .. RingSize - 1 /\ r.ready \in 0 .. RingSize
      /\ r.count \in 0 .. RingSize /\ r.ready <= r.count
  BY RingSizeAssumption DEF RingOK, RingType
<1>2. GetRingIndex(r.index + r.ready) = k /\ k \in 0 .. RingSize - 1
  BY <1>1, PlaceIs
<1>. HIDE DEF k
<1>3. /\ s.index = k /\ s.count = r.count - r.ready /\ s.ready = 0
      /\ \A j \in 0 .. RingSize - 1 :
           (\A i \in 0 .. r.ready - 1 : j # GetRingIndex(r.index + i)) => s.slots[j] = r.slots[j]
  BY <1>2 DEF TakeReady
<1>4. RingOK(s, S)
  <2>1. s.slots \in [0 .. RingSize - 1 -> S]
    <3>1. NoPresent \in S /\ r.slots \in [0 .. RingSize - 1 -> S]
      BY DEF RingOK, RingType, NoPresent
    <3>. QED BY <3>1 DEF TakeReady
  <2>2. s = [slots |-> s.slots, index |-> s.index, count |-> s.count, ready |-> s.ready]
    BY DEF TakeReady
  <2>. HIDE DEF s
  <2>3. /\ s.index \in 0 .. RingSize - 1 /\ s.count \in 0 .. RingSize
        /\ s.ready \in 0 .. RingSize /\ s.ready <= s.count
    BY <1>1, <1>2, <1>3, RingSizeAssumption
  <2>. QED BY <2>1, <2>2, <2>3 DEF RingOK, RingType
<1>. HIDE DEF s
<1>5. ASSUME NEW i \in 0 .. r.count - r.ready - 1
      PROVE  Entry(s, i) = Entry(r, i + r.ready)
  <2>. DEFINE n == i + r.ready
              j == Place(r.index, n)
  <2>1. /\ i \in 0 .. RingSize - 1 /\ n \in 0 .. RingSize - 1 /\ n \in 0 .. RingSize
        /\ r.ready + i < RingSize /\ r.ready + i = n
    BY <1>1, RingSizeAssumption
  <2>2. j \in 0 .. RingSize - 1
    BY <1>1, <2>1, PlaceIs
  <2>3. Entry(r, n) = r.slots[j] /\ Entry(s, i) = s.slots[Place(k, i)]
    BY <1>3, <1>4, <2>1, EntryIs
  <2>4. Place(k, i) = j
    BY <1>1, <2>1, PlacesAdd DEF k
  <2>5. ASSUME NEW h \in 0 .. r.ready - 1 PROVE j # GetRingIndex(r.index + h)
    <3>1. h \in 0 .. RingSize - 1 /\ h \in 0 .. RingSize /\ h # n
      BY <1>1, RingSizeAssumption
    <3>2. Place(r.index, h) # j
      BY <1>1, <2>1, <3>1, PlacesDiffer
    <3>3. GetRingIndex(r.index + h) = Place(r.index, h)
      BY <1>1, <3>1, PlaceIs
    <3>. QED BY <3>2, <3>3
  <2>. HIDE DEF j
  <2>6. s.slots[j] = r.slots[j]
    BY <1>3, <2>2, <2>5
  <2>. QED BY <2>3, <2>4, <2>6 DEF n
<1>. QED BY <1>3, <1>4, <1>5 DEF s

----
\* The presents in the ring, where each is once.

Entries(r) == {Entry(r, i) : i \in 0 .. r.count - 1}

Distinct(r) ==
    \A i, j \in 0 .. r.count - 1 : Entry(r, i) = Entry(r, j) => i = j

LEMMA ReadyEntries ==
    ASSUME NEW S, NEW r, RingOK(r, S), NEW D
    PROVE  LET s == UpdateReadyCount(r, D)
           IN Entries(s) = Entries(r) /\ (Distinct(r) => Distinct(s))
BY ReadyCountIs DEF Entries, Distinct

LEMMA AppendEntries ==
    ASSUME NEW S, NEW r, RingOK(r, S), r.count < RingSize, NEW p \in S,
           Distinct(r), p \notin Entries(r)
    PROVE  LET s == AppendCompleted(r, p)
           IN Entries(s) = Entries(r) \cup {p} /\ Distinct(s)
<1>. DEFINE s == AppendCompleted(r, p)
<1>1. /\ s.count = r.count + 1
      /\ \A i \in 0 .. r.count - 1 : Entry(s, i) = Entry(r, i)
      /\ Entry(s, r.count) = p
  BY AppendIs
<1>2. r.count \in Nat
  BY RingSizeAssumption DEF RingOK, RingType
<1>. HIDE DEF s
<1>3. \A i : i \in 0 .. s.count - 1 <=> i \in 0 .. r.count - 1 \/ i = r.count
  BY <1>1, <1>2
<1>4. r.count \notin 0 .. r.count - 1
  BY <1>2
<1>5. Entries(s) = Entries(r) \cup {p}
  BY <1>1, <1>3 DEF Entries
<1>6. Distinct(s)
  BY <1>1, <1>3, <1>4 DEF Entries, Distinct
<1>. QED BY <1>5, <1>6 DEF s

LEMMA OverwriteEntries ==
    ASSUME NEW S, NEW r, RingOK(r, S), r.count = RingSize, NEW p \in S,
           Distinct(r), p \notin Entries(r)
    PROVE  LET s == OverwriteOldest(r, p)
           IN /\ Entry(r, 0) \in Entries(r)
              /\ Entries(s) = (Entries(r) \ {Entry(r, 0)}) \cup {p}
              /\ Distinct(s)
<1>. DEFINE s == OverwriteOldest(r, p)
<1>1. /\ s.count = r.count
      /\ \A i \in 0 .. r.count - 2 : Entry(s, i) = Entry(r, i + 1)
      /\ Entry(s, r.count - 1) = p
  BY OverwriteIs
<1>2. r.count \in Nat \ {0} /\ 0 \in 0 .. r.count - 1
  BY RingSizeAssumption DEF RingOK, RingType
<1>. HIDE DEF s
<1>3. \A i : i \in 0 .. s.count - 1 <=> i \in 0 .. r.count - 2 \/ i = r.count - 1
  BY <1>1, <1>2
<1>4. r.count - 1 \notin 0 .. r.count - 2
  BY <1>2
<1>5. \A i \in 0 .. r.count - 2 : i + 1 \in 0 .. r.count - 1 /\ i + 1 # 0
  BY <1>2
<1>6. \A i \in 0 .. r.count - 1 : i # 0 => i - 1 \in 0 .. r.count - 2 /\ (i - 1) + 1 = i
  BY <1>2
<1>7. Entries(s) = (Entries(r) \ {Entry(r, 0)}) \cup {p}
  <2>1. ASSUME NEW q \in Entries(s) PROVE q \in (Entries(r) \ {Entry(r, 0)}) \cup {p}
    BY <1>1, <1>2, <1>3, <1>5 DEF Entries, Distinct
  <2>2. ASSUME NEW q \in Entries(r), q # Entry(r, 0) PROVE q \in Entries(s)
    <3>1. PICK i \in 0 .. r.count - 1 : q = Entry(r, i)
      BY DEF Entries
    <3>2. i - 1 \in 0 .. r.count - 2 /\ (i - 1) + 1 = i
      BY <1>6, <2>2, <3>1
    <3>3. Entry(s, i - 1) = q /\ i - 1 \in 0 .. s.count - 1
      BY <1>1, <1>3, <3>1, <3>2
    <3>. QED BY <3>3 DEF Entries
  <2>3. p \in Entries(s)
    BY <1>1, <1>3 DEF Entries
  <2>. QED BY <2>1, <2>2, <2>3
<1>8. Distinct(s)
  <2>. SUFFICES ASSUME NEW i \in 0 .. s.count - 1, NEW j \in 0 .. s.count - 1,
                       Entry(s, i) = Entry(s, j)
                PROVE  i = j
    BY DEF Distinct
  <2>1. CASE i \in 0 .. r.count - 2 /\ j \in 0 .. r.count - 2
    <3>1. Entry(r, i + 1) = Entry(r, j + 1)
      BY <1>1, <2>1
    <3>2. i + 1 = j + 1
      BY <1>5, <2>1, <3>1 DEF Distinct
    <3>. QED BY <1>2, <2>1, <3>2
  <2>2. \A h \in 0 .. r.count - 2 : Entry(s, h) \in Entries(r)
    BY <1>1, <1>5 DEF Entries
  <2>. QED BY <1>1, <1>3, <2>1, <2>2
<1>. QED BY <1>2, <1>7, <1>8 DEF s, Entries

LEMMA TakeEntries ==
    ASSUME NEW S, NoPresent \in S, NEW r, RingOK(r, S), Distinct(r)
    PROVE  LET s == TakeReady(r)
               taken == {Entry(r, i) : i \in 0 .. r.ready - 1}
           IN /\ taken \subseteq Entries(r)
              /\ Entries(s) = Entries(r) \ taken
              /\ Distinct(s)
<1>. DEFINE s == TakeReady(r)
            taken == {Entry(r, i) : i \in 0 .. r.ready - 1}
<1>1. /\ s.count = r.count - r.ready
      /\ \A i \in 0 .. r.count - r.ready - 1 : Entry(s, i) = Entry(r, i + r.ready)
  BY TakeIs
<1>2. r.count \in Nat /\ r.ready \in Nat /\ r.ready <= r.count
  BY RingSizeAssumption DEF RingOK, RingType
<1>. HIDE DEF s
<1>3. \A i \in 0 .. r.ready - 1 : i \in 0 .. r.count - 1
  BY <1>2
<1>4. taken \subseteq Entries(r)
  BY <1>3 DEF Entries
<1>5. \A i \in 0 .. s.count - 1 :
         i + r.ready \in 0 .. r.count - 1 /\ i + r.ready \notin 0 .. r.ready - 1
  BY <1>1, <1>2
<1>6. \A i \in 0 .. r.count - 1 :
         i \notin 0 .. r.ready - 1 => i - r.ready \in 0 .. s.count - 1 /\ (i - r.ready) + r.ready = i
  BY <1>1, <1>2
<1>7. \A i \in 0 .. s.count - 1 : Entry(s, i) = Entry(r, i + r.ready)
  BY <1>1
<1>8. ASSUME NEW q \in Entries(s) PROVE q \in Entries(r) \ taken
  <2>1. PICK i \in 0 .. s.count - 1 : q = Entry(s, i)
    BY DEF Entries
  <2>2. q = Entry(r, i + r.ready)
    BY <1>7, <2>1
  <2>. QED BY <1>3, <1>5, <2>2 DEF Entries, Distinct
<1>9. ASSUME NEW q \in Entries(r) \ taken PROVE q \in Entries(s)
  <2>1. PICK i \in 0 .. r.count - 1 : q = Entry(r, i)
    BY DEF Entries
  <2>2. i - r.ready \in 0 .. s.count - 1 /\ (i - r.ready) + r.ready = i
    BY <1>6, <1>9, <2>1
  <2>3. Entry(s, i - r.ready) = q
    BY <1>7, <2>1, <2>2
  <2>. QED BY <2>2, <2>3 DEF Entries
<1>10. Distinct(s)
  <2>. SUFFICES ASSUME NEW i \in 0 .. s.count - 1, NEW j \in 0 .. s.count - 1,
                       Entry(s, i) = Entry(s, j)
                PROVE  i = j
    BY DEF Distinct
  <2>1. i + r.ready = j + r.ready
    BY <1>5, <1>7 DEF Distinct
  <2>. QED BY <1>1, <1>2, <2>1
<1>. QED BY <1>4, <1>8, <1>9, <1>10 DEF s
====
