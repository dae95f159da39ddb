------------------------- MODULE FlashBufferProofs -------------------------
(***************************************************************************)
(* Proofs about FlashBuffer, for every number of rows, set of capacities   *)
(* and number of puts: its types, that the indices an operation uses stay  *)
(* inside the region of the build that runs, that the tier is a            *)
(* DurableFifo while its capacity stays, and that acknowledged records     *)
(* survive a reset.                                                        *)
(***************************************************************************)
EXTENDS FlashBuffer, SequenceTheorems, TLAPS

\* A ring inside a region of c rows.
Fits(m, c) == m.head < c /\ m.tail < c /\ m.count <= c

(***************************************************************************)
(* What makes the range of the indices inductive: s_meta fits from the     *)
(* clamp at power-on to the power loss, no operation runs before the       *)
(* clamp, and a put under way has made room for its record.                *)
(***************************************************************************)
Ranges ==
  /\ pc # "off" => Fits(ram, cap)
  /\ ready => pc # "off"
  /\ pc = "row" => ram.count < cap /\ next <= MaxRec
IInv == TypeOK /\ Ranges

\* The capacity of the build that runs is a positive number of rows.
LEMMA CapType ==
  ASSUME TypeOK PROVE cap \in Nat /\ cap > 0 /\ cap <= Rows /\ Rows \in Nat
  BY FlashAssumption DEF TypeOK

\* Inc stays inside the region.
LEMMA IncRange ==
  ASSUME TypeOK, NEW i \in Nat PROVE Inc(i) \in Nat /\ Inc(i) < cap /\ Inc(i) \in Slots
<1>1. cap \in Nat /\ cap > 0 /\ cap <= Rows /\ Rows \in Nat
  BY CapType
<1> QED BY <1>1 DEF Inc, Slots

\* Fresh and torn metadata have the shape metadata has.
LEMMA ConstantRings == Fresh \in Rings /\ Torn \in Rings
<1>1. 0 \in Slots /\ 0 \in 0 .. Rows
  BY FlashAssumption DEF Slots
<1>2. TRUE \in BOOLEAN /\ FALSE \in BOOLEAN
  OBVIOUS
<1>3. Fresh \in Rings
  BY <1>1, <1>2, Zenon DEF Fresh, Ring, Rings
<1>4. Torn \in Rings
  BY <1>1, <1>2, Zenon DEF Torn, Rings
<1> QED BY <1>3, <1>4

\* The clamp at power-on brings any metadata into the region.
LEMMA ClampedFits ==
  ASSUME NEW m \in Rings, NEW c \in Caps
  PROVE Clamped(m, c) \in Rings /\ Fits(Clamped(m, c), c)
<1>1. c \in Nat /\ c > 0 /\ c <= Rows /\ Rows \in Nat
  BY FlashAssumption
<1>2. m.head \in 0 .. Rows - 1 /\ m.tail \in 0 .. Rows - 1 /\ m.count \in 0 .. Rows
  BY DEF Rings, Slots
<1> DEFINE h == IF m.head >= c THEN 0 ELSE m.head
           t == IF m.tail >= c THEN 0 ELSE m.tail
           n == IF m.count > c THEN c ELSE m.count
<1>3. h \in Slots /\ t \in Slots /\ n \in 0 .. Rows /\ h < c /\ t < c /\ n <= c
  BY <1>1, <1>2 DEF Slots
<1>4. Clamped(m, c) = [valid |-> TRUE, head |-> h, tail |-> t, count |-> n]
  BY DEF Clamped, Ring
<1> HIDE DEF h, t, n
<1> QED BY <1>3, <1>4 DEF Rings, Fits

\* Removing the oldest record keeps the ring in its region.
LEMMA DroppedFits ==
  ASSUME TypeOK, Fits(ram, cap), ram.count # 0
  PROVE Dropped \in Rings /\ Fits(Dropped, cap) /\ Dropped.count < cap
<1>1. ram \in Rings
  BY DEF TypeOK
<1>2. ram.tail \in Nat /\ ram.head \in Nat /\ ram.count \in 0 .. Rows
  BY <1>1, FlashAssumption DEF Rings, Slots
<1>3. Inc(ram.tail) \in Slots /\ Inc(ram.tail) < cap
  BY <1>2, IncRange
<1>4. /\ Dropped.head = ram.head /\ Dropped.tail = Inc(ram.tail)
      /\ Dropped.count = ram.count - 1
  BY <1>1 DEF Dropped, Rings
<1>5. ram.count - 1 \in 0 .. Rows /\ ram.count - 1 < cap
  BY <1>2, CapType DEF Fits
<1>6. Dropped \in Rings
  BY <1>1, <1>3, <1>5 DEF Dropped, Rings
<1>7. Fits(Dropped, cap) /\ Dropped.count < cap
  BY <1>3, <1>4, <1>5, CapType DEF Fits
<1> QED BY <1>6, <1>7

\* So does a record that is added where there is room.
LEMMA AddedFits ==
  ASSUME TypeOK, Fits(ram, cap), ram.count < cap
  PROVE LET added == [ram EXCEPT !.head = Inc(@), !.count = @ + 1]
        IN added \in Rings /\ Fits(added, cap)
<1> DEFINE added == [ram EXCEPT !.head = Inc(@), !.count = @ + 1]
<1>1. ram \in Rings
  BY DEF TypeOK
<1>2. ram.tail \in Nat /\ ram.head \in Nat /\ ram.count \in 0 .. Rows
  BY <1>1, FlashAssumption DEF Rings, Slots
<1>3. Inc(ram.head) \in Slots /\ Inc(ram.head) < cap
  BY <1>2, IncRange
<1>4. /\ added.head = Inc(ram.head) /\ added.tail = ram.tail
      /\ added.count = ram.count + 1
  BY <1>1 DEF Rings
<1>5. ram.count + 1 \in 0 .. Rows /\ ram.count + 1 <= cap
  BY <1>2, CapType
<1>6. added \in Rings
  BY <1>1, <1>3, <1>5 DEF Rings
<1>7. Fits(added, cap)
  BY <1>3, <1>4, <1>5, CapType DEF Fits
<1> QED BY <1>6, <1>7

\* Whatever a write that is cut off leaves behind has the type of a row.
LEMMA OutcomeTypes ==
  ASSUME IInv
  PROVE /\ MetaOutcomes \subseteq Rings
        /\ SlotOutcomes \subseteq [Slots -> 0 .. MaxRec]
<1>1. MetaOutcomes \subseteq Rings
  BY ConstantRings DEF MetaOutcomes, IInv, TypeOK
<1>2. SlotOutcomes \subseteq [Slots -> 0 .. MaxRec]
  <2>1. CASE pc = "row"
    <3>1. ram.head \in Slots /\ slots \in [Slots -> 0 .. MaxRec]
      BY DEF IInv, TypeOK, Rings
    <3>2. {slots[ram.head], Unreadable, next} \subseteq 0 .. MaxRec
      BY <2>1, <3>1, FlashAssumption DEF IInv, TypeOK, Ranges, Unreadable
    <3> QED BY <2>1, <3>1, <3>2 DEF SlotOutcomes
  <2>2. CASE pc # "row"
    BY <2>2 DEF SlotOutcomes, IInv, TypeOK
  <2> QED BY <2>1, <2>2
<1> QED BY <1>1, <1>2

PCs == MetaWrites \union {"off", "idle", "row", "erase"}

\* TypeOK, with the Boolean variables apart from the rest.
Data ==
  /\ slots \in [Slots -> 0 .. MaxRec]
  /\ meta \in Rings /\ ram \in Rings
  /\ cap \in Caps /\ pc \in PCs
  /\ at \in 0 .. Rows + 1 /\ next \in 1 .. MaxRec + 1
Flags ==
  ready \in BOOLEAN /\ dropOldest \in BOOLEAN /\ behind \in BOOLEAN /\ resized \in BOOLEAN

\* TypeOK in its two parts, so that each is proved with the provers it suits.
LEMMA Parts ==
  (TypeOK <=> Data /\ Flags) /\ (TypeOK' <=> Data' /\ Flags')
  BY DEF TypeOK, Data, Flags, PCs

\* A device whose rows were never written.
LEMMA InitInv == Init => IInv
<1> SUFFICES ASSUME Init PROVE IInv
  OBVIOUS
<1>1. Flags
  <2>1. TRUE \in BOOLEAN /\ FALSE \in BOOLEAN
    OBVIOUS
  <2> QED BY <2>1, Zenon DEF Init, Flags
<1>2. Data
  BY ConstantRings, FlashAssumption DEF Init, Data, PCs, Unreadable
<1>3. Ranges
  BY DEF Init, Ranges
<1> QED BY <1>1, <1>2, <1>3, Parts DEF IInv

\* Every step leaves Booleans in the Boolean variables.
LEMMA StepFlags == ASSUME Flags, Next PROVE Flags'
<1>1. TRUE \in BOOLEAN /\ FALSE \in BOOLEAN
  OBVIOUS
<1>2. CASE \E c \in Caps, d \in BOOLEAN : PowerOn(c, d)
  <2>1. PICK c \in Caps, d \in BOOLEAN : PowerOn(c, d)
    BY <1>2
  <2>2. ready' = (ram' = meta) \/ ready' = FALSE
    BY <2>1 DEF PowerOn
  <2>3. (ram' = meta) \in BOOLEAN /\ (resized \/ c # cap) \in BOOLEAN
    OBVIOUS
  <2> QED BY <1>1, <2>1, <2>2, <2>3, Zenon DEF PowerOn, Flags
<1>3. CASE MetaFails
  <2>1. (ready \/ pc = "clamp") \in BOOLEAN
    OBVIOUS
  <2> QED BY <1>1, <1>3, <2>1, Zenon DEF MetaFails, build, Flags
<1>4. CASE PowerLoss \/ MetaWritten \/ EraseRow \/ EraseFails
  BY <1>1, <1>4, Zenon DEF PowerLoss, MetaWritten, EraseRow, EraseFails, build, Flags
<1>5. CASE PutRefused \/ Put \/ PutWritten \/ PutFails \/ Consume \/ PeekDiscards
           \/ EraseAll \/ EraseDone
  BY <1>5, Zenon
  DEF PutRefused, Put, PutWritten, PutFails, Consume, PeekDiscards, EraseAll,
      EraseDone, build, Flags
<1> QED BY <1>2, <1>3, <1>4, <1>5 DEF Next

\* Power on and off, and the end of a metadata write.
LEMMA PowerSteps ==
  ASSUME IInv,
         (\E c \in Caps, d \in BOOLEAN : PowerOn(c, d)) \/ PowerLoss
           \/ MetaWritten \/ MetaFails
  PROVE Data' /\ Ranges'
<1> USE Parts DEF IInv
<1>1. CASE \E c \in Caps, d \in BOOLEAN : PowerOn(c, d)
  <2>1. PICK c \in Caps, d \in BOOLEAN : PowerOn(c, d)
    BY <1>1
  <2>2. /\ ram' \in Rings /\ Fits(ram', c)
        /\ pc' \in {"idle", "clamp", "fresh"}
    <3>1. CASE meta.valid
      BY <2>1, <3>1, ClampedFits DEF PowerOn, Data
    <3>2. CASE ~meta.valid
      <4>1. ram' = Fresh /\ pc' = "fresh"
        BY <2>1, <3>2 DEF PowerOn
      <4>2. Fits(Fresh, c)
        BY FlashAssumption DEF Fresh, Ring, Fits
      <4> QED BY <4>1, <4>2, ConstantRings
    <3> QED BY <3>1, <3>2
  <2>3. Data'
    BY <2>1, <2>2 DEF PowerOn, Data, PCs, MetaWrites
  <2>4. Ranges'
    BY <2>1, <2>2 DEF PowerOn, Ranges
  <2> QED BY <2>3, <2>4
<1>2. CASE PowerLoss
  <2>1. meta' \in Rings /\ slots' \in [Slots -> 0 .. MaxRec]
    BY <1>2, OutcomeTypes DEF PowerLoss
  <2>2. next' \in 1 .. MaxRec + 1
    BY <1>2, FlashAssumption DEF PowerLoss, Data, Ranges
  <2>3. Data'
    BY <1>2, <2>1, <2>2 DEF PowerLoss, Data, PCs, build
  <2> QED BY <1>2, <2>3 DEF PowerLoss, Ranges
<1>3. CASE MetaWritten
  <2>1. Data'
    BY <1>3 DEF MetaWritten, Data, PCs, build
  <2> QED BY <1>3, <2>1 DEF MetaWritten, MetaWrites, Ranges, build
<1>4. CASE MetaFails
  <2>1. Data'
    BY <1>4, OutcomeTypes DEF MetaFails, Data, PCs, build
  <2> QED BY <1>4, <2>1 DEF MetaFails, MetaWrites, Ranges, build
<1> QED BY <1>1, <1>2, <1>3, <1>4

\* Puts.
LEMMA PutSteps ==
  ASSUME IInv, PutRefused \/ Put \/ PutWritten \/ PutFails
  PROVE Data' /\ Ranges'
<1> USE Parts DEF IInv
<1>1. CASE PutRefused
  <2>1. Data'
    BY <1>1, FlashAssumption DEF PutRefused, Data, build
  <2> QED BY <1>1, <2>1 DEF PutRefused, Ranges, build
<1>2. CASE Put
  <2>1. /\ Fits(ram, cap) /\ ram \in Rings /\ cap > 0 /\ cap \in Nat
        /\ ram.count \in 0 .. Rows
    BY <1>2, CapType DEF Put, Ranges, TypeOK, Rings
  <2>2. ram' \in Rings /\ Fits(ram', cap) /\ ram'.count < cap
    <3>1. CASE Full
      <4>1. ram.count # 0
        BY <2>1, <3>1, FlashAssumption DEF Full
      <4> QED BY <1>2, <2>1, <3>1, <4>1, DroppedFits DEF Put
    <3>2. CASE ~Full
      BY <1>2, <2>1, <3>2, FlashAssumption DEF Put, Full
    <3> QED BY <3>1, <3>2
  <2>3. Data'
    BY <1>2, <2>2 DEF Put, Data, PCs, build
  <2> QED BY <1>2, <2>2, <2>3 DEF Put, Ranges, build
<1>3. CASE PutWritten
  <2>1. ram' \in Rings /\ Fits(ram', cap)
    BY <1>3, AddedFits DEF PutWritten, Ranges
  <2>2. slots' \in [Slots -> 0 .. MaxRec]
    <3>1. slots \in [Slots -> 0 .. MaxRec] /\ next \in 0 .. MaxRec
      BY <1>3, FlashAssumption DEF PutWritten, Data, Ranges
    <3> QED BY <1>3, <3>1 DEF PutWritten, PutAtHead
  <2>3. next' \in 1 .. MaxRec + 1
    BY <1>3, FlashAssumption DEF PutWritten, Data, Ranges
  <2>4. Data'
    BY <1>3, <2>1, <2>2, <2>3 DEF PutWritten, Data, PCs, MetaWrites, build
  <2> QED BY <1>3, <2>1, <2>4 DEF PutWritten, Ranges, build
<1>4. CASE PutFails
  <2>1. next' \in 1 .. MaxRec + 1
    BY <1>4, FlashAssumption DEF PutFails, Data, Ranges
  <2>2. Data'
    BY <1>4, <2>1, OutcomeTypes DEF PutFails, Data, PCs, build
  <2> QED BY <1>4, <2>2 DEF PutFails, Ranges, build
<1> QED BY <1>1, <1>2, <1>3, <1>4

\* Consuming, discarding at a peek, and erase_all.
LEMMA OtherSteps ==
  ASSUME IInv, Consume \/ PeekDiscards \/ EraseAll \/ EraseRow \/ EraseFails \/ EraseDone
  PROVE Data' /\ Ranges'
<1> USE Parts DEF IInv
<1>1. CASE Consume \/ PeekDiscards
  <2>1. ram' = Dropped /\ pc' = "meta" /\ ram.count # 0 /\ Fits(ram, cap)
    BY <1>1 DEF Consume, PeekDiscards, Ranges
  <2>2. ram' \in Rings /\ Fits(ram', cap)
    BY <2>1, DroppedFits
  <2>3. Data'
    BY <1>1, <2>1, <2>2 DEF Consume, PeekDiscards, Data, PCs, MetaWrites, build
  <2> QED BY <1>1, <2>1, <2>2, <2>3 DEF Consume, PeekDiscards, Ranges, build
<1>2. CASE EraseAll
  <2>1. Data'
    BY <1>2, FlashAssumption DEF EraseAll, Data, PCs, build
  <2> QED BY <1>2, <2>1 DEF EraseAll, Ranges, build
<1>3. ASSUME EraseMetaRow \/ EraseDataRow \/ UNCHANGED <<slots, meta>>
      PROVE meta' \in Rings /\ slots' \in [Slots -> 0 .. MaxRec]
  <2>1. Unreadable \in 0 .. MaxRec
    BY FlashAssumption DEF Unreadable
  <2> QED BY <1>3, <2>1, ConstantRings DEF EraseMetaRow, EraseDataRow, Data
<1>4. CASE EraseRow
  <2>1. at' \in 0 .. Rows + 1
    BY <1>4, FlashAssumption DEF EraseRow, Data
  <2>2. Data'
    BY <1>3, <1>4, <2>1 DEF EraseRow, Data, build
  <2> QED BY <1>4, <2>2 DEF EraseRow, Ranges, build
<1>5. CASE EraseFails
  <2>1. Data'
    BY <1>3, <1>5 DEF EraseFails, Data, PCs, build
  <2> QED BY <1>5, <2>1 DEF EraseFails, Ranges, build
<1>6. CASE EraseDone
  <2>1. Fits(Fresh, cap)
    BY CapType DEF Fresh, Ring, Fits
  <2>2. Data'
    BY <1>6, ConstantRings DEF EraseDone, Data, PCs, MetaWrites, build
  <2> QED BY <1>6, <2>1, <2>2 DEF EraseDone, Ranges, build
<1> QED BY <1>1, <1>2, <1>4, <1>5, <1>6

\* Every step keeps the types and the ranges.
LEMMA StepInv == IInv /\ [Next]_vars => IInv'
<1> SUFFICES ASSUME IInv, [Next]_vars PROVE IInv'
  OBVIOUS
<1>1. CASE Next
  <2>1. Flags'
    BY <1>1, StepFlags, Parts DEF IInv
  <2>2. Data' /\ Ranges'
    BY <1>1, PowerSteps, PutSteps, OtherSteps DEF Next
  <2> QED BY <2>1, <2>2, Parts DEF IInv
<1>2. CASE UNCHANGED vars
  <2>1. Data' /\ Ranges'
    BY <1>2, Parts DEF IInv, vars, build, Data, Ranges
  <2>2. Flags'
    BY <1>2, Parts, Zenon DEF IInv, vars, build, Flags
  <2> QED BY <2>1, <2>2, Parts DEF IInv
<1> QED BY <1>1, <1>2

\* Rows, metadata and s_meta keep their types through torn writes, failed
\* erases, resets and new builds of flash_buffer.c.
THEOREM TypeCorrect == Spec => []TypeOK
<1>1. IInv => TypeOK
  BY DEF IInv
<1> QED BY <1>1, InitInv, StepInv, PTL DEF Spec

\* The clamp of flash_buffer_init is enough: head, tail and count stay in the
\* region of the build that runs, for every capacity this and earlier builds
\* have had.
THEOREM IndicesInRangeCorrect == Spec => []IndicesInRange
<1>1. IInv => IndicesInRange
  BY DEF IInv, Ranges, Fits, IndicesInRange
<1> QED BY <1>1, InitInv, StepInv, PTL DEF Spec

(***************************************************************************)
(* Places of the ring and the queue in them, in a region of c rows.        *)
(***************************************************************************)
\* The row of the i-th record from tail t.
Place(c, t, i) == (t + i - 1) % c
\* The queue of ring m in rows s.
QueueIn(c, m, s) ==
  IF m.valid THEN [i \in 1 .. m.count |-> s[Place(c, m.tail, i)]] ELSE <<>>
\* The head is the place after the last record.
Aligned(c, m) == m.head = Place(c, m.tail, m.count + 1)

\* Less than two laps: a remainder is at most one subtraction.
LEMMA Lap ==
  ASSUME NEW c \in Nat, c > 0, NEW x \in Nat, x < 2 * c
  PROVE  x % c = IF x < c THEN x ELSE x - c
OBVIOUS

\* A capacity is a positive number of rows.
LEMMA CapacityType ==
  ASSUME NEW c \in Caps
  PROVE  c \in Nat /\ c > 0 /\ c <= Rows /\ Rows \in Nat
BY FlashAssumption

\* The row of a place, without the remainder.
LEMMA PlaceValue ==
  ASSUME NEW c \in Caps, NEW t \in Nat, t < c, NEW i \in 1 .. c + 1
  PROVE  /\ Place(c, t, i) = IF t + i - 1 < c THEN t + i - 1 ELSE t + i - 1 - c
         /\ Place(c, t, i) \in Slots /\ Place(c, t, i) < c /\ Place(c, t, i) \in Nat
<1>1. c \in Nat /\ c > 0 /\ c <= Rows /\ Rows \in Nat
  BY CapacityType
<1>2. t + i - 1 \in Nat /\ t + i - 1 < 2 * c
  BY <1>1
<1>3. Place(c, t, i) = IF t + i - 1 < c THEN t + i - 1 ELSE t + i - 1 - c
  BY <1>1, <1>2, Lap DEF Place
<1>4. QED BY <1>1, <1>2, <1>3 DEF Slots

\* A region has every row once.
LEMMA PlaceUnique ==
  ASSUME NEW c \in Caps, NEW t \in Nat, t < c,
         NEW i \in 1 .. c, NEW j \in 1 .. c, Place(c, t, i) = Place(c, t, j)
  PROVE  i = j
<1>1. c \in Nat /\ c > 0 /\ i \in 1 .. c + 1 /\ j \in 1 .. c + 1
  BY CapacityType
<1>2. /\ Place(c, t, i) = IF t + i - 1 < c THEN t + i - 1 ELSE t + i - 1 - c
      /\ Place(c, t, j) = IF t + j - 1 < c THEN t + j - 1 ELSE t + j - 1 - c
      /\ Place(c, t, i) \in Nat
  BY <1>1, PlaceValue
<1>3. PICK p \in Nat : p = Place(c, t, i)
  BY <1>2
<1>4. /\ p = IF t + i - 1 < c THEN t + i - 1 ELSE t + i - 1 - c
      /\ p = IF t + j - 1 < c THEN t + j - 1 ELSE t + j - 1 - c
  BY <1>2, <1>3, Zenon
<1>5. QED BY <1>1, <1>4

\* Places from the next row on.
LEMMA PlaceNext ==
  ASSUME NEW c \in Caps, NEW t \in Nat, t < c, NEW i \in 1 .. c
  PROVE  Place(c, Place(c, t, 2), i) = Place(c, t, i + 1)
<1>1. /\ c \in Nat /\ c > 0 /\ i \in 1 .. c + 1 /\ i + 1 \in 1 .. c + 1
      /\ 2 \in 1 .. c + 1
  BY CapacityType
<1>2. PICK u \in Nat : u = Place(c, t, 2) /\ u < c /\ u = IF t + 1 < c THEN t + 1 ELSE t + 1 - c
  <2>1. Place(c, t, 2) = IF t + 2 - 1 < c THEN t + 2 - 1 ELSE t + 2 - 1 - c
    BY <1>1, PlaceValue
  <2>2. Place(c, t, 2) \in Nat /\ Place(c, t, 2) < c
    BY <1>1, PlaceValue
  <2>3. QED BY <2>1, <2>2
<1>3. /\ Place(c, u, i) = IF u + i - 1 < c THEN u + i - 1 ELSE u + i - 1 - c
      /\ Place(c, t, i + 1) = IF t + (i + 1) - 1 < c THEN t + (i + 1) - 1 ELSE t + (i + 1) - 1 - c
  BY <1>1, <1>2, PlaceValue
<1>4. Place(c, u, i) = Place(c, t, i + 1)
  BY <1>1, <1>2, <1>3
<1>5. QED BY <1>2, <1>4, Zenon

\* The same row has the same place, whatever tail it is counted from: the places
\* after the head of a ring are not in its queue.
LEMMA PlaceShift ==
  ASSUME NEW c \in Caps, NEW t \in Nat, t < c, NEW d \in Nat, d < c, NEW i \in Nat,
         i > 0, d + i <= c + 1
  PROVE  Place(c, Place(c, t, d + 1), i) = Place(c, t, d + i)
<1>1. /\ c \in Nat /\ c > 0 /\ i \in 1 .. c + 1 /\ d + i \in 1 .. c + 1
      /\ d + 1 \in 1 .. c + 1
  BY CapacityType
<1>2. PICK u \in Nat : u = Place(c, t, d + 1) /\ u < c /\ u = IF t + d < c THEN t + d ELSE t + d - c
  <2>1. Place(c, t, d + 1) = IF t + (d + 1) - 1 < c THEN t + (d + 1) - 1 ELSE t + (d + 1) - 1 - c
    BY <1>1, PlaceValue
  <2>2. Place(c, t, d + 1) \in Nat /\ Place(c, t, d + 1) < c
    BY <1>1, PlaceValue
  <2>3. QED BY <2>1, <2>2
<1>3. /\ Place(c, u, i) = IF u + i - 1 < c THEN u + i - 1 ELSE u + i - 1 - c
      /\ Place(c, t, d + i) = IF t + (d + i) - 1 < c THEN t + (d + i) - 1 ELSE t + (d + i) - 1 - c
  BY <1>1, <1>2, PlaceValue
<1>4. Place(c, u, i) = Place(c, t, d + i)
  BY <1>1, <1>2, <1>3
<1>5. QED BY <1>2, <1>4, Zenon

\* The fields of a ring in its region.
LEMMA RingFields ==
  ASSUME NEW c \in Caps, NEW m \in Rings, Fits(m, c)
  PROVE  /\ m.head \in Nat /\ m.tail \in Nat /\ m.count \in Nat
         /\ m.head \in Slots /\ m.tail \in Slots
         /\ m.head < c /\ m.tail < c /\ m.count <= c /\ m.count \in 0 .. c
         /\ \A i \in 1 .. m.count : i \in 1 .. c /\ i \in 1 .. c + 1
BY CapacityType DEF Rings, Slots, Fits

\* A function on 1 .. n is a sequence.
LEMMA SequenceOf ==
  ASSUME NEW S, NEW n \in Nat, NEW q \in [1 .. n -> S]
  PROVE  q \in Seq(S) /\ Len(q) = n
OBVIOUS

\* What is queued is read from the places of the ring.
LEMMA QueueValue ==
  ASSUME NEW c \in Caps, NEW m \in Rings, Fits(m, c), NEW s \in [Slots -> 0 .. MaxRec]
  PROVE  /\ QueueIn(c, m, s) \in Seq(0 .. MaxRec)
         /\ m.valid => /\ Len(QueueIn(c, m, s)) = m.count
                       /\ \A i \in 1 .. m.count :
                            QueueIn(c, m, s)[i] = s[Place(c, m.tail, i)]
<1> DEFINE q == [i \in 1 .. m.count |-> s[Place(c, m.tail, i)]]
<1>1. m.count \in Nat /\ m.tail \in Nat /\ m.tail < c
  BY RingFields
<1>2. ASSUME NEW i \in 1 .. m.count PROVE s[Place(c, m.tail, i)] \in 0 .. MaxRec
  <2>1. i \in 1 .. c + 1
    BY RingFields
  <2>2. Place(c, m.tail, i) \in Slots
    BY <1>1, <2>1, PlaceValue
  <2>3. QED BY <2>2
<1>3. q \in [1 .. m.count -> 0 .. MaxRec]
  BY <1>2
<1>4. q \in Seq(0 .. MaxRec) /\ Len(q) = m.count
  BY <1>1, <1>3, SequenceOf
<1>5. \A i \in 1 .. m.count : q[i] = s[Place(c, m.tail, i)]
  OBVIOUS
<1>6. m.valid => QueueIn(c, m, s) = q
  BY DEF QueueIn
<1>7. ~m.valid => QueueIn(c, m, s) = <<>>
  BY DEF QueueIn
<1> HIDE DEF q
<1>8. <<>> \in Seq(0 .. MaxRec)
  OBVIOUS
<1>9. QED BY <1>4, <1>5, <1>6, <1>7, <1>8, Zenon

\* An invalid ring has no queue, nor has an empty one.
LEMMA EmptyQueue ==
  /\ \A c, m, s : ~m.valid => QueueIn(c, m, s) = <<>>
  /\ \A c, s : QueueIn(c, Fresh, s) = <<>> /\ QueueIn(c, Torn, s) = <<>>
<1>1. \A c, m, s : ~m.valid => QueueIn(c, m, s) = <<>>
  BY DEF QueueIn
<1>2. ~Torn.valid /\ Fresh.count = 0 /\ Fresh.valid
  BY DEF Torn, Fresh, Ring
<1>3. ASSUME NEW c, NEW s PROVE QueueIn(c, Fresh, s) = <<>>
  BY <1>2 DEF QueueIn
<1>4. QED BY <1>1, <1>2, <1>3

\* The model's names for it.
LEMMA ModelQueue ==
  /\ \A m, s : Queue(m, s) = QueueIn(cap, m, s)
  /\ Stored = IF ready THEN QueueIn(cap, ram, slots) ELSE QueueIn(cap, meta, slots)
  /\ Stored' = IF ready' THEN QueueIn(cap', ram', slots') ELSE QueueIn(cap', meta', slots')
  /\ Kept = QueueIn(cap, meta, slots) /\ Kept' = QueueIn(cap', meta', slots')
  /\ \A i \in Nat : Inc(i) = Place(cap, i, 2)
<1>1. \A m, s : Queue(m, s) = QueueIn(cap, m, s)
  BY DEF Queue, QueueIn, Place
<1>2. /\ Queue(ram, slots)' = QueueIn(cap', ram', slots')
      /\ Queue(meta, slots)' = QueueIn(cap', meta', slots')
  BY DEF Queue, QueueIn, Place
<1>3. \A i \in Nat : Inc(i) = Place(cap, i, 2)
  <2>1. ASSUME NEW i \in Nat PROVE i + 1 = i + 2 - 1
    OBVIOUS
  <2>2. QED BY <2>1 DEF Inc, Place
<1>4. QED BY <1>1, <1>2, <1>3 DEF Stored, Kept

\* Removing the oldest record from a ring takes the head of its queue.
LEMMA DropQueue ==
  ASSUME NEW c \in Caps, NEW m \in Rings, Fits(m, c), m.valid, Aligned(c, m), m.count # 0,
         NEW d \in Rings, Fits(d, c), d.valid, d.head = m.head,
         d.tail = Place(c, m.tail, 2), d.count = m.count - 1,
         NEW s \in [Slots -> 0 .. MaxRec]
  PROVE  /\ QueueIn(c, m, s) # <<>> /\ QueueIn(c, d, s) = Tail(QueueIn(c, m, s))
         /\ Aligned(c, d)
<1> DEFINE q == QueueIn(c, m, s)
           p == QueueIn(c, d, s)
<1>1. /\ m.count \in Nat /\ m.count > 0 /\ m.count \in 1 .. c /\ m.tail \in Nat /\ m.tail < c
      /\ \A i \in 1 .. m.count : i \in 1 .. c
  BY CapacityType, RingFields
<1>2. /\ q \in Seq(0 .. MaxRec) /\ Len(q) = m.count
      /\ \A i \in 1 .. m.count : q[i] = s[Place(c, m.tail, i)]
  BY QueueValue
<1>3. /\ p \in Seq(0 .. MaxRec) /\ Len(p) = m.count - 1
      /\ \A i \in 1 .. m.count - 1 : p[i] = s[Place(c, d.tail, i)]
  BY QueueValue
<1> HIDE DEF q, p
<1>4. q # <<>>
  BY <1>1, <1>2
<1>5. /\ Tail(q) \in Seq(0 .. MaxRec) /\ Len(Tail(q)) = m.count - 1
      /\ \A i \in 1 .. m.count - 1 : Tail(q)[i] = q[i + 1]
  BY <1>2, <1>4, HeadTailProperties
<1>6. ASSUME NEW i \in 1 .. m.count - 1 PROVE p[i] = Tail(q)[i]
  <2>1. i \in 1 .. c /\ i + 1 \in 1 .. m.count
    BY <1>1
  <2>2. Place(c, d.tail, i) = Place(c, m.tail, i + 1)
    BY <1>1, <2>1, PlaceNext
  <2>3. p[i] = s[Place(c, m.tail, i + 1)]
    BY <1>3, <2>2
  <2>4. Tail(q)[i] = s[Place(c, m.tail, i + 1)]
    BY <1>2, <1>5, <2>1
  <2>5. QED BY <2>3, <2>4
<1>7. p = Tail(q)
  BY <1>3, <1>5, <1>6, SeqEqual
<1>8. Aligned(c, d)
  <2>1. Place(c, d.tail, m.count) = Place(c, m.tail, m.count + 1)
    BY <1>1, PlaceNext
  <2>2. d.count + 1 = m.count
    BY <1>1
  <2>3. QED BY <2>1, <2>2 DEF Aligned
<1>9. QED BY <1>4, <1>7, <1>8 DEF q, p

\* The row at the head is not in the queue of a ring that is not full.
LEMMA HeadFree ==
  ASSUME NEW c \in Caps, NEW m \in Rings, Fits(m, c), Aligned(c, m), m.count < c,
         NEW i \in 1 .. m.count
  PROVE  Place(c, m.tail, i) # m.head
<1>1. /\ m.count + 1 \in 1 .. c /\ i \in 1 .. c /\ i # m.count + 1
      /\ m.tail \in Nat /\ m.tail < c
  BY CapacityType, RingFields
<1>2. QED BY <1>1, PlaceUnique DEF Aligned

\* Writing the row at the head leaves the queue as it is ...
LEMMA HeadWritten ==
  ASSUME NEW c \in Caps, NEW m \in Rings, Fits(m, c), m.valid, Aligned(c, m), m.count < c,
         NEW s \in [Slots -> 0 .. MaxRec], NEW t \in [Slots -> 0 .. MaxRec],
         \A k \in Slots : k # m.head => t[k] = s[k]
  PROVE  QueueIn(c, m, t) = QueueIn(c, m, s)
<1>1. /\ QueueIn(c, m, s) \in Seq(0 .. MaxRec) /\ Len(QueueIn(c, m, s)) = m.count
      /\ \A i \in 1 .. m.count : QueueIn(c, m, s)[i] = s[Place(c, m.tail, i)]
      /\ QueueIn(c, m, t) \in Seq(0 .. MaxRec) /\ Len(QueueIn(c, m, t)) = m.count
      /\ \A i \in 1 .. m.count : QueueIn(c, m, t)[i] = t[Place(c, m.tail, i)]
  BY QueueValue
<1>2. ASSUME NEW i \in 1 .. m.count PROVE QueueIn(c, m, t)[i] = QueueIn(c, m, s)[i]
  <2>1. m.tail \in Nat /\ m.tail < c /\ i \in 1 .. c + 1
    BY RingFields
  <2>2. Place(c, m.tail, i) \in Slots /\ Place(c, m.tail, i) # m.head
    BY <2>1, PlaceValue, HeadFree
  <2>3. QED BY <1>1, <2>2
<1>3. QED BY <1>1, <1>2, SeqEqual

\* ... and counting it in appends what has been written there.
LEMMA AddQueue ==
  ASSUME NEW c \in Caps, NEW m \in Rings, Fits(m, c), m.valid, Aligned(c, m), m.count < c,
         NEW a \in Rings, Fits(a, c), a.valid, a.head = Place(c, m.head, 2),
         a.tail = m.tail, a.count = m.count + 1,
         NEW s \in [Slots -> 0 .. MaxRec], NEW r \in 0 .. MaxRec,
         NEW t \in [Slots -> 0 .. MaxRec],
         t[m.head] = r, \A k \in Slots : k # m.head => t[k] = s[k]
  PROVE  /\ QueueIn(c, a, t) = Append(QueueIn(c, m, s), r) /\ Aligned(c, a)
<1> DEFINE q == QueueIn(c, m, s)
           p == QueueIn(c, a, t)
<1>1. /\ m.count \in Nat /\ m.tail \in Nat /\ m.tail < c /\ m.head \in Slots
      /\ c \in Nat /\ m.count + 1 \in 1 .. c + 1
      /\ \A i \in 1 .. m.count : i \in 1 .. c + 1
  BY CapacityType, RingFields
<1>2. t[m.head] = r /\ \A k \in Slots : k # m.head => t[k] = s[k]
  OBVIOUS
<1>3. /\ q \in Seq(0 .. MaxRec) /\ Len(q) = m.count
      /\ \A i \in 1 .. m.count : q[i] = s[Place(c, m.tail, i)]
  BY QueueValue
<1>4. /\ p \in Seq(0 .. MaxRec) /\ Len(p) = m.count + 1
      /\ \A i \in 1 .. m.count + 1 : p[i] = t[Place(c, m.tail, i)]
  BY QueueValue
<1> HIDE DEF q, p
<1>5. /\ Append(q, r) \in Seq(0 .. MaxRec) /\ Len(Append(q, r)) = m.count + 1
      /\ Append(q, r)[m.count + 1] = r
      /\ \A i \in 1 .. m.count : Append(q, r)[i] = q[i]
  BY <1>1, <1>3
<1>6. ASSUME NEW i \in 1 .. m.count + 1 PROVE p[i] = Append(q, r)[i]
  <2>1. CASE i = m.count + 1
    BY <1>1, <1>2, <1>4, <1>5, <2>1 DEF Aligned
  <2>2. CASE i # m.count + 1
    <3>1. i \in 1 .. m.count
      BY <1>1, <2>2
    <3>2. Place(c, m.tail, i) \in Slots /\ Place(c, m.tail, i) # m.head
      BY <1>1, <3>1, PlaceValue, HeadFree
    <3>3. QED BY <1>2, <1>3, <1>4, <1>5, <3>1, <3>2
  <2>3. QED BY <2>1, <2>2
<1>7. p = Append(q, r)
  BY <1>4, <1>5, <1>6, SeqEqual
<1>8. Aligned(c, a)
  <2>1. Place(c, Place(c, m.tail, m.count + 1), 2) = Place(c, m.tail, m.count + 2)
    BY <1>1, PlaceShift
  <2>2. a.count + 1 = m.count + 2
    BY <1>1
  <2>3. QED BY <2>1, <2>2 DEF Aligned
<1>9. QED BY <1>7, <1>8 DEF q, p

\* An empty ring is aligned.
LEMMA FreshAligned ==
  ASSUME NEW c \in Caps
  PROVE  /\ Aligned(c, Fresh) /\ Fits(Fresh, c) /\ Fresh.valid /\ ~Torn.valid
         /\ Fresh.count = 0 /\ Fresh \in Rings /\ Torn \in Rings
<1>1. Fresh.head = 0 /\ Fresh.tail = 0 /\ Fresh.count = 0 /\ Fresh.valid /\ ~Torn.valid
  BY DEF Fresh, Ring, Torn
<1>2. c \in Nat /\ c > 0 /\ 1 \in 1 .. c + 1
  BY CapacityType
<1>3. Place(c, 0, 1) = 0
  BY <1>2, PlaceValue
<1>4. Fresh.head = Place(c, Fresh.tail, Fresh.count + 1)
  BY <1>1, <1>3
<1>5. QED BY <1>1, <1>2, <1>4, ConstantRings DEF Aligned, Fits

(***************************************************************************)
(* The inductive invariant.  Rows hold no record twice, and none that has  *)
(* not been put.  Until the capacity changes, what is recovered from the   *)
(* metadata row needs no clamping, and a write of fresh metadata is under  *)
(* way only over metadata that is not valid.                               *)
(***************************************************************************)
RowsUnique == \A i, j \in Slots : slots[i] = slots[j] /\ slots[i] # Unreadable => i = j
RowsOlder == \A i \in Slots : slots[i] < next
Consistent ==
  /\ meta.valid => Fits(meta, cap) /\ Aligned(cap, meta)
  /\ ready => ram.valid /\ Aligned(cap, ram)
  /\ pc # "clamp"
  /\ pc = "fresh" => ~ready /\ ~meta.valid /\ ram = Fresh
  /\ pc = "freshErased" => ~meta.valid /\ ram = Fresh
  /\ pc = "erase" /\ at > 0 => ~meta.valid
  /\ pc \in {"row", "putMeta", "meta"} => ready
Solid == IInv /\ RowsUnique /\ RowsOlder /\ (~resized => Consistent)

\* A row written once more holds a new record or none.
LEMMA RowWritten ==
  ASSUME TypeOK, RowsUnique, RowsOlder, NEW h \in Slots,
         NEW r \in {slots[h], Unreadable, next}, slots' = [slots EXCEPT ![h] = r],
         next' = next + 1 \/ (next' = next /\ r = Unreadable)
  PROVE  RowsUnique' /\ RowsOlder'
<1>1. slots \in [Slots -> 0 .. MaxRec] /\ next \in Nat /\ MaxRec \in Nat
  BY FlashAssumption DEF TypeOK
<1>2. \A i \in Slots : slots'[i] = IF i = h THEN r ELSE slots[i]
  BY <1>1
<1>3. \A i \in Slots : slots[i] \in Nat /\ slots[i] < next
  BY <1>1 DEF RowsOlder
<1>4. RowsOlder'
  <2>1. ASSUME NEW i \in Slots PROVE slots'[i] < next'
    BY <1>1, <1>2, <1>3 DEF Unreadable
  <2>2. QED BY <2>1 DEF RowsOlder
<1>5. RowsUnique'
  <2>1. ASSUME NEW i \in Slots, NEW j \in Slots, slots'[i] = slots'[j], slots'[i] # Unreadable
        PROVE  i = j
    <3>1. CASE i # h /\ j # h
      BY <1>2, <2>1, <3>1 DEF RowsUnique
    <3>2. CASE i = h /\ j # h
      <4>1. r = slots[j] /\ r # Unreadable
        BY <1>2, <2>1, <3>2
      <4>2. r # next
        BY <1>1, <1>3, <4>1
      <4>3. r = slots[h]
        BY <4>1, <4>2
      <4>4. QED BY <3>2, <4>1, <4>3 DEF RowsUnique
    <3>3. CASE i # h /\ j = h
      <4>1. r = slots[i] /\ r # Unreadable
        BY <1>2, <2>1, <3>3
      <4>2. r # next
        BY <1>1, <1>3, <4>1
      <4>3. r = slots[h]
        BY <4>1, <4>2
      <4>4. QED BY <3>3, <4>1, <4>3 DEF RowsUnique
    <3>4. QED BY <3>1, <3>2, <3>3
  <2>2. QED BY <2>1 DEF RowsUnique
<1>6. QED BY <1>4, <1>5

\* Rows that are left alone.
LEMMA RowsKept ==
  ASSUME TypeOK, RowsUnique, RowsOlder, slots' = slots, next' = next \/ next' = next + 1
  PROVE  RowsUnique' /\ RowsOlder'
<1>1. slots \in [Slots -> 0 .. MaxRec] /\ next \in Nat
  BY FlashAssumption DEF TypeOK
<1>2. \A i \in Slots : slots[i] \in Nat /\ slots[i] < next
  BY <1>1, FlashAssumption DEF RowsOlder
<1>3. \A i \in Slots : slots[i] < next'
  BY <1>1, <1>2
<1>4. QED BY <1>3 DEF RowsUnique, RowsOlder

\* What a row write that does not return leaves.
LEMMA RowOutcome ==
  ASSUME TypeOK, pc = "row", NEW s \in SlotOutcomes
  PROVE  /\ ram.head \in Slots
         /\ \E r \in {slots[ram.head], Unreadable, next} : s = [slots EXCEPT ![ram.head] = r]
         /\ \A k \in Slots : k # ram.head => s[k] = slots[k]
<1>1. ram.head \in Slots /\ slots \in [Slots -> 0 .. MaxRec]
  BY DEF TypeOK, Rings
<1>2. PICK r \in {slots[ram.head], Unreadable, next} : s = [slots EXCEPT ![ram.head] = r]
  BY DEF SlotOutcomes
<1>3. QED BY <1>1, <1>2

\* Every step keeps the rows unique and older than the next put.
LEMMA StepRows == ASSUME Solid, [Next]_vars PROVE RowsUnique' /\ RowsOlder'
<1>1. TypeOK /\ RowsUnique /\ RowsOlder
  BY DEF Solid, IInv
<1>2. ASSUME pc = "row", slots' \in SlotOutcomes, next' = next + 1
      PROVE  RowsUnique' /\ RowsOlder'
  <2>1. ram.head \in Slots
    BY <1>1, <1>2, RowOutcome
  <2>2. PICK r \in {slots[ram.head], Unreadable, next} : slots' = [slots EXCEPT ![ram.head] = r]
    BY <1>1, <1>2, RowOutcome
  <2>3. QED BY <1>1, <1>2, <2>1, <2>2, RowWritten
<1>3. CASE PowerLoss
  <2>1. CASE pc = "row"
    BY <1>2, <1>3, <2>1 DEF PowerLoss
  <2>2. CASE pc # "row"
    <3>1. slots' = slots /\ next' = next
      BY <1>3, <2>2 DEF PowerLoss, SlotOutcomes
    <3>2. QED BY <1>1, <3>1, RowsKept
  <2>3. QED BY <2>1, <2>2
<1>4. CASE PutFails
  BY <1>2, <1>4 DEF PutFails
<1>5. CASE PutWritten
  <2>1. /\ pc = "row" /\ next' = next + 1 /\ slots' = [slots EXCEPT ![ram.head] = next]
    BY <1>5 DEF PutWritten, PutAtHead
  <2>2. slots' \in SlotOutcomes
    BY <2>1 DEF SlotOutcomes
  <2>3. QED BY <1>2, <2>1, <2>2
<1>6. CASE EraseRow \/ EraseFails
  <2>1. next' = next /\ at <= Rows
    BY <1>6 DEF EraseRow, EraseFails
  <2>2. CASE EraseDataRow
    <3>1. at - 1 \in Slots /\ slots' = [slots EXCEPT ![at - 1] = Unreadable]
      BY <1>1, <2>1, <2>2, FlashAssumption DEF EraseDataRow, TypeOK, Slots
    <3>2. Unreadable \in {slots[at - 1], Unreadable, next}
      OBVIOUS
    <3>3. QED BY <1>1, <2>1, <3>1, <3>2, RowWritten
  <2>3. CASE slots' = slots
    BY <1>1, <2>1, <2>3, RowsKept
  <2>4. QED BY <1>6, <2>2, <2>3 DEF EraseRow, EraseFails, EraseMetaRow
<1>7. CASE \E c \in Caps, d \in BOOLEAN : PowerOn(c, d)
  <2>1. slots' = slots /\ next' = next
    BY <1>7 DEF PowerOn
  <2>2. QED BY <1>1, <2>1, RowsKept
<1>8. CASE PutRefused
  BY <1>1, <1>8, RowsKept DEF PutRefused
<1>9. CASE \/ MetaWritten \/ MetaFails \/ Put \/ Consume \/ PeekDiscards \/ EraseAll
           \/ EraseDone \/ UNCHANGED vars
  <2>1. slots' = slots /\ next' = next
    BY <1>9 DEF MetaWritten, MetaFails, Put, Consume, PeekDiscards, EraseAll, EraseDone, vars
  <2>2. QED BY <1>1, <2>1, RowsKept
<1>10. QED BY <1>3, <1>4, <1>5, <1>6, <1>7, <1>8, <1>9 DEF Next

\* What is known while the capacity has not changed.
LEMMA SolidFacts ==
  ASSUME Solid, ~resized
  PROVE  /\ TypeOK /\ Ranges /\ Consistent /\ cap \in Caps /\ Rows \in Nat /\ Rows > 0
         /\ meta \in Rings /\ ram \in Rings /\ slots \in [Slots -> 0 .. MaxRec]
         /\ pc # "off" => Fits(ram, cap)
         /\ pc # "off" /\ ready => ram.valid /\ Aligned(cap, ram) /\ Fits(ram, cap)
         /\ meta.valid => Fits(meta, cap) /\ Aligned(cap, meta)
BY FlashAssumption DEF Solid, IInv, TypeOK, Ranges, Consistent

\* Metadata that is written has the shape metadata has.
LEMMA MetaShape ==
  ASSUME Solid, ~resized, pc # "off"
  PROVE  /\ pc \in MetaWrites => ram.valid /\ Fits(ram, cap) /\ Aligned(cap, ram)
         /\ \A m \in MetaOutcomes :
              m \in Rings /\ (m.valid => Fits(m, cap) /\ Aligned(cap, m))
<1>1. /\ Consistent /\ cap \in Caps /\ meta \in Rings /\ ram \in Rings /\ Fits(ram, cap)
      /\ meta.valid => Fits(meta, cap) /\ Aligned(cap, meta)
      /\ ready => ram.valid /\ Aligned(cap, ram)
  BY SolidFacts
<1>2. ASSUME pc \in MetaWrites PROVE ram.valid /\ Aligned(cap, ram)
  <2>1. CASE pc \in {"putMeta", "meta"}
    BY <1>1, <2>1 DEF Consistent
  <2>2. CASE pc \in {"fresh", "freshErased"}
    BY <1>1, <2>2, FreshAligned DEF Consistent
  <2>3. QED BY <1>1, <1>2, <2>1, <2>2 DEF Consistent, MetaWrites
<1>3. QED BY <1>1, <1>2, FreshAligned DEF MetaOutcomes

\* Dropping the oldest record: the ring and its queue.
LEMMA DroppedQueue ==
  ASSUME Solid, ~resized, pc # "off", ready, ram.count # 0
  PROVE  /\ Dropped \in Rings /\ Dropped.valid /\ Fits(Dropped, cap)
         /\ Aligned(cap, Dropped)
         /\ QueueIn(cap, ram, slots) # <<>>
         /\ QueueIn(cap, Dropped, slots) = Tail(QueueIn(cap, ram, slots))
         /\ Dropped.head = ram.head /\ Dropped.tail = Place(cap, ram.tail, 2)
         /\ Dropped.count = ram.count - 1
<1>1. /\ TypeOK /\ cap \in Caps /\ ram \in Rings /\ slots \in [Slots -> 0 .. MaxRec]
      /\ ram.valid /\ Aligned(cap, ram) /\ Fits(ram, cap)
  BY SolidFacts
<1>2. Dropped \in Rings /\ Fits(Dropped, cap)
  BY <1>1, DroppedFits
<1>3. ram.tail \in Nat
  BY <1>1, RingFields
<1>4. /\ Dropped.valid = ram.valid /\ Dropped.head = ram.head
      /\ Dropped.tail = Inc(ram.tail) /\ Dropped.count = ram.count - 1
  BY <1>1 DEF Dropped, Rings
<1>5. Dropped.tail = Place(cap, ram.tail, 2)
  BY <1>3, <1>4, ModelQueue
<1> HIDE DEF Dropped
<1>6. QED BY <1>1, <1>2, <1>4, <1>5, DropQueue

\* Counting in the record put: the ring and its queue.
LEMMA AddedQueue ==
  ASSUME Solid, ~resized, pc = "row", PutWritten
  PROVE  /\ ram' \in Rings /\ ram'.valid /\ Fits(ram', cap) /\ Aligned(cap, ram')
         /\ QueueIn(cap, ram', slots') = Append(QueueIn(cap, ram, slots), next)
         /\ ram'.head = Place(cap, ram.head, 2) /\ ram'.tail = ram.tail
         /\ ram'.count = ram.count + 1
         /\ slots' \in [Slots -> 0 .. MaxRec]
<1>1. /\ TypeOK /\ cap \in Caps /\ ram \in Rings /\ slots \in [Slots -> 0 .. MaxRec]
      /\ Ranges /\ Consistent
  BY SolidFacts
<1>2. ready /\ ram.count < cap /\ next \in 0 .. MaxRec
  BY <1>1, FlashAssumption DEF Consistent, Ranges, TypeOK
<1>3. ram.valid /\ Aligned(cap, ram) /\ Fits(ram, cap)
  BY <1>2, SolidFacts
<1>4. /\ ram' = [ram EXCEPT !.head = Inc(@), !.count = @ + 1]
      /\ slots' = [slots EXCEPT ![ram.head] = next]
  BY DEF PutWritten, PutAtHead
<1>5. ram' \in Rings /\ Fits(ram', cap)
  BY <1>1, <1>2, <1>3, <1>4, AddedFits
<1>6. ram.head \in Nat /\ ram.head \in Slots
  BY <1>1, <1>3, RingFields
<1>7. /\ ram'.valid = ram.valid /\ ram'.head = Inc(ram.head) /\ ram'.tail = ram.tail
      /\ ram'.count = ram.count + 1
  BY <1>1, <1>4 DEF Rings
<1>8. ram'.head = Place(cap, ram.head, 2)
  BY <1>6, <1>7, ModelQueue
<1>9. /\ slots' \in [Slots -> 0 .. MaxRec] /\ slots'[ram.head] = next
      /\ \A k \in Slots : k # ram.head => slots'[k] = slots[k]
  BY <1>1, <1>2, <1>4, <1>6
<1>10. /\ QueueIn(cap, ram', slots') = Append(QueueIn(cap, ram, slots), next)
       /\ Aligned(cap, ram')
  <2>1. ram'.valid
    BY <1>3, <1>7
  <2>2. PICK a \in Rings : a = ram'
    BY <1>5
  <2>3. PICK t \in [Slots -> 0 .. MaxRec] : t = slots'
    BY <1>9
  <2>4. /\ Fits(a, cap) /\ a.valid /\ a.head = Place(cap, ram.head, 2)
        /\ a.tail = ram.tail /\ a.count = ram.count + 1
        /\ t[ram.head] = next /\ \A k \in Slots : k # ram.head => t[k] = slots[k]
    BY <1>5, <1>7, <1>8, <1>9, <2>1, <2>2, <2>3
  <2>5. QueueIn(cap, a, t) = Append(QueueIn(cap, ram, slots), next) /\ Aligned(cap, a)
    BY <1>1, <1>2, <1>3, <2>4, AddQueue
  <2>6. QED BY <2>2, <2>3, <2>5
<1>11. QED BY <1>3, <1>5, <1>7, <1>8, <1>9, <1>10

\* Without a change of the capacity, metadata stays consistent.
LEMMA StepConsistent ==
  ASSUME Solid, [Next]_vars, ~resized'
  PROVE  ~resized /\ cap' = cap /\ Consistent'
<1>0. ~resized /\ cap' = cap
  <2>1. CASE \E c \in Caps, d \in BOOLEAN : PowerOn(c, d)
    BY <2>1 DEF PowerOn
  <2>2. CASE PowerLoss \/ MetaWritten \/ MetaFails
    BY <2>2 DEF PowerLoss, MetaWritten, MetaFails, build
  <2>3. CASE PutRefused \/ Put \/ PutWritten \/ PutFails
    BY <2>3 DEF PutRefused, Put, PutWritten, PutFails, build
  <2>4. CASE \/ Consume \/ PeekDiscards \/ EraseAll \/ EraseRow \/ EraseFails
             \/ EraseDone \/ UNCHANGED vars
    BY <2>4 DEF Consume, PeekDiscards, EraseAll, EraseRow, EraseFails, EraseDone, build, vars
  <2>5. QED BY <2>1, <2>2, <2>3, <2>4 DEF Next
<1>1. /\ Consistent /\ Ranges /\ cap \in Caps /\ meta \in Rings /\ ram \in Rings
      /\ pc # "off" => Fits(ram, cap)
      /\ meta.valid => Fits(meta, cap) /\ Aligned(cap, meta)
      /\ at \in 0 .. Rows + 1 /\ Rows \in Nat /\ Rows > 0
  BY <1>0, SolidFacts DEF TypeOK
<1>2. CASE \E c \in Caps, d \in BOOLEAN : PowerOn(c, d)
  <2>1. PICK d \in BOOLEAN : PowerOn(cap, d)
    BY <1>0, <1>2 DEF PowerOn
  <2>2. CASE meta.valid
    <3>1. ~(meta.head >= cap) /\ ~(meta.tail >= cap) /\ ~(meta.count > cap)
      BY <1>1, <2>2, RingFields, CapacityType
    <3>2. Clamped(meta, cap) = meta
      BY <1>1, <2>2, <3>1 DEF Clamped, Ring, Rings
    <3>3. ram' = meta /\ pc' = "idle" /\ meta' = meta
      BY <2>1, <2>2, <3>2 DEF PowerOn
    <3>4. QED BY <1>0, <1>1, <2>2, <3>3 DEF Consistent
  <2>3. CASE ~meta.valid
    <3>1. ram' = Fresh /\ pc' = "fresh" /\ ~ready' /\ meta' = meta
      BY <2>1, <2>3 DEF PowerOn
    <3>2. QED BY <1>0, <2>3, <3>1 DEF Consistent
  <2>4. QED BY <2>2, <2>3
<1>3. CASE PowerLoss
  <2>1. pc' = "off" /\ ~ready' /\ meta' \in MetaOutcomes /\ pc # "off"
    BY <1>3 DEF PowerLoss
  <2>2. meta'.valid => Fits(meta', cap) /\ Aligned(cap, meta')
    BY <1>0, <2>1, MetaShape
  <2>3. QED BY <1>0, <2>1, <2>2 DEF Consistent
<1>4. CASE MetaWritten
  <2>1. pc' = "idle" /\ meta' = ram /\ ram' = ram /\ pc \in MetaWrites /\ pc # "off"
    BY <1>4 DEF MetaWritten, MetaWrites
  <2>2. ram.valid /\ Fits(ram, cap) /\ Aligned(cap, ram)
    BY <1>0, <2>1, MetaShape
  <2>3. QED BY <1>0, <2>1, <2>2 DEF Consistent
<1>5. CASE MetaFails
  <2>1. /\ pc' = "idle" /\ meta' \in MetaOutcomes /\ ram' = ram
        /\ pc \in MetaWrites /\ pc # "off"
    BY <1>5 DEF MetaFails, MetaWrites
  <2>2. /\ ram.valid /\ Aligned(cap, ram)
        /\ meta'.valid => Fits(meta', cap) /\ Aligned(cap, meta')
    BY <1>0, <2>1, MetaShape
  <2>3. QED BY <1>0, <2>1, <2>2 DEF Consistent
<1>6. CASE PutRefused \/ PutFails
  <2>1. /\ pc' = "idle" /\ UNCHANGED <<meta, ram, ready>>
    BY <1>6 DEF PutRefused, PutFails
  <2>2. QED BY <1>0, <1>1, <2>1 DEF Consistent
<1>7. CASE Put
  <2>1. /\ pc = "idle" /\ pc' = "row" /\ ready /\ UNCHANGED <<meta, ready>>
        /\ ram' = IF Full THEN Dropped ELSE ram
    BY <1>7 DEF Put
  <2>2. ram.valid /\ Aligned(cap, ram)
    BY <1>0, <2>1, SolidFacts
  <2>3. ram'.valid /\ Aligned(cap, ram')
    <3>1. CASE Full
      <4>1. ram.count # 0
        BY <1>1, <3>1, CapacityType DEF Full
      <4>2. Dropped.valid /\ Aligned(cap, Dropped)
        BY <1>0, <2>1, <4>1, DroppedQueue
      <4>3. QED BY <2>1, <3>1, <4>2
    <3>2. CASE ~Full
      BY <2>1, <2>2, <3>2
    <3>3. QED BY <3>1, <3>2
  <2>4. QED BY <1>0, <1>1, <2>1, <2>3 DEF Consistent
<1>8. CASE PutWritten
  <2>1. /\ pc = "row" /\ pc' = "putMeta" /\ UNCHANGED <<meta, ready>>
    BY <1>8 DEF PutWritten
  <2>2. ram'.valid /\ Aligned(cap, ram')
    BY <1>0, <1>8, <2>1, AddedQueue
  <2>3. QED BY <1>0, <1>1, <2>1, <2>2 DEF Consistent
<1>9. CASE Consume \/ PeekDiscards
  <2>1. /\ pc = "idle" /\ pc' = "meta" /\ ready /\ UNCHANGED <<meta, ready>>
        /\ ram' = Dropped /\ ram.count # 0
    BY <1>9 DEF Consume, PeekDiscards
  <2>2. Dropped.valid /\ Aligned(cap, Dropped)
    BY <1>0, <2>1, DroppedQueue
  <2>3. QED BY <1>0, <1>1, <2>1, <2>2 DEF Consistent
<1>10. CASE EraseAll
  <2>1. pc' = "erase" /\ at' = 0 /\ UNCHANGED <<meta, ram, ready>>
    BY <1>10 DEF EraseAll
  <2>2. QED BY <1>0, <1>1, <2>1 DEF Consistent
<1>11. CASE EraseRow \/ EraseFails
  <2>1. /\ pc = "erase" /\ pc' \in {"erase", "idle"} /\ UNCHANGED <<ram, ready>>
        /\ meta' = Torn \/ (meta' = meta /\ (pc' = "erase" => at > 0))
    BY <1>11 DEF EraseRow, EraseFails, EraseMetaRow, EraseDataRow
  <2>2. pc' = "erase" => ~meta'.valid
    BY <1>1, <2>1, FreshAligned DEF Consistent
  <2>3. meta'.valid => Fits(meta', cap) /\ Aligned(cap, meta')
    BY <1>1, <2>1, FreshAligned
  <2>4. QED BY <1>0, <1>1, <2>1, <2>2, <2>3 DEF Consistent
<1>12. CASE EraseDone
  <2>1. /\ pc = "erase" /\ at > Rows /\ ram' = Fresh /\ pc' = "freshErased"
        /\ UNCHANGED <<meta, ready>>
    BY <1>12 DEF EraseDone
  <2>2. ~meta.valid
    BY <1>1, <2>1 DEF Consistent
  <2>3. QED BY <1>0, <1>1, <2>1, <2>2, FreshAligned DEF Consistent
<1>13. CASE UNCHANGED vars
  <2>1. UNCHANGED <<meta, ram, ready, pc, at>>
    BY <1>13 DEF vars
  <2>2. QED BY <1>0, <1>1, <2>1 DEF Consistent
<1>14. QED BY <1>0, <1>2, <1>3, <1>4, <1>5, <1>6, <1>7, <1>8, <1>9, <1>10, <1>11, <1>12,
              <1>13 DEF Next

\* Nothing is stored at first.
LEMMA InitSolid == Init => Solid
<1> SUFFICES ASSUME Init PROVE Solid
  OBVIOUS
<1>1. IInv
  BY InitInv
<1>2. /\ slots = [s \in Slots |-> Unreadable] /\ meta = Torn /\ ~ready /\ pc = "off"
      /\ next = 1
  BY DEF Init
<1>3. RowsUnique /\ RowsOlder
  BY <1>2 DEF RowsUnique, RowsOlder, Unreadable
<1>4. Consistent
  BY <1>2, FreshAligned DEF Consistent, Torn
<1>5. QED BY <1>1, <1>3, <1>4 DEF Solid

\* The invariant is inductive.
LEMMA StepSolid == Solid /\ [Next]_vars => Solid'
<1> SUFFICES ASSUME Solid, [Next]_vars PROVE Solid'
  OBVIOUS
<1>1. IInv'
  BY StepInv DEF Solid
<1>2. RowsUnique' /\ RowsOlder'
  BY StepRows
<1>3. ~resized' => Consistent'
  BY StepConsistent
<1>4. QED BY <1>1, <1>2, <1>3 DEF Solid

(***************************************************************************)
(* The refinement.  A step of the rows, seen through Stored, Kept and      *)
(* Saving, is a step of DurableFifo or changes none of them.               *)
(***************************************************************************)
Saving == pc \in {"putMeta", "meta"}
\* The places of Kept whose record is still queued stay as they are.
Spares ==
  /\ Len(Kept') = Len(Kept)
  /\ \A i \in 1 .. Len(Kept) :
       Kept[i] # Unreadable /\ (\E j \in 1 .. Len(Stored) : Stored[j] = Kept[i])
         => Kept'[i] = Kept[i]

\* Each action of DurableFifo in these terms.
LEMMA TierAccept ==
  ASSUME ~resized, ~resized', ~Saving, Saving', NEW r \in 1 .. MaxRec,
         ~\E j \in 1 .. Len(Stored) : Stored[j] = r,
         Stored' = Append(Stored, r), Spares
  PROVE  Tier!Next
<1>1. Tier!SparesQueued
  BY DEF Spares, Tier!SparesQueued, Tier!Occurs
<1>2. Tier!Accept(r)
  BY <1>1 DEF Tier!Accept, Tier!Occurs, Saving
<1>3. QED BY <1>2 DEF Tier!Next

\* A put that fails.
LEMMA TierRefuse ==
  ASSUME ~resized, ~resized', Stored' = Stored, Saving' <=> Saving, Spares
  PROVE  Tier!Next
<1>1. Tier!SparesQueued
  BY DEF Spares, Tier!SparesQueued, Tier!Occurs
<1>2. Tier!Refuse
  BY <1>1 DEF Tier!Refuse, Saving
<1>3. QED BY <1>2 DEF Tier!Next

\* The oldest record leaves.
LEMMA TierRemove ==
  ASSUME ~resized, ~resized', ~Saving, Stored # <<>>, Stored' = Tail(Stored), Kept' = Kept
  PROVE  Tier!Next
<1>1. Tier!Remove
  BY DEF Tier!Remove, Saving
<1>2. QED BY <1>1 DEF Tier!Next

\* The metadata write ends, with old metadata, new, or none.
LEMMA TierSaved ==
  ASSUME ~resized, ~resized', Saving, ~Saving', Stored' = Stored,
         Kept' \in {Kept, Stored, <<>>}
  PROVE  Tier!Next
<1>1. Tier!NotSaved
  BY DEF Tier!NotSaved, Saving
<1>2. QED BY <1>1 DEF Tier!Next

\* A reset brings back what is kept.
LEMMA TierReset ==
  ASSUME ~resized, ~resized', ~Saving', Stored' = Kept',
         Spares \/ (Saving /\ Kept' \in {Stored, <<>>})
  PROVE  Tier!Next
<1>1. Spares => Tier!SparesQueued
  BY DEF Spares, Tier!SparesQueued, Tier!Occurs
<1>2. Tier!Reset
  BY <1>1 DEF Tier!Reset, Saving
<1>3. QED BY <1>2 DEF Tier!Next

\* A step of erase_all, or its end.
LEMMA TierErase ==
  ASSUME ~resized, ~resized', ~Saving, ~Saving',
         \/ Stored' = <<>>
         \/ /\ Len(Stored') = Len(Stored)
            /\ \A i \in 1 .. Len(Stored) : Stored'[i] \in {Stored[i], Unreadable},
         Kept' \in {Kept, <<>>}
  PROVE  Tier!Next
<1>1. Tier!Erase
  BY DEF Tier!Erase, Saving
<1>2. QED BY <1>1 DEF Tier!Next

\* A build with another capacity: nothing is promised any more.
LEMMA TierReconfigure == ASSUME resized' PROVE Tier!Next
<1>1. Tier!Reconfigure
  BY DEF Tier!Reconfigure
<1>2. QED BY <1>1 DEF Tier!Next

\* A step the tier does not see.
LEMMA TierStutter ==
  ASSUME ~resized, ~resized', Stored' = Stored, Kept' = Kept, Saving' <=> Saving
  PROVE  UNCHANGED Tier!vars
  BY DEF Tier!vars, Saving

\* The tier starts empty.
LEMMA TierInit == Init => Tier!Init
<1> SUFFICES ASSUME Init PROVE Tier!Init
  OBVIOUS
<1>1. ~resized /\ ~ready /\ meta = Torn /\ pc = "off"
  BY DEF Init
<1>2. Stored = <<>> /\ Kept = <<>>
  BY <1>1, ModelQueue, EmptyQueue
<1>3. QED BY <1>1, <1>2 DEF Tier!Init

\* Nothing kept changes where the metadata row and the data rows stay.
LEMMA SameKept == ASSUME Kept' = Kept PROVE Spares
BY DEF Spares

\* A row write, returning or not, spoils no place of a record that is queued:
\* no two rows hold the same record, and the row at the head holds none of them.
LEMMA RowSpares ==
  ASSUME Solid, ~resized, pc = "row", slots' \in SlotOutcomes,
         slots' \in [Slots -> 0 .. MaxRec], meta' = meta, cap' = cap
  PROVE  Spares /\ QueueIn(cap, ram, slots') = QueueIn(cap, ram, slots)
<1>1. /\ TypeOK /\ Ranges /\ Consistent /\ cap \in Caps
      /\ meta \in Rings /\ ram \in Rings /\ slots \in [Slots -> 0 .. MaxRec]
      /\ meta.valid => Fits(meta, cap)
  BY SolidFacts
<1>2. ready /\ ram.count < cap
  BY <1>1 DEF Consistent, Ranges
<1>3. ram.valid /\ Aligned(cap, ram) /\ Fits(ram, cap)
  BY <1>2, SolidFacts
<1>4. \A k \in Slots : k # ram.head => slots'[k] = slots[k]
  BY <1>1, RowOutcome
<1>5. QueueIn(cap, ram, slots') = QueueIn(cap, ram, slots)
  BY <1>1, <1>2, <1>3, <1>4, HeadWritten
<1>6. /\ Stored = QueueIn(cap, ram, slots)
      /\ Kept = QueueIn(cap, meta, slots) /\ Kept' = QueueIn(cap, meta, slots')
  BY <1>2, ModelQueue
<1>7. CASE ~meta.valid
  <2>1. Kept' = Kept
    BY <1>6, <1>7, EmptyQueue
  <2>2. QED BY <1>5, <2>1, SameKept
<1>8. CASE meta.valid
  <2>1. /\ Len(Kept) = meta.count /\ Len(Kept') = meta.count
        /\ \A i \in 1 .. meta.count : /\ Kept[i] = slots[Place(cap, meta.tail, i)]
                                      /\ Kept'[i] = slots'[Place(cap, meta.tail, i)]
    BY <1>1, <1>6, <1>8, QueueValue
  <2>2. /\ Len(Stored) = ram.count
        /\ \A j \in 1 .. ram.count : Stored[j] = slots[Place(cap, ram.tail, j)]
    BY <1>1, <1>3, <1>6, QueueValue
  <2>3. ASSUME NEW i \in 1 .. meta.count, NEW j \in 1 .. ram.count,
               Kept[i] # Unreadable, Stored[j] = Kept[i]
        PROVE  Kept'[i] = Kept[i]
    <3>1. Place(cap, meta.tail, i) \in Slots
      <4>1. meta.tail \in Nat /\ meta.tail < cap /\ i \in 1 .. cap + 1
        BY <1>1, <1>8, RingFields
      <4>2. QED BY <1>1, <4>1, PlaceValue
    <3>2. Place(cap, ram.tail, j) \in Slots
      <4>1. ram.tail \in Nat /\ ram.tail < cap /\ j \in 1 .. cap + 1
        BY <1>1, <1>3, RingFields
      <4>2. QED BY <1>1, <4>1, PlaceValue
    <3>3. Place(cap, meta.tail, i) = Place(cap, ram.tail, j)
      BY <2>1, <2>2, <2>3, <3>1, <3>2 DEF Solid, RowsUnique
    <3>4. Place(cap, ram.tail, j) # ram.head
      BY <1>1, <1>2, <1>3, HeadFree
    <3>5. QED BY <1>4, <2>1, <3>1, <3>3, <3>4
  <2>4. QED BY <1>5, <2>1, <2>2, <2>3 DEF Spares
<1>9. QED BY <1>7, <1>8

\* The types that hold before and after a step.
LEMMA StepTypes ==
  ASSUME Solid, [Next]_vars
  PROVE  /\ slots' \in [Slots -> 0 .. MaxRec]
         /\ pc \in MetaWrites \union {"off", "idle", "row", "erase"}
<1>1. IInv' /\ TypeOK
  BY StepInv DEF Solid, IInv
<1>2. QED BY <1>1 DEF IInv, TypeOK

\* A reset: what the metadata row and the row being written have come to.
LEMMA TierPowerLoss ==
  ASSUME Solid, ~resized, ~resized', cap' = cap, slots' \in [Slots -> 0 .. MaxRec], PowerLoss
  PROVE  Tier!Next
<1>1. /\ pc # "off" /\ meta' \in MetaOutcomes /\ slots' \in SlotOutcomes
      /\ pc' = "off" /\ ready' = FALSE
  BY DEF PowerLoss
<1>2. ~Saving' /\ Stored' = Kept' /\ Consistent
  <2>1. ~Saving' /\ Consistent
    BY <1>1, SolidFacts DEF Saving
  <2>2. QED BY <1>1, <2>1, ModelQueue
<1>3. Kept = QueueIn(cap, meta, slots) /\ Kept' = QueueIn(cap, meta', slots')
  BY ModelQueue
<1>4. CASE pc = "row"
  <2>1. meta' = meta
    BY <1>1, <1>4 DEF MetaOutcomes, MetaWrites
  <2>2. QED BY <1>1, <1>2, <1>4, <2>1, RowSpares, TierReset
<1>5. CASE pc \in {"putMeta", "meta"}
  <2>1. /\ ready /\ Saving /\ slots' = slots /\ meta' \in {meta, Torn, ram}
    BY <1>1, <1>2, <1>5 DEF Consistent, Saving, SlotOutcomes, MetaOutcomes
  <2>2. Stored = QueueIn(cap, ram, slots)
    BY <2>1, ModelQueue
  <2>3. Kept' = Kept \/ Kept' \in {Stored, <<>>}
    BY <1>3, <2>1, <2>2, EmptyQueue
  <2>4. QED BY <1>2, <2>1, <2>3, SameKept, TierReset
<1>6. CASE pc \in {"fresh", "freshErased"}
  <2>1. ~meta.valid /\ ram = Fresh /\ meta' \in {meta, Torn, Fresh}
    BY <1>1, <1>2, <1>6 DEF Consistent, MetaOutcomes
  <2>2. Kept = <<>> /\ Kept' = <<>>
    BY <1>3, <2>1, EmptyQueue
  <2>3. QED BY <1>2, <2>2, SameKept, TierReset
<1>7. CASE pc \notin {"row", "putMeta", "meta", "fresh", "freshErased"}
  <2>1. pc \notin MetaWrites
    BY <1>2, <1>7 DEF Consistent, MetaWrites
  <2>2. meta' = meta /\ slots' = slots
    BY <1>1, <1>7, <2>1 DEF MetaOutcomes, SlotOutcomes
  <2>3. Kept' = Kept
    BY <1>3, <2>2
  <2>4. QED BY <1>2, <2>3, SameKept, TierReset
<1>8. QED BY <1>4, <1>5, <1>6, <1>7

\* Power-on: without a change of the capacity nothing recovered is clamped.
LEMMA TierPowerOn ==
  ASSUME Solid, ~resized, ~resized', cap' = cap,
         NEW c \in Caps, NEW d \in BOOLEAN, PowerOn(c, d)
  PROVE  UNCHANGED Tier!vars
<1>1. pc = "off" /\ ~ready /\ c = cap /\ slots' = slots /\ meta' = meta
  BY SolidFacts DEF PowerOn, Ranges
<1>2. Kept' = Kept /\ Stored = Kept /\ ~Saving
  BY <1>1, ModelQueue DEF Saving
<1>3. CASE meta.valid
  <2>1. /\ meta \in Rings /\ meta.head < cap /\ meta.tail < cap /\ meta.count <= cap
        /\ meta.head \in Nat /\ meta.tail \in Nat /\ meta.count \in Nat /\ cap \in Nat
    BY <1>3, SolidFacts, RingFields, CapacityType
  <2>2. Clamped(meta, cap) = meta
    BY <1>3, <2>1 DEF Clamped, Ring, Rings
  <2>3. ram' = meta /\ pc' = "idle" /\ ready' = TRUE
    BY <1>1, <1>3, <2>2 DEF PowerOn
  <2>4. ~Saving'
    BY <2>3 DEF Saving
  <2>5. Stored' = Kept'
    BY <1>1, <2>3, ModelQueue
  <2>6. QED BY <1>2, <2>4, <2>5, TierStutter
<1>4. CASE ~meta.valid
  <2>1. pc' = "fresh" /\ ready' = FALSE
    BY <1>4 DEF PowerOn
  <2>2. ~Saving'
    BY <2>1 DEF Saving
  <2>3. Stored' = Kept'
    BY <2>1, ModelQueue
  <2>4. QED BY <1>2, <2>2, <2>3, TierStutter
<1>5. QED BY <1>3, <1>4

\* The end of a metadata write.
LEMMA TierMeta ==
  ASSUME Solid, ~resized, ~resized', cap' = cap, MetaWritten \/ MetaFails
  PROVE  Tier!Next \/ UNCHANGED Tier!vars
<1>1. /\ pc \in MetaWrites /\ pc # "clamp" /\ Consistent
      /\ meta' \in {meta, Torn, ram} /\ slots' = slots /\ ram' = ram /\ pc' = "idle"
      /\ ready' = ready \/ (ready' = TRUE /\ meta' = ram)
  <2>1. /\ pc \in MetaWrites /\ meta' \in {meta, Torn, ram} /\ slots' = slots
        /\ ram' = ram /\ pc' = "idle"
    BY DEF MetaWritten, MetaFails, MetaOutcomes
  <2>2. Consistent /\ pc # "clamp" /\ ready \in BOOLEAN
    BY SolidFacts DEF Consistent, TypeOK
  <2>3. CASE MetaWritten
    <3>1. ready' = TRUE /\ meta' = ram
      BY <2>3 DEF MetaWritten
    <3>2. QED BY <2>1, <2>2, <3>1
  <2>4. CASE MetaFails
    <3>1. ready' = (ready \/ pc = "clamp")
      BY <2>4 DEF MetaFails
    <3>2. ready' = ready
      BY <2>2, <3>1
    <3>3. QED BY <2>1, <2>2, <3>2
  <2>5. QED BY <2>3, <2>4
<1>2. ~Saving'
  BY <1>1 DEF Saving
<1>3. /\ Kept = QueueIn(cap, meta, slots) /\ Kept' = QueueIn(cap, meta', slots)
      /\ Stored' = IF ready' THEN QueueIn(cap, ram, slots) ELSE QueueIn(cap, meta', slots)
      /\ Stored = IF ready THEN QueueIn(cap, ram, slots) ELSE QueueIn(cap, meta, slots)
  BY <1>1, ModelQueue
<1>4. CASE pc \in {"putMeta", "meta"}
  <2>1. ready /\ ready' /\ Saving
    BY <1>1, <1>4 DEF Consistent, Saving
  <2>2. Stored' = Stored
    BY <1>3, <2>1
  <2>3. Kept' \in {Kept, Stored, <<>>}
    BY <1>1, <1>3, <2>1, EmptyQueue
  <2>4. QED BY <1>2, <2>1, <2>2, <2>3, TierSaved
<1>5. CASE pc \in {"fresh", "freshErased"}
  <2>1. ~meta.valid /\ ram = Fresh /\ meta' \in {meta, Torn, Fresh} /\ ~Saving
    BY <1>1, <1>5 DEF Consistent, Saving
  <2>2. Kept = <<>> /\ Kept' = <<>> /\ QueueIn(cap, ram, slots) = <<>>
    BY <1>3, <2>1, EmptyQueue
  <2>3. Stored' = <<>>
    BY <1>3, <2>2
  <2>4. CASE pc = "freshErased"
    BY <1>2, <2>1, <2>2, <2>3, TierErase
  <2>5. CASE pc = "fresh"
    <3>1. Stored = <<>>
      BY <1>3, <2>2
    <3>2. QED BY <1>2, <2>1, <2>2, <2>3, <3>1, TierStutter
  <2>6. QED BY <1>5, <2>4, <2>5
<1>6. QED BY <1>1, <1>4, <1>5 DEF MetaWrites

\* Puts.
LEMMA TierPut ==
  ASSUME Solid, [Next]_vars, ~resized, ~resized', cap' = cap,
         PutRefused \/ Put \/ PutWritten \/ PutFails
  PROVE  Tier!Next \/ UNCHANGED Tier!vars
<1>1. /\ cap \in Caps /\ ram \in Rings /\ slots \in [Slots -> 0 .. MaxRec]
      /\ meta' = meta /\ ready' = ready /\ Consistent /\ slots' \in [Slots -> 0 .. MaxRec]
      /\ pc # "off" /\ ready
  BY SolidFacts, StepTypes DEF PutRefused, Put, PutWritten, PutFails, Consistent
<1>2. /\ Kept = QueueIn(cap, meta, slots) /\ Kept' = QueueIn(cap, meta, slots')
      /\ Stored' = QueueIn(cap, ram', slots') /\ Stored = QueueIn(cap, ram, slots)
  BY <1>1, ModelQueue
<1>3. Fits(ram, cap) /\ ram.valid /\ Aligned(cap, ram)
  BY <1>1, SolidFacts
<1>4. CASE PutRefused
  <2>1. slots' = slots /\ ram' = ram /\ pc' = pc
    BY <1>4 DEF PutRefused
  <2>2. Stored' = Stored /\ Kept' = Kept
    BY <1>2, <2>1
  <2>3. Saving' <=> Saving
    BY <2>1 DEF Saving
  <2>4. QED BY <2>2, <2>3, TierStutter
<1>5. CASE Put
  <2>1. slots' = slots /\ pc = "idle" /\ pc' = "row" /\ ram' = IF Full THEN Dropped ELSE ram
    BY <1>5 DEF Put
  <2>2. Kept' = Kept
    BY <1>2, <2>1
  <2>3. ~Saving /\ ~Saving'
    BY <2>1 DEF Saving
  <2>4. CASE Full
    <3>1. ram.count # 0
      <4>1. ram.count \in Nat /\ cap \in Nat /\ cap > 0
        BY <1>1, <1>3, RingFields, CapacityType
      <4>2. QED BY <2>4, <4>1 DEF Full
    <3>2. Stored # <<>> /\ Stored' = Tail(Stored)
      BY <1>1, <1>2, <2>1, <2>4, <3>1, DroppedQueue
    <3>3. QED BY <2>2, <2>3, <3>2, TierRemove
  <2>5. CASE ~Full
    <3>1. Stored' = Stored
      BY <1>2, <2>1, <2>5
    <3>2. QED BY <2>2, <2>3, <3>1, TierStutter
  <2>6. QED BY <2>4, <2>5
<1>6. CASE PutWritten
  <2>1. /\ pc = "row" /\ pc' = "putMeta" /\ slots' = [slots EXCEPT ![ram.head] = next]
    BY <1>6 DEF PutWritten, PutAtHead
  <2>2. slots' \in SlotOutcomes
    BY <2>1 DEF SlotOutcomes
  <2>3. Spares
    BY <1>1, <2>1, <2>2, RowSpares
  <2>4. Stored' = Append(Stored, next)
    BY <1>2, <1>6, <2>1, AddedQueue
  <2>5. next \in 1 .. MaxRec
    BY <2>1, SolidFacts, FlashAssumption DEF TypeOK, Ranges
  <2>6. ASSUME NEW j \in 1 .. Len(Stored) PROVE Stored[j] # next
    <3>1. j \in 1 .. ram.count /\ Stored[j] = slots[Place(cap, ram.tail, j)]
      BY <1>1, <1>2, <1>3, QueueValue
    <3>2. Place(cap, ram.tail, j) \in Slots
      <4>1. ram.tail \in Nat /\ ram.tail < cap /\ j \in 1 .. cap + 1
        BY <1>1, <1>3, <3>1, RingFields
      <4>2. QED BY <1>1, <4>1, PlaceValue
    <3>3. slots[Place(cap, ram.tail, j)] < next
      BY <3>2 DEF Solid, RowsOlder
    <3>4. slots[Place(cap, ram.tail, j)] \in 0 .. MaxRec
      BY <1>1, <3>2
    <3>5. QED BY <2>5, <3>1, <3>3, <3>4, FlashAssumption
  <2>7. ~Saving /\ Saving'
    BY <2>1 DEF Saving
  <2>8. QED BY <2>3, <2>4, <2>5, <2>6, <2>7, TierAccept
<1>7. CASE PutFails
  <2>1. pc = "row" /\ pc' = "idle" /\ ram' = ram /\ slots' \in SlotOutcomes
    BY <1>7 DEF PutFails
  <2>2. Spares /\ Stored' = Stored
    BY <1>1, <1>2, <2>1, RowSpares
  <2>3. Saving' <=> Saving
    BY <2>1 DEF Saving
  <2>4. QED BY <2>2, <2>3, TierRefuse
<1>8. QED BY <1>4, <1>5, <1>6, <1>7

\* Consuming, and discarding at a peek.
LEMMA TierTake ==
  ASSUME Solid, ~resized, ~resized', cap' = cap, Consume \/ PeekDiscards
  PROVE  Tier!Next
<1>1. /\ pc = "idle" /\ ready /\ ram.count # 0 /\ ram' = Dropped /\ pc' = "meta"
      /\ slots' = slots /\ meta' = meta /\ ready' = ready
  BY DEF Consume, PeekDiscards
<1>2. Kept' = Kept /\ Stored' = QueueIn(cap, Dropped, slots)
      /\ Stored = QueueIn(cap, ram, slots)
  BY <1>1, ModelQueue
<1>3. Stored # <<>> /\ Stored' = Tail(Stored)
  BY <1>1, <1>2, DroppedQueue
<1>4. ~Saving
  BY <1>1 DEF Saving
<1>5. QED BY <1>2, <1>3, <1>4, TierRemove

\* Erasing: the metadata row goes first, so that nothing is kept by the time
\* the data rows go.
LEMMA TierEraseAll ==
  ASSUME Solid, [Next]_vars, ~resized, ~resized', cap' = cap,
         EraseAll \/ EraseRow \/ EraseFails \/ EraseDone
  PROVE  Tier!Next \/ UNCHANGED Tier!vars
<1>1. /\ TypeOK /\ Consistent /\ slots' \in [Slots -> 0 .. MaxRec]
      /\ pc # "off" /\ ready' = ready /\ pc \in {"idle", "erase"}
      /\ pc' \in {"idle", "erase", "freshErased"} /\ cap \in Caps
      /\ ram \in Rings /\ slots \in [Slots -> 0 .. MaxRec]
  BY SolidFacts, StepTypes DEF EraseAll, EraseRow, EraseFails, EraseDone
<1>2. ~Saving /\ ~Saving'
  BY <1>1 DEF Saving
<1>3. /\ Kept = QueueIn(cap, meta, slots) /\ Kept' = QueueIn(cap, meta', slots')
      /\ Stored' = IF ready THEN QueueIn(cap, ram', slots') ELSE Kept'
      /\ Stored = IF ready THEN QueueIn(cap, ram, slots) ELSE Kept
  BY <1>1, ModelQueue
<1>4. CASE EraseAll
  <2>1. slots' = slots /\ ram' = ram /\ meta' = meta
    BY <1>4 DEF EraseAll
  <2>2. Stored' = Stored /\ Kept' = Kept
    BY <1>3, <2>1
  <2>3. QED BY <1>2, <2>2, TierStutter
<1>5. CASE EraseRow \/ EraseFails
  <2>1. /\ pc = "erase" /\ ram' = ram
        /\ \/ meta' = Torn /\ slots' = slots
           \/ at > 0 /\ meta' = meta /\ slots' = [slots EXCEPT ![at - 1] = Unreadable]
           \/ meta' = meta /\ slots' = slots
    BY <1>5 DEF EraseRow, EraseFails, EraseMetaRow, EraseDataRow
  <2>2. Kept' \in {Kept, <<>>}
    <3>1. CASE meta' = Torn
      BY <1>3, <3>1, EmptyQueue
    <3>2. CASE meta' = meta /\ slots' = slots
      BY <1>3, <3>2
    <3>3. CASE at > 0 /\ meta' = meta
      <4>1. ~meta'.valid
        BY <1>1, <2>1, <3>3 DEF Consistent
      <4>2. QED BY <1>3, <4>1, EmptyQueue
    <3>4. QED BY <2>1, <3>1, <3>2, <3>3
  <2>3. CASE ~ready
    <3>1. Stored' \in {Stored, <<>>}
      BY <1>3, <2>2, <2>3
    <3>2. CASE Stored' = <<>>
      BY <1>2, <2>2, <3>2, TierErase
    <3>3. CASE Stored' = Stored
      BY <1>2, <2>2, <3>3, TierErase
    <3>4. QED BY <3>1, <3>2, <3>3
  <2>4. CASE ready
    <3>1. Fits(ram, cap) /\ ram.valid
      BY <1>1, <2>4, SolidFacts
    <3>2. /\ Len(Stored) = ram.count /\ Len(Stored') = ram.count
          /\ \A i \in 1 .. ram.count : /\ Stored[i] = slots[Place(cap, ram.tail, i)]
                                       /\ Stored'[i] = slots'[Place(cap, ram.tail, i)]
      BY <1>1, <1>3, <2>1, <2>4, <3>1, QueueValue
    <3>3. \A k \in Slots : slots'[k] \in {slots[k], Unreadable}
      BY <1>1, <2>1
    <3>4. ASSUME NEW i \in 1 .. ram.count PROVE Place(cap, ram.tail, i) \in Slots
      <4>1. ram.tail \in Nat /\ ram.tail < cap /\ i \in 1 .. cap + 1
        BY <1>1, <3>1, RingFields
      <4>2. QED BY <1>1, <4>1, PlaceValue
    <3>5. QED BY <1>2, <2>2, <3>2, <3>3, <3>4, TierErase
  <2>5. QED BY <2>3, <2>4
<1>6. CASE EraseDone
  <2>1. pc = "erase" /\ at > Rows /\ ram' = Fresh /\ meta' = meta
    BY <1>6 DEF EraseDone
  <2>2. ~meta.valid
    BY <1>1, <2>1, FlashAssumption DEF Consistent, TypeOK
  <2>3. Kept' = <<>> /\ Kept = <<>> /\ QueueIn(cap, ram', slots') = <<>>
    BY <1>3, <2>1, <2>2, EmptyQueue
  <2>4. Stored' = <<>>
    BY <1>3, <2>3
  <2>5. QED BY <1>2, <2>3, <2>4, TierErase
<1>7. QED BY <1>4, <1>5, <1>6

\* Every step is one of the tier's.
LEMMA StepTier == Solid /\ [Next]_vars => [Tier!Next]_(Tier!vars)
<1> SUFFICES ASSUME Solid, [Next]_vars PROVE Tier!Next \/ UNCHANGED Tier!vars
  OBVIOUS
<1>1. CASE resized'
  BY <1>1, TierReconfigure
<1>2. CASE ~resized'
  <2>1. ~resized /\ cap' = cap /\ slots' \in [Slots -> 0 .. MaxRec]
    BY <1>2, StepConsistent, StepTypes
  <2>2. CASE \E c \in Caps, d \in BOOLEAN : PowerOn(c, d)
    BY <1>2, <2>1, <2>2, TierPowerOn
  <2>3. CASE PowerLoss
    BY <1>2, <2>1, <2>3, TierPowerLoss
  <2>4. CASE MetaWritten \/ MetaFails
    BY <1>2, <2>1, <2>4, TierMeta
  <2>5. CASE PutRefused \/ Put \/ PutWritten \/ PutFails
    BY <1>2, <2>1, <2>5, TierPut
  <2>6. CASE Consume \/ PeekDiscards
    BY <1>2, <2>1, <2>6, TierTake
  <2>7. CASE EraseAll \/ EraseRow \/ EraseFails \/ EraseDone
    BY <1>2, <2>1, <2>7, TierEraseAll
  <2>8. CASE UNCHANGED vars
    <3>1. /\ UNCHANGED <<slots, meta, ram, ready, cap, pc>>
      BY <2>8 DEF vars
    <3>2. Stored' = Stored /\ Kept' = Kept
      BY <3>1, ModelQueue
    <3>3. Saving' <=> Saving
      BY <3>1 DEF Saving
    <3>4. QED BY <1>2, <2>1, <3>2, <3>3, TierStutter
  <2>9. QED BY <2>2, <2>3, <2>4, <2>5, <2>6, <2>7, <2>8 DEF Next
<1>3. QED BY <1>1, <1>2

\* flash_buffer.c is a DurableFifo for every number of rows, capacity and number
\* of puts, while the capacity stays: puts queue, consume and drop take the
\* oldest, and resets, torn rows and failed metadata writes cost no more than
\* DurableFifo allows.
THEOREM ImplementsDurableFifoCorrect == Spec => ImplementsDurableFifo
<1>1. Spec => []Solid
  BY InitSolid, StepSolid, PTL DEF Spec
<1>2. QED BY <1>1, TierInit, StepTier, PTL DEF Spec, Tier!Spec, ImplementsDurableFifo

(***************************************************************************)
(* How far s_meta is ahead of the metadata row: d records have been taken  *)
(* from the queue since, and at most one, being saved, has been added.     *)
(***************************************************************************)
Lag(d) ==
  /\ meta.valid /\ ram.tail = Place(cap, meta.tail, d + 1)
  /\ pc \in {"idle", "row"} => d <= 1
  /\ pc \in {"idle", "row", "meta"} => ram.count + d = meta.count
  /\ pc = "putMeta" =>
       /\ ram.count + d = meta.count + 1 /\ d <= 1 /\ ram.count > 0
       /\ slots[Place(cap, ram.tail, ram.count)] = next - 1
Followed ==
  /\ pc = "erase" /\ at > 0 => behind
  /\ pc = "freshErased" => behind
  /\ ready /\ ~behind /\ pc # "erase" =>
       pc \in {"idle", "row", "putMeta", "meta"} /\ \E d \in 0 .. 2 : Lag(d)
Lagging == Solid /\ (~resized => Followed)

\* Every row an operation or a reset may find has the type of a row.
LEMMA OutcomeRows ==
  ASSUME Solid, NEW s \in SlotOutcomes PROVE s \in [Slots -> 0 .. MaxRec]
<1>1. TypeOK /\ Ranges /\ slots \in [Slots -> 0 .. MaxRec]
  BY DEF Solid, IInv, TypeOK
<1>2. CASE pc = "row"
  <2>1. PICK r \in {slots[ram.head], Unreadable, next} : s = [slots EXCEPT ![ram.head] = r]
    BY <1>1, <1>2, RowOutcome
  <2>2. ram.head \in Slots /\ next \in 0 .. MaxRec /\ Unreadable \in 0 .. MaxRec
    BY <1>1, <1>2, RowOutcome, FlashAssumption DEF TypeOK, Ranges, Unreadable
  <2>3. r \in 0 .. MaxRec
    BY <1>1, <2>1, <2>2
  <2>4. QED BY <1>1, <2>1, <2>2, <2>3
<1>3. CASE pc # "row"
  BY <1>1, <1>3 DEF SlotOutcomes
<1>4. QED BY <1>2, <1>3

\* A record that is queued and acknowledged is d places further in what the
\* metadata row describes, in a row no write under way touches.
LEMMA AckedPlace ==
  ASSUME Solid, ~resized, ready, pc \in {"idle", "row", "putMeta", "meta"},
         NEW d \in 0 .. 2, Lag(d), NEW s \in SlotOutcomes, NEW j \in 1 .. ram.count,
         pc = "putMeta" => slots[Place(cap, ram.tail, j)] # next - 1
  PROVE  /\ d + j \in 1 .. meta.count
         /\ Place(cap, ram.tail, j) = Place(cap, meta.tail, d + j)
         /\ Place(cap, ram.tail, j) \in Slots
         /\ s[Place(cap, ram.tail, j)] = slots[Place(cap, ram.tail, j)]
<1>1. /\ TypeOK /\ Ranges /\ cap \in Caps /\ ram \in Rings /\ meta \in Rings
      /\ pc # "off" /\ ram.valid /\ Aligned(cap, ram) /\ Fits(ram, cap)
      /\ meta.valid /\ Fits(meta, cap)
  BY SolidFacts DEF Lag
<1>2. /\ ram.count \in Nat /\ meta.count \in Nat /\ cap \in Nat /\ meta.count <= cap
      /\ meta.tail \in Nat /\ meta.tail < cap /\ ram.tail \in Nat /\ ram.tail < cap
      /\ j \in 1 .. cap + 1
  BY <1>1, RingFields, CapacityType
<1>3. d + j \in 1 .. meta.count
  <2>1. CASE pc = "putMeta"
    <3>1. j # ram.count
      BY <2>1 DEF Lag
    <3>2. ram.count + d = meta.count + 1
      BY <2>1 DEF Lag
    <3>3. QED BY <1>2, <3>1, <3>2
  <2>2. CASE pc # "putMeta"
    <3>1. ram.count + d = meta.count
      BY <2>2 DEF Lag
    <3>2. QED BY <1>2, <3>1
  <2>3. QED BY <2>1, <2>2
<1>4. Place(cap, Place(cap, meta.tail, d + 1), j) = Place(cap, meta.tail, d + j)
  <2>1. d \in Nat /\ d < cap /\ j \in Nat /\ j > 0 /\ d + j <= cap + 1
    BY <1>2, <1>3
  <2>2. QED BY <1>1, <1>2, <2>1, PlaceShift
<1>5. Place(cap, ram.tail, j) = Place(cap, meta.tail, d + j)
  BY <1>4 DEF Lag
<1>6. Place(cap, ram.tail, j) \in Slots
  BY <1>1, <1>2, PlaceValue
<1>7. CASE pc = "row"
  <2>1. Place(cap, ram.tail, j) # ram.head
    BY <1>1, <1>7, HeadFree DEF Ranges
  <2>2. QED BY <1>1, <1>3, <1>5, <1>6, <1>7, <2>1, RowOutcome
<1>8. CASE pc # "row"
  BY <1>3, <1>5, <1>6, <1>8 DEF SlotOutcomes
<1>9. QED BY <1>7, <1>8

\* So a reset that finds the metadata row as it was brings them back, each in
\* its place after the d that had left.
LEMMA LagSurvives ==
  ASSUME Solid, ~resized, ready, pc \in {"idle", "row", "putMeta", "meta"},
         NEW d \in 0 .. 2, Lag(d), NEW s \in SlotOutcomes,
         NEW q, q = QueueIn(cap, ram, slots), NEW b, b = QueueIn(cap, meta, s)
  PROVE  /\ \A i \in 1 .. ram.count :
              (pc = "putMeta" => q[i] # next - 1) => i + d <= Len(b) /\ b[i + d] = q[i]
         /\ \A i \in 1 .. Len(b) :
              /\ b[i] # Unreadable /\ b[i] < next
              /\ pc = "putMeta" => b[i] # next - 1
              /\ \E j \in 1 .. ram.count : q[j] = b[i]
              => i > d /\ i - d <= ram.count /\ q[i - d] = b[i]
         /\ Len(b) <= ram.count + d
<1>1. /\ TypeOK /\ Ranges /\ cap \in Caps /\ ram \in Rings /\ meta \in Rings
      /\ pc # "off" /\ ram.valid /\ Aligned(cap, ram) /\ Fits(ram, cap)
      /\ meta.valid /\ Fits(meta, cap) /\ slots \in [Slots -> 0 .. MaxRec]
      /\ s \in [Slots -> 0 .. MaxRec]
  BY SolidFacts, OutcomeRows DEF Lag
<1>2. /\ ram.count \in Nat /\ meta.count \in Nat /\ cap \in Nat /\ meta.count <= cap
      /\ meta.tail \in Nat /\ meta.tail < cap /\ ram.tail \in Nat /\ ram.tail < cap
      /\ \A i \in 1 .. meta.count : i \in 1 .. cap /\ i \in 1 .. cap + 1
  BY <1>1, RingFields, CapacityType
<1>3. \A i \in 1 .. ram.count : q[i] = slots[Place(cap, ram.tail, i)]
  BY <1>1, QueueValue
<1>4. Len(b) = meta.count /\ \A i \in 1 .. meta.count : b[i] = s[Place(cap, meta.tail, i)]
  BY <1>1, QueueValue
<1>5. Len(b) <= ram.count + d
  <2>1. ram.count + d = meta.count \/ ram.count + d = meta.count + 1
    BY DEF Lag
  <2>2. QED BY <1>2, <1>4, <2>1
<1>6. ASSUME NEW j \in 1 .. ram.count, pc = "putMeta" => q[j] # next - 1
      PROVE  /\ d + j \in 1 .. meta.count /\ b[d + j] = q[j]
             /\ Place(cap, ram.tail, j) = Place(cap, meta.tail, d + j)
             /\ Place(cap, ram.tail, j) \in Slots
  <2>1. pc = "putMeta" => slots[Place(cap, ram.tail, j)] # next - 1
    BY <1>3, <1>6
  <2>2. /\ d + j \in 1 .. meta.count
        /\ Place(cap, ram.tail, j) = Place(cap, meta.tail, d + j)
        /\ Place(cap, ram.tail, j) \in Slots
        /\ s[Place(cap, ram.tail, j)] = slots[Place(cap, ram.tail, j)]
    BY <2>1, AckedPlace
  <2>3. b[d + j] = s[Place(cap, meta.tail, d + j)]
    BY <1>4, <2>2
  <2>4. b[d + j] = q[j]
    BY <1>3, <2>2, <2>3
  <2>5. QED BY <2>2, <2>4
<1>7. ASSUME NEW i \in 1 .. ram.count, pc = "putMeta" => q[i] # next - 1
      PROVE  i + d <= Len(b) /\ b[i + d] = q[i]
  <2>1. d + i \in 1 .. meta.count /\ b[d + i] = q[i]
    BY <1>6, <1>7
  <2>2. i + d = d + i
    BY <1>2
  <2>3. QED BY <1>2, <1>4, <2>1, <2>2
<1>8. ASSUME NEW i \in 1 .. Len(b), b[i] # Unreadable, b[i] < next,
             pc = "putMeta" => b[i] # next - 1,
             NEW j \in 1 .. ram.count, q[j] = b[i]
      PROVE  i > d /\ i - d <= ram.count /\ q[i - d] = b[i]
  <2>1. /\ d + j \in 1 .. meta.count /\ Place(cap, ram.tail, j) = Place(cap, meta.tail, d + j)
        /\ Place(cap, ram.tail, j) \in Slots
    BY <1>6, <1>8
  <2>2. i \in 1 .. meta.count /\ b[i] = s[Place(cap, meta.tail, i)]
    BY <1>4
  <2>3. PICK k \in Slots : k = Place(cap, meta.tail, i)
    BY <1>1, <1>2, <2>2, PlaceValue
  <2>4. s[k] = slots[k]
    <3>1. CASE pc = "row"
      <4>1. PICK r \in {slots[ram.head], Unreadable, next} : s = [slots EXCEPT ![ram.head] = r]
        BY <1>1, <3>1, RowOutcome
      <4>2. s[k] # Unreadable /\ s[k] # next
        <5>1. next \in Nat /\ s[k] \in 0 .. MaxRec /\ s[k] < next
          BY <1>1, <1>8, <2>2, <2>3, FlashAssumption DEF TypeOK
        <5>2. QED BY <1>8, <2>2, <2>3, <5>1, FlashAssumption
      <4>3. CASE k = ram.head
        <5>1. s[k] = r
          BY <1>1, <2>3, <4>1, <4>3
        <5>2. QED BY <4>1, <4>2, <4>3, <5>1
      <4>4. CASE k # ram.head
        BY <1>1, <2>3, <4>1, <4>4
      <4>5. QED BY <4>3, <4>4
    <3>2. CASE pc # "row"
      BY <3>2 DEF SlotOutcomes
    <3>3. QED BY <3>1, <3>2
  <2>5. slots[k] = slots[Place(cap, ram.tail, j)] /\ slots[k] # Unreadable
    BY <1>3, <1>8, <2>2, <2>3, <2>4
  <2>6. k = Place(cap, ram.tail, j)
    BY <2>1, <2>3, <2>5 DEF Solid, RowsUnique
  <2>7. Place(cap, meta.tail, i) = Place(cap, meta.tail, d + j)
    BY <2>1, <2>3, <2>6
  <2>8. i = d + j
    BY <1>1, <1>2, <2>1, <2>2, <2>7, PlaceUnique
  <2>9. i - d = j /\ i > d
    BY <2>2, <2>8
  <2>10. QED BY <1>2, <1>8, <2>9
<1>9. QED BY <1>5, <1>7, <1>8

\* The lag is what AckedSurvives asks for: with the old metadata the records are
\* d places further in, with the new ones in their places.
LEMMA LaggingSurvives == Lagging => AckedSurvives
<1> SUFFICES ASSUME Lagging, ready, ~resized, ~behind, pc # "erase",
                    NEW m \in MetaOutcomes, NEW s \in SlotOutcomes,
                    ~(pc \in {"putMeta", "meta"} /\ ~m.valid)
             PROVE  LET back == Queue(m, s)
                        queue == Queue(ram, slots)
                    IN \E d \in 0 .. 2 :
                         /\ \A i \in 1 .. ram.count : IsAcked(queue[i]) =>
                              i + d <= Len(back) /\ back[i + d] = queue[i]
                         /\ \A i \in 1 .. Len(back) : IsAcked(back[i]) =>
                              i > d /\ i - d <= ram.count /\ queue[i - d] = back[i]
                         /\ Len(back) <= ram.count + d
  BY DEF AckedSurvives
<1>1. /\ Solid /\ pc \in {"idle", "row", "putMeta", "meta"} /\ \E d \in 0 .. 2 : Lag(d)
  BY DEF Lagging, Followed
<1>2. PICK q : q = QueueIn(cap, ram, slots)
  OBVIOUS
<1>3. PICK b : b = QueueIn(cap, m, s)
  OBVIOUS
<1>4. Queue(ram, slots) = q /\ Queue(m, s) = b
  BY <1>2, <1>3, ModelQueue
<1>5. \A r : IsAcked(r) <=> /\ r # Unreadable /\ r < next
                            /\ pc = "putMeta" => r # next - 1
                            /\ \E i \in 1 .. ram.count : q[i] = r
  BY <1>4 DEF IsAcked
<1>6. \E d \in 0 .. 2 :
        /\ \A i \in 1 .. ram.count : IsAcked(q[i]) => i + d <= Len(b) /\ b[i + d] = q[i]
        /\ \A i \in 1 .. Len(b) : IsAcked(b[i]) =>
             i > d /\ i - d <= ram.count /\ q[i - d] = b[i]
        /\ Len(b) <= ram.count + d
  <2>1. CASE m = meta
    <3>1. PICK d \in 0 .. 2 : Lag(d)
      BY <1>1
    <3>2. /\ \A i \in 1 .. ram.count :
              (pc = "putMeta" => q[i] # next - 1) => i + d <= Len(b) /\ b[i + d] = q[i]
          /\ \A i \in 1 .. Len(b) :
              /\ b[i] # Unreadable /\ b[i] < next
              /\ pc = "putMeta" => b[i] # next - 1
              /\ \E j \in 1 .. ram.count : q[j] = b[i]
              => i > d /\ i - d <= ram.count /\ q[i - d] = b[i]
          /\ Len(b) <= ram.count + d
      BY <1>1, <1>2, <1>3, <2>1, <3>1, LagSurvives
    <3>3. QED BY <1>5, <3>2, Zenon
  <2>2. CASE m # meta
    <3>1. pc \in {"putMeta", "meta"} /\ m = ram /\ s = slots
      BY <1>1, <2>2 DEF MetaOutcomes, MetaWrites, SlotOutcomes, Torn
    <3>2. b = q
      BY <1>2, <1>3, <3>1
    <3>3. Len(q) = ram.count /\ ram.count \in Nat
      <4>1. /\ cap \in Caps /\ ram \in Rings /\ slots \in [Slots -> 0 .. MaxRec]
            /\ ram.valid /\ Fits(ram, cap)
        BY <1>1, SolidFacts
      <4>2. QED BY <1>2, <4>1, QueueValue, RingFields
    <3>4. \A i \in 1 .. ram.count : i + 0 = i /\ i - 0 = i /\ i > 0 /\ i <= ram.count
      BY <3>3
    <3>5. ram.count <= ram.count + 0 /\ 0 \in 0 .. 2
      BY <3>3
    <3>6. QED BY <3>2, <3>3, <3>4, <3>5
  <2>3. QED BY <2>1, <2>2
<1>7. QED BY <1>4, <1>6

\* The lag is nothing after a reset and after every write that succeeds.
LEMMA NoLag ==
  ASSUME NEW c \in Caps, NEW t \in Nat, t < c PROVE t = Place(c, t, 0 + 1)
<1>1. c \in Nat /\ 1 \in 1 .. c + 1 /\ 0 + 1 = 1 /\ t + 1 - 1 = t
  BY CapacityType
<1>2. QED BY <1>1, PlaceValue

\* Taking the oldest record adds one to it.
LEMMA DroppedLag ==
  ASSUME Solid, ~resized, pc = "idle", ready, ram.count # 0, NEW d \in 0 .. 2, Lag(d)
  PROVE  /\ d + 1 \in 0 .. 2 /\ Dropped.tail = Place(cap, meta.tail, (d + 1) + 1)
         /\ Dropped.count + (d + 1) = meta.count
         /\ Full => d = 0
<1>1. /\ cap \in Caps /\ ram \in Rings /\ meta \in Rings
      /\ meta.valid /\ Fits(meta, cap) /\ Fits(ram, cap)
  BY SolidFacts DEF Lag
<1>2. /\ ram.count \in Nat /\ meta.count \in Nat /\ cap \in Nat /\ meta.count <= cap
      /\ meta.tail \in Nat /\ meta.tail < cap
  BY <1>1, RingFields, CapacityType
<1>3. /\ d <= 1 /\ ram.count + d = meta.count /\ ram.tail = Place(cap, meta.tail, d + 1)
  BY DEF Lag
<1>4. Dropped.tail = Place(cap, ram.tail, 2) /\ Dropped.count = ram.count - 1
  BY DroppedQueue
<1>5. Place(cap, Place(cap, meta.tail, d + 1), 2) = Place(cap, meta.tail, d + 2)
  <2>1. d \in Nat /\ d < cap /\ d + 2 <= cap + 1
    BY <1>2, <1>3
  <2>2. QED BY <1>1, <1>2, <2>1, PlaceShift
<1>6. (d + 1) + 1 = d + 2
  OBVIOUS
<1>7. Dropped.tail = Place(cap, meta.tail, (d + 1) + 1)
  BY <1>3, <1>4, <1>5, <1>6, Zenon
<1>8. QED BY <1>2, <1>3, <1>4, <1>7 DEF Full

\* Every step keeps track of the lag, or of the metadata row being behind.
LEMMA StepFollowed ==
  ASSUME Solid, Followed, [Next]_vars, ~resized, ~resized', cap' = cap
  PROVE  Followed'
<1>1. /\ TypeOK /\ Ranges /\ Consistent /\ cap \in Caps /\ meta \in Rings /\ ram \in Rings
      /\ meta.valid => Fits(meta, cap)
  BY SolidFacts
<1>2. CASE \E c \in Caps, e \in BOOLEAN : PowerOn(c, e)
  <2>1. PICK c \in Caps, e \in BOOLEAN : PowerOn(c, e)
    BY <1>2
  <2>2. CASE meta.valid
    <3>1. /\ meta.head < cap /\ meta.tail < cap /\ meta.count <= cap
          /\ meta.head \in Nat /\ meta.tail \in Nat /\ meta.count \in Nat /\ cap \in Nat
      BY <1>1, <2>2, RingFields, CapacityType
    <3>2. c = cap /\ Clamped(meta, cap) = meta
      BY <1>1, <2>1, <2>2, <3>1 DEF PowerOn, Clamped, Ring, Rings
    <3>3. ram' = meta /\ pc' = "idle" /\ meta' = meta
      BY <2>1, <2>2, <3>2 DEF PowerOn
    <3>4. meta.tail = Place(cap, meta.tail, 0 + 1)
      BY <1>1, <3>1, NoLag
    <3>5. Lag(0)'
      BY <2>2, <3>1, <3>3, <3>4 DEF Lag
    <3>6. QED BY <3>3, <3>5 DEF Followed
  <2>3. CASE ~meta.valid
    BY <2>1, <2>3 DEF PowerOn, Followed
  <2>4. QED BY <2>2, <2>3
<1>3. CASE PowerLoss
  BY <1>3 DEF PowerLoss, Followed
<1>4. CASE MetaWritten
  <2>1. pc \in MetaWrites /\ pc # "off" /\ pc' = "idle" /\ meta' = ram /\ ram' = ram
    BY <1>4 DEF MetaWritten, MetaWrites
  <2>2. ram.valid /\ Fits(ram, cap)
    BY <2>1, MetaShape
  <2>3. ram.tail \in Nat /\ ram.tail < cap /\ ram.count \in Nat
    BY <1>1, <2>2, RingFields
  <2>4. ram.tail = Place(cap, ram.tail, 0 + 1)
    BY <1>1, <2>3, NoLag
  <2>5. Lag(0)'
    BY <2>1, <2>2, <2>3, <2>4 DEF Lag
  <2>6. QED BY <2>1, <2>5 DEF Followed
<1>5. CASE MetaFails
  BY <1>5 DEF MetaFails, Followed
<1>6. CASE PutRefused
  <2>1. UNCHANGED <<slots, meta, ram, ready, cap, pc, at, behind>> /\ pc = "idle"
    BY <1>6 DEF PutRefused, build
  <2>2. ASSUME NEW d \in 0 .. 2, Lag(d) PROVE Lag(d)'
    BY <2>1, <2>2 DEF Lag
  <2>3. QED BY <2>1, <2>2 DEF Followed
<1>7. CASE Put
  <2>1. /\ pc = "idle" /\ ready /\ pc' = "row" /\ ram' = IF Full THEN Dropped ELSE ram
        /\ UNCHANGED <<slots, meta, ready, behind>>
    BY <1>7 DEF Put
  <2>2. ASSUME NEW d \in 0 .. 2, Lag(d) PROVE \E e \in 0 .. 2 : Lag(e)'
    <3>1. CASE Full
      <4>1. ram.count # 0
        <5>1. Fits(ram, cap)
          BY <2>1, SolidFacts
        <5>2. ram.count \in Nat /\ cap \in Nat /\ cap > 0
          BY <1>1, <5>1, RingFields, CapacityType
        <5>3. QED BY <3>1, <5>2 DEF Full
      <4>2. /\ d + 1 \in 0 .. 2 /\ Dropped.tail = Place(cap, meta.tail, (d + 1) + 1)
            /\ Dropped.count + (d + 1) = meta.count /\ d = 0
        BY <2>1, <2>2, <3>1, <4>1, DroppedLag
      <4>3. Lag(d + 1)'
        BY <2>1, <2>2, <3>1, <4>2 DEF Lag
      <4>4. QED BY <4>2, <4>3
    <3>2. CASE ~Full
      <4>1. Lag(d)'
        BY <2>1, <2>2, <3>2 DEF Lag
      <4>2. QED BY <4>1
    <3>3. QED BY <3>1, <3>2
  <2>3. QED BY <2>1, <2>2 DEF Followed
<1>8. CASE PutWritten
  <2>1. pc = "row" /\ pc' = "putMeta" /\ meta' = meta /\ behind' = behind /\ ready' = ready
        /\ next' = next + 1
    BY <1>8 DEF PutWritten
  <2>2. /\ ram' \in Rings /\ ram'.valid /\ Fits(ram', cap)
        /\ QueueIn(cap, ram', slots') = Append(QueueIn(cap, ram, slots), next)
        /\ ram'.tail = ram.tail /\ ram'.count = ram.count + 1
        /\ slots' \in [Slots -> 0 .. MaxRec]
    BY <1>8, <2>1, AddedQueue
  <2>3. ram.valid /\ Fits(ram, cap) /\ slots \in [Slots -> 0 .. MaxRec] /\ next \in Nat
    BY <1>1, <2>1, SolidFacts, FlashAssumption DEF Consistent, TypeOK
  <2>4. ram.count \in Nat /\ ram.count + 1 \in 1 .. ram.count + 1
    BY <1>1, <2>3, RingFields
  <2>5. /\ QueueIn(cap, ram, slots) \in Seq(0 .. MaxRec)
        /\ Len(QueueIn(cap, ram, slots)) = ram.count
    BY <1>1, <2>3, QueueValue
  <2>6. QueueIn(cap, ram', slots')[ram'.count] = slots'[Place(cap, ram'.tail, ram'.count)]
    <3>1. \A i \in 1 .. ram'.count :
            QueueIn(cap, ram', slots')[i] = slots'[Place(cap, ram'.tail, i)]
      BY <1>1, <2>2, QueueValue
    <3>2. QED BY <2>2, <2>4, <3>1
  <2>7. slots'[Place(cap, ram'.tail, ram'.count)] = next
    <3>1. PICK q \in Seq(0 .. MaxRec) : q = QueueIn(cap, ram, slots)
      BY <2>5
    <3>2. Append(q, next)[ram.count + 1] = next
      BY <2>5, <3>1
    <3>3. QED BY <2>2, <2>6, <3>1, <3>2, Zenon
  <2>8. ASSUME NEW d \in 0 .. 2, Lag(d) PROVE Lag(d)'
    <3>1. /\ meta.valid /\ ram.tail = Place(cap, meta.tail, d + 1) /\ d <= 1
          /\ ram.count + d = meta.count
      BY <2>1, <2>8 DEF Lag
    <3>2. ram'.count + d = meta.count + 1 /\ ram'.count > 0 /\ next = next' - 1
      BY <2>1, <2>2, <2>3, <2>4, <3>1
    <3>3. QED BY <2>1, <2>2, <2>7, <3>1, <3>2 DEF Lag
  <2>9. QED BY <2>1, <2>8 DEF Followed
<1>9. CASE PutFails
  <2>1. UNCHANGED <<meta, ram, ready, behind>> /\ pc = "row" /\ pc' = "idle"
    BY <1>9 DEF PutFails
  <2>2. ASSUME NEW d \in 0 .. 2, Lag(d) PROVE Lag(d)'
    BY <2>1, <2>2 DEF Lag
  <2>3. QED BY <2>1, <2>2 DEF Followed
<1>10. CASE Consume \/ PeekDiscards
  <2>1. /\ pc = "idle" /\ ready /\ ram.count # 0 /\ pc' = "meta" /\ ram' = Dropped
        /\ UNCHANGED <<slots, meta, ready, behind>>
    BY <1>10 DEF Consume, PeekDiscards
  <2>2. ASSUME NEW d \in 0 .. 2, Lag(d) PROVE \E e \in 0 .. 2 : Lag(e)'
    <3>1. /\ d + 1 \in 0 .. 2 /\ Dropped.tail = Place(cap, meta.tail, (d + 1) + 1)
          /\ Dropped.count + (d + 1) = meta.count
      BY <2>1, <2>2, DroppedLag
    <3>2. Lag(d + 1)'
      BY <2>1, <2>2, <3>1 DEF Lag
    <3>3. QED BY <3>1, <3>2
  <2>3. QED BY <2>1, <2>2 DEF Followed
<1>11. CASE EraseAll \/ EraseRow \/ EraseFails
  <2>1. /\ behind' = TRUE \/ (pc' = "erase" /\ at' = 0)
        /\ pc' \in {"idle", "erase"}
    BY <1>11 DEF EraseAll, EraseRow, EraseFails
  <2>2. QED BY <2>1 DEF Followed
<1>12. CASE EraseDone
  <2>1. pc = "erase" /\ at > Rows /\ behind' = behind /\ pc' = "freshErased"
    BY <1>12 DEF EraseDone
  <2>2. at > 0
    BY <1>1, <2>1, FlashAssumption DEF TypeOK
  <2>3. QED BY <2>1, <2>2 DEF Followed
<1>13. CASE UNCHANGED vars
  <2>1. UNCHANGED <<slots, meta, ram, ready, pc, at, next, behind>>
    BY <1>13 DEF vars
  <2>2. ASSUME NEW d \in 0 .. 2, Lag(d) PROVE Lag(d)'
    BY <2>1, <2>2 DEF Lag
  <2>3. QED BY <2>1, <2>2 DEF Followed
<1>14. QED BY <1>2, <1>3, <1>4, <1>5, <1>6, <1>7, <1>8, <1>9, <1>10, <1>11, <1>12, <1>13
       DEF Next

\* The device starts off.
LEMMA InitLagging == Init => Lagging
BY InitSolid DEF Init, Lagging, Followed

\* Both together are inductive.
LEMMA StepLagging == Lagging /\ [Next]_vars => Lagging'
<1> SUFFICES ASSUME Lagging, [Next]_vars PROVE Lagging'
  OBVIOUS
<1>1. Solid /\ Solid'
  BY StepSolid DEF Lagging
<1>2. ~resized' => Followed'
  BY <1>1, StepConsistent, StepFollowed DEF Lagging
<1>3. QED BY <1>1, <1>2 DEF Lagging

\* Whatever resets and row writes do, and for every capacity and number of puts:
\* a reset brings back every acknowledged record that has not left the queue,
\* once and in its place, unless metadata could not be written or is torn.
THEOREM AckedSurvivesCorrect == Spec => []AckedSurvives
<1>1. Spec => []Lagging
  BY InitLagging, StepLagging, PTL DEF Spec
<1>2. QED BY <1>1, LaggingSurvives, PTL
=============================================================================
