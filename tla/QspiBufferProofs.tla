-------------------------- MODULE QspiBufferProofs --------------------------
(***************************************************************************)
(* Proofs about QspiBuffer, for every number and size of sectors, set of   *)
(* record sizes, length of the journal and number of puts and failures:    *)
(* its types, with the addresses inside the region, that the journal never *)
(* loses its newest entry, and that the log is a DurableFifo until one of  *)
(* the hazards of its layout strikes.                                      *)
(***************************************************************************)
EXTENDS QspiBuffer, SequenceTheorems, WellFoundedInduction, TLAPS

(***************************************************************************)
(* Sectors and cells.                                                      *)
(***************************************************************************)
LEMMA Geometry ==
  /\ Size \in Nat /\ Size >= 2 /\ Sectors \in Nat /\ Sectors >= 2
  /\ Region \in Nat /\ Region >= 4 /\ Entries \in Nat /\ Entries >= 1
  /\ MaxRec \in Nat /\ MaxFaults \in Nat
  /\ \A s \in Sizes : s \in Nat /\ s >= 2 /\ s <= Size
<1>1. /\ Sectors \in Nat /\ Sectors >= 2 /\ Size \in Nat /\ Header \in Nat /\ Header >= 1
      /\ Entries \in Nat /\ Entries >= 1 /\ MaxRec \in Nat /\ MaxFaults \in Nat
      /\ Sizes # {} /\ \A s \in Sizes : s \in Header + 1 .. Size
  BY QspiAssumption
<1>2. \A s \in Sizes : s \in Nat /\ s >= 2 /\ s <= Size
  BY <1>1
<1>3. Size >= 2
  BY <1>1, <1>2
<1>4. Region \in Nat /\ Region >= 4
  <2>1. Sectors * Size \in Nat
    BY <1>1
  <2>2. (Sectors - 2) * (Size - 2) >= 0 /\ (Sectors - 2) * (Size - 2) \in Int
    BY <1>1, <1>3
  <2>3. (Sectors - 2) * (Size - 2) = Sectors * Size - 2 * Sectors - 2 * Size + 4
    BY <1>1
  <2>4. Sectors * Size >= 4
    BY <1>1, <1>3, <2>1, <2>2, <2>3
  <2>5. QED BY <2>1, <2>4 DEF Region
<1>5. QED BY <1>1, <1>2, <1>3, <1>4

\* A cell lies in one sector, at one place in it.
LEMMA SectorParts ==
  ASSUME NEW a \in Nat
  PROVE  /\ SectorOf(a) \in Nat /\ a % Size \in 0 .. Size - 1
         /\ a = SectorOf(a) * Size + (a % Size)
<1> DEFINE q == a \div Size
           r == a % Size
<1>1. Size \in Nat /\ Size > 0
  BY Geometry
<1>2. r = a - Size * q
  BY <1>1, SMT
<1>3. q \in Int /\ r \in 0 .. Size - 1
  BY <1>1, SMT
<1>4. q \in Nat
  BY <1>1, SMT
<1>5. q = SectorOf(a) /\ r = a % Size
  BY DEF SectorOf
<1> HIDE DEF q, r
<1>6. Size * q = q * Size /\ Size * q \in Int
  BY <1>1, <1>4
<1>7. a = q * Size + r
  BY <1>2, <1>3, <1>6
<1>8. QED BY <1>3, <1>4, <1>5, <1>7

\* Sectors do not overlap.
LEMMA SectorUnique ==
  ASSUME NEW p \in Nat, NEW q \in Nat, NEW r \in 0 .. Size - 1, NEW s \in 0 .. Size - 1,
         p * Size + r = q * Size + s
  PROVE  p = q /\ r = s
<1>1. Size \in Nat /\ Size > 0
  BY Geometry
<1>2. (p - q) * Size = s - r /\ (q - p) * Size = r - s
  BY <1>1
<1>3. CASE p - q >= 1
  <2>1. (p - q - 1) * Size >= 0
    BY <1>1, <1>3
  <2>2. (p - q - 1) * Size = (p - q) * Size - Size
    BY <1>1
  <2>3. QED BY <1>1, <1>2, <2>1, <2>2
<1>4. CASE q - p >= 1
  <2>1. (q - p - 1) * Size >= 0
    BY <1>1, <1>4
  <2>2. (q - p - 1) * Size = (q - p) * Size - Size
    BY <1>1
  <2>3. QED BY <1>1, <1>2, <2>1, <2>2
<1>5. CASE p = q
  BY <1>1, <1>2, <1>5
<1>6. QED BY <1>3, <1>4, <1>5

\* The sector of an address, and the place in it.
LEMMA SectorValue ==
  ASSUME NEW q \in Nat, NEW r \in 0 .. Size - 1
  PROVE  SectorOf(q * Size + r) = q /\ (q * Size + r) % Size = r
<1>1. PICK a \in Nat : a = q * Size + r
  BY Geometry
<1>2. /\ SectorOf(a) \in Nat /\ a % Size \in 0 .. Size - 1
      /\ a = SectorOf(a) * Size + (a % Size)
  BY SectorParts
<1>3. PICK p \in Nat, s \in 0 .. Size - 1 : p = SectorOf(a) /\ s = a % Size
  BY <1>2
<1>4. p * Size + s = q * Size + r
  BY <1>1, <1>2, <1>3
<1>5. p = q /\ s = r
  BY <1>4, SectorUnique
<1>6. QED BY <1>1, <1>3, <1>5

\* The next sector starts at a boundary inside the region.
LEMMA NextSectorType ==
  ASSUME NEW a \in Nat
  PROVE  NextSector(a) \in 0 .. Region - 1 /\ NextSector(a) % Size = 0
<1>1. SectorOf(a) \in Nat /\ Size \in Nat /\ Size >= 2 /\ Region \in Nat /\ Region >= 4
  BY Geometry, SectorParts
<1>2. PICK n \in Nat : n = (SectorOf(a) + 1) * Size
  BY <1>1
<1>3. NextSector(a) = IF n >= Region THEN 0 ELSE n
  BY <1>2 DEF NextSector, Wrap
<1>4. n % Size = 0 /\ 0 % Size = 0
  <2>1. SectorOf(a) + 1 \in Nat /\ 0 \in 0 .. Size - 1 /\ 0 \in Nat
    BY <1>1
  <2>2. ((SectorOf(a) + 1) * Size + 0) % Size = 0 /\ (0 * Size + 0) % Size = 0
    BY <2>1, SectorValue
  <2>3. n = (SectorOf(a) + 1) * Size + 0 /\ 0 = 0 * Size + 0
    BY <1>1, <1>2
  <2>4. QED BY <2>2, <2>3
<1>5. QED BY <1>1, <1>2, <1>3, <1>4

\* A record that fits after its start is in one sector.
LEMMA OneSector ==
  ASSUME NEW a \in Nat, NEW n \in Nat, n > 0, (a % Size) + n <= Size
  PROVE  SectorOf(a + n - 1) = SectorOf(a)
<1>1. PICK q \in Nat, r \in 0 .. Size - 1 : q = SectorOf(a) /\ r = a % Size /\ a = q * Size + r
  BY SectorParts
<1>2. Size \in Nat /\ q * Size \in Nat
  BY Geometry
<1>3. r + (n - 1) \in 0 .. Size - 1
  BY <1>1, <1>2
<1>4. SectorOf(q * Size + (r + (n - 1))) = q
  BY <1>3, SectorValue
<1>5. a + n - 1 = q * Size + (r + (n - 1))
  BY <1>1, <1>2
<1>6. QED BY <1>1, <1>4, <1>5

\* Past the last cell follows the first.
LEMMA WrapType == ASSUME NEW a \in Nat PROVE Wrap(a) \in 0 .. Region - 1
BY Geometry DEF Wrap

(***************************************************************************)
(* The inductive invariant behind the types.                               *)
(***************************************************************************)
Cell == [r : 0 .. MaxRec, k : Nat, n : Nat]
States == {"ok", "blank", "junk"}
EntryBelow(n) ==
  [st : States, seq : Nat, head : 0 .. Region - 1, tail : 0 .. Region - 1, count : 0 .. n - 1]
Contents == [0 .. Region - 1 -> Cell]
SectorOfEntries(n) == [0 .. Entries - 1 -> EntryBelow(n)]
Journals(n) == [{0, 1} -> SectorOfEntries(n)]
Steps == {"off", "idle", "room", "erase", "program", "append", "rollErase", "roll", "reset"}
Appending == {"append", "rollErase", "roll"}
Purposes == {"none", "reset", "consume", "put", "drop"}

Data ==
  /\ cells \in Contents /\ journal \in Journals(next) /\ meta \in EntryBelow(next)
  /\ active \in {0, 1} /\ index \in 0 .. Entries /\ good \in Nat
  /\ faults \in 0 .. MaxFaults /\ pc \in Steps /\ op \in Purposes
  /\ req \in Sizes \union {0} /\ at \in 0 .. Region - 1 /\ next \in 1 .. MaxRec + 1

\* A put is under way, or the dropping of a record that makes room for one.
Putting ==
  pc \in {"room", "erase", "program"} \/ (op = "drop" /\ pc \in Appending)

Control ==
  /\ pc = "append" => index < Entries
  /\ pc = "reset" => op = "reset"
  /\ Putting => next <= MaxRec /\ req \in Sizes
  /\ pc \in {"erase", "program"} => (at % Size) + req <= Size

Flags == ready \in BOOLEAN /\ spoilt \in BOOLEAN
Sane == Data /\ Control

(***************************************************************************)
(* What the operators of the model return.                                 *)
(***************************************************************************)
\* An entry stays one when there are more records.
LEMMA EntryGrows ==
  ASSUME NEW n \in Nat
  PROVE  /\ EntryBelow(n) \subseteq EntryBelow(n + 1)
         /\ SectorOfEntries(n) \subseteq SectorOfEntries(n + 1)
         /\ Journals(n) \subseteq Journals(n + 1)
<1>1. EntryBelow(n) \subseteq EntryBelow(n + 1)
  <2>1. 0 .. n - 1 \subseteq 0 .. n + 1 - 1
    OBVIOUS
  <2>2. QED BY <2>1 DEF EntryBelow
<1>2. SectorOfEntries(n) \subseteq SectorOfEntries(n + 1)
  BY <1>1 DEF SectorOfEntries
<1>3. Journals(n) \subseteq Journals(n + 1)
  BY <1>2 DEF Journals
<1>4. QED BY <1>1, <1>2, <1>3

\* The entries the code writes besides the metadata.
LEMMA PlainEntries ==
  ASSUME NEW n \in Nat, n >= 1
  PROVE  /\ NoEntry \in EntryBelow(n) /\ BadEntry \in EntryBelow(n)
         /\ Entry(1, 0, 0, 0) \in EntryBelow(n)
<1>1. 0 \in 0 .. Region - 1 /\ 0 \in 0 .. n - 1
  BY Geometry
<1>2. QED BY <1>1 DEF NoEntry, BadEntry, Entry, EntryBelow, States

\* Cells that hold no record.
LEMMA PlainCells == Blank \in Cell /\ Junk \in Cell
BY Geometry DEF Blank, Junk, Cell

\* Erasing a sector, completely or not.
LEMMA ErasedType ==
  ASSUME cells \in Contents, NEW s \in Nat, NEW what \in Cell
  PROVE  Erased(s, what) \in Contents
BY DEF Erased, Contents

\* Programming a record that fits the bound of the model.
LEMMA ProgramType ==
  ASSUME Sane, pc = "program", NEW p \in 0 .. req
  PROVE  ProgramPrefix(p) \in Contents
<1>1. /\ cells \in Contents /\ next \in 0 .. MaxRec /\ req \in Nat /\ at \in Nat
  BY Geometry DEF Sane, Data, Control, Putting
<1>2. ASSUME NEW c \in 0 .. Region - 1
      PROVE  (IF c \notin at .. at + p - 1 THEN cells[c]
              ELSE IF cells[c] = Blank THEN PartOf(c - at) ELSE Junk) \in Cell
  <2>1. cells[c] \in Cell /\ Junk \in Cell
    BY <1>1, PlainCells DEF Contents
  <2>2. ASSUME c \in at .. at + p - 1 PROVE PartOf(c - at) \in Cell
    <3>1. c - at \in Nat
      BY <1>1, <2>2, Geometry
    <3>2. QED BY <1>1, <3>1 DEF PartOf, Cell
  <2>3. QED BY <2>1, <2>2
<1>3. DOMAIN cells = 0 .. Region - 1
  BY <1>1 DEF Contents
<1>4. QED BY <1>2, <1>3 DEF ProgramPrefix, Contents

\* What a flash operation may leave of the data region.
LEMMA CellOutcomesType ==
  ASSUME Sane PROVE CellOutcomes \subseteq Contents
<1>1. ASSUME NEW c \in CellOutcomes PROVE c \in Contents
  <2>1. CASE c = cells
    BY <2>1 DEF Sane, Data
  <2>2. CASE \E s \in ErasedSectors, w \in {Blank, Junk} : c = Erased(s, w)
    <3>1. PICK s \in ErasedSectors, w \in {Blank, Junk} : c = Erased(s, w)
      BY <2>2
    <3>2. at \in Nat /\ cells \in Contents
      BY Geometry DEF Sane, Data
    <3>3. SectorOf(at) \in Nat
      BY <3>2, SectorParts
    <3>4. s \in Nat
      BY <3>1, <3>3 DEF ErasedSectors
    <3>5. w \in Cell
      BY PlainCells
    <3>6. QED BY <3>1, <3>2, <3>4, <3>5, ErasedType
  <2>3. CASE pc = "program" /\ \E p \in 0 .. req : c = ProgramPrefix(p)
    BY <2>3, ProgramType
  <2>4. QED BY <1>1, <2>1, <2>2, <2>3 DEF CellOutcomes
<1>2. QED BY <1>1

\* The journal with one entry, or one sector, written.
LEMMA JournalWrites ==
  ASSUME NEW n \in Nat, journal \in Journals(n), active \in {0, 1}, NEW e \in EntryBelow(n)
  PROVE  /\ SlotWritten(e) \in Journals(n) /\ RollErased(e) \in Journals(n)
         /\ RollWritten(e) \in Journals(n)
         /\ \A b \in {0, 1} : JournalErased(b, e) \in Journals(n)
<1>1. \A b \in {0, 1} : journal[b] \in SectorOfEntries(n)
  BY DEF Journals
<1>2. RollTarget \in {0, 1}
  BY DEF RollTarget
<1>3. [i \in 0 .. Entries - 1 |-> e] \in SectorOfEntries(n)
  BY DEF SectorOfEntries
<1>4. \A b \in {0, 1} : JournalErased(b, e) \in Journals(n)
  BY <1>1, <1>3 DEF JournalErased, Journals
<1>5. RollErased(e) \in Journals(n)
  BY <1>2, <1>4 DEF RollErased
<1>6. \A b \in {0, 1} : \A i : [journal[b] EXCEPT ![i] = e] \in SectorOfEntries(n)
  BY <1>1 DEF SectorOfEntries
<1>7. SlotWritten(e) \in Journals(n)
  BY <1>6 DEF SlotWritten, Journals
<1>8. RollWritten(e) \in Journals(n)
  BY <1>2, <1>6 DEF RollWritten, Journals
<1>9. QED BY <1>4, <1>5, <1>7, <1>8

\* What it may leave of the journal.
LEMMA JournalOutcomesType ==
  ASSUME Sane PROVE JournalOutcomes \subseteq Journals(next)
<1>1. /\ next \in Nat /\ next >= 1 /\ journal \in Journals(next) /\ active \in {0, 1}
      /\ meta \in EntryBelow(next)
  BY Geometry DEF Sane, Data
<1>2. NoEntry \in EntryBelow(next) /\ BadEntry \in EntryBelow(next)
  BY <1>1, PlainEntries
<1>3. Programmed(journal[active][index]) \in EntryBelow(next)
  BY <1>1, <1>2 DEF Programmed
<1>4. \A e \in EntryBelow(next) :
        /\ SlotWritten(e) \in Journals(next) /\ RollErased(e) \in Journals(next)
        /\ RollWritten(e) \in Journals(next)
        /\ \A b \in {0, 1} : JournalErased(b, e) \in Journals(next)
  BY <1>1, JournalWrites
<1>5. ASSUME NEW j \in JournalOutcomes PROVE j \in Journals(next)
  <2>1. CASE pc = "append"
    <3>1. j \in {journal, SlotWritten(BadEntry),
                 SlotWritten(Programmed(journal[active][index]))}
      BY <1>5, <2>1 DEF JournalOutcomes
    <3>2. QED BY <1>1, <1>2, <1>3, <1>4, <3>1
  <2>2. CASE pc = "rollErase"
    <3>1. j \in {journal, RollErased(BadEntry), RollErased(NoEntry)}
      BY <1>5, <2>2 DEF JournalOutcomes
    <3>2. QED BY <1>1, <1>2, <1>4, <3>1
  <2>3. CASE pc = "roll"
    <3>1. j \in {journal, RollWritten(BadEntry), RollWritten(meta)}
      BY <1>5, <2>3 DEF JournalOutcomes
    <3>2. QED BY <1>1, <1>2, <1>4, <3>1
  <2>4. CASE pc = "reset"
    <3>1. j = journal \/ \E b \in {0, 1}, e \in {BadEntry, NoEntry} : j = JournalErased(b, e)
      BY <1>5, <2>4 DEF JournalOutcomes
    <3>2. QED BY <1>1, <1>2, <1>4, <3>1
  <2>5. CASE pc \notin {"append", "rollErase", "roll", "reset"}
    BY <1>1, <1>5, <2>5 DEF JournalOutcomes
  <2>6. QED BY <2>1, <2>2, <2>3, <2>4, <2>5
<1>6. QED BY <1>5

\* The place after a record is in the region.
LEMMA AfterType ==
  ASSUME NEW s \in Contents, NEW t \in 0 .. Region - 1
  PROVE  After(s, t) \in 0 .. Region - 1
<1>1. PICK a : a = Start(s, t)
  OBVIOUS
<1>2. t \in Nat
  BY Geometry
<1>3. a \in 0 .. Region - 1
  BY <1>1, <1>2, NextSectorType DEF Start
<1>4. a \in Nat /\ s[a].n \in Nat
  BY <1>3, Geometry DEF Contents, Cell
<1>5. NextSector(t) \in 0 .. Region - 1 /\ Wrap(a + s[a].n) \in 0 .. Region - 1
  BY <1>2, <1>4, NextSectorType, WrapType
<1>6. After(s, t) = (IF HeaderSound(s, a) THEN Wrap(a + s[a].n) ELSE NextSector(t))
  BY <1>1, Zenon DEF After
<1>7. After(s, t) = Wrap(a + s[a].n) \/ After(s, t) = NextSector(t)
  BY <1>6, Zenon
<1>8. QED BY <1>5, <1>7, Zenon

\* The metadata after a record is taken.
LEMMA ConsumedType ==
  ASSUME Sane, meta.count # 0 PROVE Consumed \in EntryBelow(next)
<1>1. meta \in EntryBelow(next) /\ cells \in Contents /\ next \in Nat
  BY DEF Sane, Data
<1>2. PICK t \in 0 .. Region - 1 : t = After(cells, meta.tail)
  BY <1>1, AfterType DEF EntryBelow
<1>3. Consumed = [meta EXCEPT !.tail = t, !.count = meta.count - 1, !.seq = meta.seq + 1]
  BY <1>2 DEF Consumed
<1>4. meta.count - 1 \in 0 .. next - 1 /\ meta.seq + 1 \in Nat
  BY <1>1 DEF EntryBelow
<1>5. QED BY <1>1, <1>2, <1>3, <1>4 DEF EntryBelow

(***************************************************************************)
(* The invariant, one lemma for each action.                               *)
(***************************************************************************)
LEMMA InitSane == ASSUME Init PROVE Sane
<1>1. cells \in Contents
  BY PlainCells DEF Init, Contents
<1>2. NoEntry \in EntryBelow(1)
  BY PlainEntries
<1>3. journal \in Journals(next) /\ meta \in EntryBelow(next)
  BY <1>2 DEF Init, Journals, SectorOfEntries
<1>4. Data
  BY <1>1, <1>3, Geometry DEF Init, Data, Steps, Purposes
<1>5. Control
  BY DEF Init, Control, Putting, Appending
<1>6. QED BY <1>4, <1>5 DEF Sane

\* The beginning of an append: the entry fits, the put goes on.
LEMMA StartSane ==
  ASSUME Sane, NEW m, NEW for \in Purposes, StartAppend(m, for), UNCHANGED index,
         m \in EntryBelow(next'), for = "drop" => next' <= MaxRec /\ req' \in Sizes
  PROVE  /\ meta' \in EntryBelow(next') /\ op' \in Purposes /\ pc' \in Steps
         /\ Control'
<1>1. meta' = m /\ op' = for /\ pc' = (IF index >= Entries THEN "rollErase" ELSE "append")
  BY DEF StartAppend
<1>2. index \in Nat /\ Entries \in Nat
  BY Geometry DEF Sane, Data
<1>3. pc' \in Steps /\ (pc' = "append" => index' < Entries)
      /\ pc' \notin {"room", "erase", "program", "reset"}
  BY <1>1, <1>2 DEF Steps
<1>4. Control'
  BY <1>1, <1>3 DEF Control, Putting
<1>5. QED BY <1>1, <1>3, <1>4

\* The end of an append.
LEMMA EndSane ==
  ASSUME Sane, pc \in Appending, NEW ok, EndAppend(ok)
  PROVE  /\ pc' \in {"idle", "room"} /\ Control'
         /\ cells' \in Contents /\ meta' \in EntryBelow(next') /\ op' \in Purposes
         /\ req' \in Sizes \union {0} /\ at' \in 0 .. Region - 1 /\ next' \in 1 .. MaxRec + 1
<1>1. /\ pc' = (IF op = "drop" THEN "room" ELSE "idle")
      /\ UNCHANGED <<cells, meta, op, req, at, next>>
  BY DEF EndAppend, putVars
<1>2. Control'
  BY <1>1 DEF Sane, Control, Putting, Appending
<1>3. QED BY <1>1, <1>2 DEF Sane, Data

\* metadata_append into the active sector.
LEMMA AppendSane == ASSUME Sane, AppendEntry PROVE Sane'
<1>1. /\ journal \in Journals(next) /\ active \in {0, 1} /\ meta \in EntryBelow(next)
      /\ next \in Nat /\ next >= 1 /\ index \in Nat /\ index < Entries
  BY DEF Sane, Data, Control, AppendEntry
<1>2. pc \in Appending /\ EndAppend(TRUE) /\ UNCHANGED <<active, faults>> /\ index' = index + 1
      /\ journal' = SlotWritten(Programmed(journal[active][index]))
      /\ good' = (IF journal[active][index].st = "blank" THEN meta.seq ELSE good)
      /\ UNCHANGED next
  BY DEF AppendEntry, EndAppend, putVars, Appending
<1>3. /\ pc' \in {"idle", "room"} /\ Control'
      /\ cells' \in Contents /\ meta' \in EntryBelow(next') /\ op' \in Purposes
      /\ req' \in Sizes \union {0} /\ at' \in 0 .. Region - 1 /\ next' \in 1 .. MaxRec + 1
  BY <1>2, EndSane
<1>4. Programmed(journal[active][index]) \in EntryBelow(next)
  BY <1>1, PlainEntries DEF Programmed
<1>5. journal' \in Journals(next')
  BY <1>1, <1>2, <1>4, JournalWrites
<1>6. good' \in Nat /\ index' \in 0 .. Entries
  BY <1>1, <1>2, Geometry DEF Sane, Data, EntryBelow
<1>7. Data'
  BY <1>2, <1>3, <1>5, <1>6 DEF Sane, Data, Steps
<1>8. QED BY <1>3, <1>7 DEF Sane

\* metadata_append into a full sector: the erase of the other one ...
LEMMA RollEraseSane == ASSUME Sane, RollErase PROVE Sane'
<1>1. /\ next \in Nat /\ next >= 1 /\ journal \in Journals(next) /\ active \in {0, 1}
  BY DEF Sane, Data
<1>2. journal' \in Journals(next) /\ UNCHANGED next
  BY <1>1, PlainEntries, JournalWrites DEF RollErase, putVars
<1>3. Data'
  BY <1>2 DEF Sane, Data, RollErase, putVars, Steps
<1>4. Control'
  BY DEF Sane, Control, RollErase, putVars, Putting, Appending
<1>5. QED BY <1>3, <1>4 DEF Sane

\* ... and the first entry there.
LEMMA RollSane == ASSUME Sane, Roll PROVE Sane'
<1>1. /\ journal \in Journals(next) /\ active \in {0, 1} /\ meta \in EntryBelow(next)
      /\ next \in Nat
  BY DEF Sane, Data
<1>2. /\ pc \in Appending /\ EndAppend(TRUE) /\ UNCHANGED <<faults, next>>
      /\ journal' = RollWritten(meta) /\ active' = RollTarget /\ index' = 1 /\ good' = meta.seq
  BY DEF Roll, EndAppend, putVars, Appending
<1>3. /\ pc' \in {"idle", "room"} /\ Control'
      /\ cells' \in Contents /\ meta' \in EntryBelow(next') /\ op' \in Purposes
      /\ req' \in Sizes \union {0} /\ at' \in 0 .. Region - 1 /\ next' \in 1 .. MaxRec + 1
  BY <1>2, EndSane
<1>4. journal' \in Journals(next')
  BY <1>1, <1>2, JournalWrites
<1>5. good' \in Nat /\ index' \in 0 .. Entries /\ active' \in {0, 1}
  BY <1>1, <1>2, Geometry DEF EntryBelow, RollTarget
<1>6. Data'
  BY <1>2, <1>3, <1>4, <1>5 DEF Sane, Data, Steps
<1>7. QED BY <1>3, <1>6 DEF Sane

\* The append that fails.
LEMMA AppendFailsSane == ASSUME Sane, AppendFails PROVE Sane'
<1>1. /\ pc \in Appending /\ EndAppend(FALSE) /\ UNCHANGED <<active, index, good, next>>
      /\ journal' \in JournalOutcomes /\ faults < MaxFaults /\ faults' = faults + 1
  BY DEF AppendFails, EndAppend, putVars, Appending
<1>2. /\ pc' \in {"idle", "room"} /\ Control'
      /\ cells' \in Contents /\ meta' \in EntryBelow(next') /\ op' \in Purposes
      /\ req' \in Sizes \union {0} /\ at' \in 0 .. Region - 1 /\ next' \in 1 .. MaxRec + 1
  BY <1>1, EndSane
<1>3. journal' \in Journals(next')
  BY <1>1, JournalOutcomesType
<1>4. faults' \in 0 .. MaxFaults
  BY <1>1, Geometry DEF Sane, Data
<1>5. Data'
  BY <1>1, <1>2, <1>3, <1>4 DEF Sane, Data, Steps
<1>6. QED BY <1>2, <1>5 DEF Sane

\* metadata_recover.
LEMMA PowerOnSane == ASSUME Sane, PowerOn PROVE Sane'
<1>1. pc = "off" /\ UNCHANGED <<cells, journal, req, next, faults>>
  BY DEF PowerOn
<1>2. CASE pc' = "reset" /\ op' = "reset" /\ at' = 0 /\ good' = 0
           /\ UNCHANGED <<meta, active, index, ready>>
  <2>1. Data'
    BY <1>1, <1>2, Geometry DEF Sane, Data, Steps, Purposes
  <2>2. Control'
    BY <1>1, <1>2 DEF Control, Putting, Appending
  <2>3. QED BY <2>1, <2>2 DEF Sane
<1>3. CASE \E p \in Candidates(journal) :
             /\ meta' = journal[p[1]][p[2]] /\ active' = p[1] /\ index' = p[2] + 1
             /\ pc' = "idle" /\ UNCHANGED <<op, at, good>>
  <2>1. PICK b \in {0, 1}, i \in 0 .. Entries - 1 :
          /\ meta' = journal[b][i] /\ active' = b /\ index' = i + 1
          /\ pc' = "idle" /\ UNCHANGED <<op, at, good>>
    BY <1>3 DEF Candidates, Scanned
  <2>2. meta' \in EntryBelow(next) /\ index' \in 0 .. Entries
    BY <2>1, Geometry DEF Sane, Data, Journals, SectorOfEntries
  <2>3. Data'
    BY <1>1, <2>1, <2>2 DEF Sane, Data, Steps
  <2>4. Control'
    BY <2>1 DEF Control, Putting, Appending
  <2>5. QED BY <2>3, <2>4 DEF Sane
<1>4. QED BY <1>2, <1>3 DEF PowerOn

\* metadata_reset: the erases ...
LEMMA ResetEraseSane == ASSUME Sane, ResetErase PROVE Sane'
<1>1. /\ next \in Nat /\ next >= 1 /\ journal \in Journals(next) /\ active \in {0, 1}
      /\ at \in Nat /\ at < 3 /\ cells \in Contents
  BY Geometry DEF Sane, Data, ResetErase
<1>2. journal' \in Journals(next) /\ UNCHANGED next
  <2>1. CASE at < 2
    <3>1. at \in {0, 1}
      BY <1>1, <2>1
    <3>2. QED BY <1>1, <2>1, <3>1, PlainEntries, JournalWrites DEF ResetErase
  <2>2. CASE ~(at < 2)
    BY <1>1, <2>2 DEF ResetErase
  <2>3. QED BY <2>1, <2>2
<1>3. cells' \in Contents
  BY <1>1, PlainCells, ErasedType DEF ResetErase
<1>4. at' \in 0 .. Region - 1
  BY <1>1, Geometry DEF ResetErase
<1>5. Data'
  BY <1>2, <1>3, <1>4 DEF Sane, Data, ResetErase
<1>6. Control'
  BY <1>1 DEF Sane, Control, ResetErase, Putting, Appending
<1>7. QED BY <1>5, <1>6 DEF Sane

\* ... and the first entry.
LEMMA ResetAppendSane == ASSUME Sane, ResetAppend PROVE Sane'
<1>1. /\ meta' = Entry(1, 0, 0, 0) /\ active' = 0 /\ index' = 0 /\ pc' = "append"
      /\ UNCHANGED <<cells, journal, op, req, at, next, good, faults>> /\ pc = "reset"
  BY DEF ResetAppend, putVars
<1>2. meta' \in EntryBelow(next')
  BY <1>1, PlainEntries DEF Sane, Data
<1>3. Data'
  BY <1>1, <1>2, Geometry DEF Sane, Data, Steps
<1>4. Control'
  <2>1. op = "reset"
    BY <1>1 DEF Sane, Control
  <2>2. QED BY <1>1, <2>1, Geometry DEF Control, Putting, Appending
<1>5. QED BY <1>3, <1>4 DEF Sane

\* qspi_buffer_consume.
LEMMA ConsumeSane == ASSUME Sane, Consume PROVE Sane'
<1>1. /\ StartAppend(Consumed, "consume") /\ meta.count # 0
      /\ UNCHANGED <<cells, journal, active, index, req, at, next, good, faults>>
  BY DEF Consume, putVars, jVars
<1>2. Consumed \in EntryBelow(next')
  BY <1>1, ConsumedType
<1>3. meta' \in EntryBelow(next') /\ op' \in Purposes /\ pc' \in Steps /\ Control'
  BY <1>1, <1>2, StartSane DEF Purposes
<1>4. QED BY <1>1, <1>3 DEF Sane, Data

\* qspi_buffer_put_record begins.
LEMMA PutSane == ASSUME Sane, NEW s \in Sizes, Put(s) PROVE Sane'
<1>1. /\ next <= MaxRec /\ req' = s /\ pc' = "room"
      /\ UNCHANGED <<cells, journal, active, index, meta, op, at, next, good, faults>>
  BY DEF Put, jVars
<1>2. Data'
  BY <1>1 DEF Sane, Data, Steps
<1>3. Control'
  BY <1>1 DEF Sane, Control, Putting
<1>4. QED BY <1>2, <1>3 DEF Sane

\* It drops records until there is room.
LEMMA DropSane == ASSUME Sane, Drop PROVE Sane'
<1>1. /\ StartAppend(Consumed, "drop") /\ meta.count # 0 /\ pc = "room"
      /\ UNCHANGED <<cells, journal, active, index, req, at, next, good, faults>>
  BY DEF Drop, Room, putVars, jVars
<1>2. Consumed \in EntryBelow(next')
  BY <1>1, ConsumedType
<1>3. next' <= MaxRec /\ req' \in Sizes
  BY <1>1 DEF Sane, Control, Putting
<1>4. meta' \in EntryBelow(next') /\ op' \in Purposes /\ pc' \in Steps /\ Control'
  BY <1>1, <1>2, <1>3, StartSane DEF Purposes
<1>5. QED BY <1>1, <1>4 DEF Sane, Data

\* The record goes where it fits into one sector.
LEMMA PlaceSane == ASSUME Sane, Place PROVE Sane'
<1>1. /\ pc = "room" /\ at' = Target /\ pc' = (IF Crosses THEN "erase" ELSE "program")
      /\ UNCHANGED <<cells, journal, active, index, meta, op, req, next, good, faults>>
  BY DEF Place, jVars
<1>2. next <= MaxRec /\ req \in Sizes /\ meta.head \in 0 .. Region - 1
  BY <1>1 DEF Sane, Data, Control, Putting, EntryBelow
<1>3. meta.head \in Nat /\ req \in Nat /\ req <= Size /\ Size \in Nat
  BY <1>2, Geometry
<1>4. Target \in 0 .. Region - 1 /\ (Target % Size) + req <= Size
  <2>1. CASE Crosses
    BY <1>3, <2>1, NextSectorType DEF Target
  <2>2. CASE ~Crosses
    <3>1. meta.head % Size \in 0 .. Size - 1
      BY <1>3, SectorParts
    <3>2. ~((meta.head % Size) + req > Size)
      BY <2>2 DEF Crosses
    <3>3. (meta.head % Size) + req <= Size
      BY <1>3, <3>1, <3>2
    <3>4. Target = meta.head
      BY <2>2 DEF Target
    <3>5. QED BY <1>2, <3>3, <3>4
  <2>3. QED BY <2>1, <2>2
<1>5. Data'
  BY <1>1, <1>4 DEF Sane, Data, Steps
<1>6. Control'
  BY <1>1, <1>2, <1>4 DEF Control, Putting
<1>7. QED BY <1>5, <1>6 DEF Sane

\* The sector it wraps into.
LEMMA EraseSectorSane == ASSUME Sane, EraseSector PROVE Sane'
<1>1. at \in Nat /\ cells \in Contents
  BY Geometry DEF Sane, Data
<1>2. cells' \in Contents
  BY <1>1, SectorParts, PlainCells, ErasedType DEF EraseSector
<1>3. Data'
  BY <1>2 DEF Sane, Data, EraseSector, jVars, putVars, Steps
<1>4. Control'
  BY DEF Sane, Control, EraseSector, putVars, Putting
<1>5. QED BY <1>3, <1>4 DEF Sane

\* The record, and its metadata.
LEMMA ProgramSane == ASSUME Sane, Program PROVE Sane'
<1> DEFINE m == [meta EXCEPT !.head = HeadAfter, !.count = @ + 1, !.seq = @ + 1]
<1>1. /\ pc = "program" /\ StartAppend(m, "put") /\ next' = next + 1 /\ cells' = ProgramPrefix(req)
      /\ UNCHANGED <<journal, active, index, req, at, good, faults>>
  BY DEF Program, jVars
<1>2. /\ next \in 1 .. MaxRec /\ req \in Nat /\ at \in Nat /\ meta \in EntryBelow(next)
  BY <1>1, Geometry DEF Sane, Data, Control, Putting
<1>3. PICK h \in 0 .. Region - 1 : h = HeadAfter
  BY <1>2, WrapType DEF HeadAfter
<1>4. meta.count + 1 \in 0 .. next' - 1 /\ meta.seq + 1 \in Nat
  BY <1>1, <1>2 DEF EntryBelow
<1>5. m \in EntryBelow(next')
  <2>1. m = [meta EXCEPT !.head = h, !.count = meta.count + 1, !.seq = meta.seq + 1]
    BY <1>3
  <2>2. 0 .. next - 1 \subseteq 0 .. next' - 1
    BY <1>1, <1>2
  <2>3. QED BY <1>2, <1>4, <2>1, <2>2 DEF EntryBelow
<1>6. journal' \in Journals(next')
  <2>1. journal \in Journals(next) /\ next \in Nat
    BY <1>2 DEF Sane, Data
  <2>2. QED BY <1>1, <2>1, EntryGrows
<1>7. cells' \in Contents
  BY <1>1, <1>2, ProgramType
<1> HIDE DEF m
<1>8. meta' \in EntryBelow(next') /\ op' \in Purposes /\ pc' \in Steps /\ Control'
  BY <1>1, <1>5, StartSane DEF Purposes
<1>9. Data'
  BY <1>1, <1>2, <1>6, <1>7, <1>8, Geometry DEF Sane, Data
<1>10. QED BY <1>8, <1>9 DEF Sane

\* What a failure or a reset leaves.
LEMMA FailureSane ==
  ASSUME Sane, faults < MaxFaults, faults' = faults + 1, pc' \in {"idle", "off"},
         cells' \in CellOutcomes, journal' \in JournalOutcomes,
         next' = (IF pc = "program" THEN next + 1 ELSE next),
         UNCHANGED <<meta, active, index, op, req, at, good>>
  PROVE  Sane'
<1>1. next \in Nat /\ next' \in 1 .. MaxRec + 1
  BY Geometry DEF Sane, Data, Control, Putting
<1>2. cells' \in Contents /\ journal' \in Journals(next)
  BY CellOutcomesType, JournalOutcomesType
<1>3. journal' \in Journals(next') /\ meta' \in EntryBelow(next')
  BY <1>1, <1>2, EntryGrows DEF Sane, Data
<1>4. faults' \in 0 .. MaxFaults
  BY Geometry DEF Sane, Data
<1>5. Data'
  BY <1>1, <1>2, <1>3, <1>4 DEF Sane, Data, Steps
<1>6. Control'
  BY DEF Control, Putting, Appending
<1>7. QED BY <1>5, <1>6 DEF Sane

\* An erase or a program that fails.
LEMMA DataFailsSane == ASSUME Sane, DataFails PROVE Sane'
BY FailureSane DEF DataFails

\* A reset.
LEMMA PowerLossSane == ASSUME Sane, PowerLoss PROVE Sane'
BY FailureSane DEF PowerLoss

\* Every step.
LEMMA StepSane == ASSUME Sane, [Next]_vars PROVE Sane'
<1>1. CASE UNCHANGED vars
  BY <1>1 DEF vars, Sane, Data, Control, Putting
<1>2. CASE PowerOn \/ ResetErase \/ ResetAppend \/ PowerLoss \/ DataFails
  BY <1>2, PowerOnSane, ResetEraseSane, ResetAppendSane, PowerLossSane, DataFailsSane
<1>3. CASE AppendEntry \/ RollErase \/ Roll \/ AppendFails \/ Consume
  BY <1>3, AppendSane, RollEraseSane, RollSane, AppendFailsSane, ConsumeSane
<1>4. CASE (\E s \in Sizes : Put(s)) \/ Drop \/ Place \/ EraseSector \/ Program
  BY <1>4, PutSane, DropSane, PlaceSane, EraseSectorSane, ProgramSane
<1>5. QED BY <1>1, <1>2, <1>3, <1>4 DEF Next

\* The invariant.
LEMMA SaneHolds == Spec => []Sane
<1>1. Init => Sane
  BY InitSane
<1>2. Sane /\ [Next]_vars => Sane'
  BY StepSane
<1>3. QED BY <1>1, <1>2, PTL DEF Spec

(***************************************************************************)
(* The flags.                                                              *)
(***************************************************************************)
LEMMA InitFlags == ASSUME Init PROVE Flags
BY Zenon DEF Init, Flags

\* ... and stay so.
LEMMA StepFlags == ASSUME Flags, [Next]_vars PROVE Flags'
<1>1. CASE UNCHANGED vars
  BY <1>1, Zenon DEF vars, Flags
<1>2. CASE PowerOn \/ ResetErase \/ ResetAppend
  BY <1>2, Zenon DEF Flags, PowerOn, ResetErase, ResetAppend
<1>3. CASE PowerLoss \/ DataFails
  BY <1>3, Zenon DEF Flags, PowerLoss, DataFails
<1>4. CASE AppendEntry \/ Roll \/ AppendFails
  BY <1>4, Zenon DEF Flags, AppendEntry, Roll, AppendFails, EndAppend
<1>5. CASE RollErase \/ Consume \/ \E s \in Sizes : Put(s)
  BY <1>5, Zenon DEF Flags, RollErase, Consume, Put
<1>6. CASE Drop \/ Place \/ EraseSector \/ Program
  BY <1>6, Zenon DEF Flags, Drop, Place, EraseSector, Program
<1>7. QED BY <1>1, <1>2, <1>3, <1>4, <1>5, <1>6 DEF Next

\* The flags of all behaviours.
LEMMA FlagsHold == Spec => []Flags
<1>1. Init => Flags
  BY InitFlags
<1>2. Flags /\ [Next]_vars => Flags'
  BY StepFlags
<1>3. QED BY <1>1, <1>2, PTL DEF Spec

\* The invariant has the types.
LEMMA SaneTypes == ASSUME Sane, Flags PROVE TypeOK
<1>1. \A n \in Nat : \A e \in EntryBelow(n) :
        /\ e.st \in {"ok", "blank", "junk"} /\ e.seq \in Nat
        /\ e.head \in 0 .. Region - 1 /\ e.tail \in 0 .. Region - 1
        /\ e.count \in Nat /\ e.count < n
  BY DEF EntryBelow, States
<1>2. next \in Nat
  BY DEF Sane, Data
<1>3. \A e \in EntryBelow(next) : IsEntry(e)
  BY <1>1, <1>2 DEF IsEntry
<1>4. \A b \in {0, 1}, i \in 0 .. Entries - 1 : IsEntry(journal[b][i])
  BY <1>3 DEF Sane, Data, Journals, SectorOfEntries
<1>5. \A c \in 0 .. Region - 1 : cells[c].r \in 0 .. MaxRec
  BY DEF Sane, Data, Contents, Cell
<1>6. ASSUME pc = "program" PROVE SectorOf(at) = SectorOf(at + req - 1)
  <2>1. at \in Nat /\ req \in Nat /\ req > 0 /\ (at % Size) + req <= Size
    BY <1>6, Geometry DEF Sane, Data, Control, Putting
  <2>2. QED BY <2>1, OneSector
<1>7. IsEntry(meta)
  BY <1>3 DEF Sane, Data
<1>8. ready \in BOOLEAN /\ spoilt \in BOOLEAN
  BY DEF Flags
<1>9. /\ active \in {0, 1} /\ index \in 0 .. Entries /\ good \in Nat /\ faults \in 0 .. MaxFaults
      /\ pc \in {"off", "idle", "room", "erase", "program", "append", "rollErase",
                 "roll", "reset"}
      /\ op \in {"none", "reset", "consume", "put", "drop"}
      /\ req \in Sizes \union {0} /\ at \in 0 .. Region - 1 /\ next \in 1 .. MaxRec + 1
  BY DEF Sane, Data, Steps, Purposes
<1>10. QED BY <1>4, <1>5, <1>6, <1>7, <1>8, <1>9, Zenon DEF TypeOK

\* For every geometry: head and tail stay inside the data region whatever fails,
\* no metadata counts more records than were put, and the record being put fits
\* the sector it goes to.
THEOREM TypeCorrect == Spec => []TypeOK
<1>1. Sane /\ Flags => TypeOK
  BY SaneTypes
<1>2. QED BY <1>1, SaneHolds, FlagsHold, PTL

(***************************************************************************)
(* The newest entry of a journal.                                          *)
(***************************************************************************)
\* A set of naturals has a least member.
LEMMA Least ==
  ASSUME NEW T \in SUBSET Nat, T # {}
  PROVE  \E x \in T : \A y \in T : x <= y
<1> DEFINE R == {p \in Nat \X Nat : p[1] < p[2]}
<1>1. IsWellFoundedOn(R, Nat)
  <2>1. OpToRel(<, Nat) = R
    BY Zenon DEF OpToRel
  <2>2. QED BY <2>1, NatLessThanWellFounded, Zenon
<1>2. \A x, y \in Nat : y < x => <<y, x>> \in R
  OBVIOUS
<1> HIDE DEF R
<1>3. PICK x \in T : \A y \in T : ~(<<y, x>> \in R)
  BY <1>1, WFMin
<1>4. ASSUME NEW y \in T PROVE x <= y
  <2>1. x \in Nat /\ y \in Nat /\ ~(y < x)
    BY <1>2, <1>3, Zenon
  <2>2. QED BY <2>1
<1>5. QED BY <1>4

\* No entry of journal j has a sequence number above bound.
UpTo(j, bound) == \A b \in {0, 1}, i \in 0 .. Entries - 1 : j[b][i].seq <= bound

\* With candidates there is a best one, as good as any of them.
LEMMA BestExists ==
  ASSUME NEW n \in Nat, NEW j \in Journals(n), NEW bound \in Nat, UpTo(j, bound),
         NEW p \in Candidates(j)
  PROVE  Best(j).seq >= j[p[1]][p[2]].seq /\ Best(j).seq \in Nat
<1>1. \A q \in Candidates(j) :
        /\ q[1] \in {0, 1} /\ q[2] \in 0 .. Entries - 1
        /\ j[q[1]][q[2]].seq \in Nat /\ j[q[1]][q[2]].seq <= bound
  <2>1. ASSUME NEW q \in Candidates(j)
        PROVE  q[1] \in {0, 1} /\ q[2] \in 0 .. Entries - 1
    BY DEF Candidates, Scanned
  <2>2. ASSUME NEW b \in {0, 1}, NEW i \in 0 .. Entries - 1
        PROVE  j[b][i].seq \in Nat /\ j[b][i].seq <= bound
    BY DEF Journals, SectorOfEntries, EntryBelow, UpTo
  <2>3. QED BY <2>1, <2>2
<1> DEFINE T == {bound - j[q[1]][q[2]].seq : q \in Candidates(j)}
<1>2. T \in SUBSET Nat /\ T # {}
  BY <1>1
<1>3. PICK x \in T : \A y \in T : x <= y
  BY <1>2, Least
<1>4. PICK q \in Candidates(j) : x = bound - j[q[1]][q[2]].seq
  BY <1>3
<1>5. \A r \in Candidates(j) : j[r[1]][r[2]].seq <= j[q[1]][q[2]].seq
  <2>1. ASSUME NEW r \in Candidates(j) PROVE j[r[1]][r[2]].seq <= j[q[1]][q[2]].seq
    <3>1. bound - j[r[1]][r[2]].seq \in T
      OBVIOUS
    <3>2. x <= bound - j[r[1]][r[2]].seq
      BY <1>3, <3>1, Zenon
    <3>3. PICK u, v \in Nat : u = j[r[1]][r[2]].seq /\ v = j[q[1]][q[2]].seq
      BY <1>1, <2>1
    <3>4. bound - v <= bound - u
      BY <1>4, <3>2, <3>3
    <3>5. QED BY <3>3, <3>4
  <2>2. QED BY <2>1
<1>6. IsBest(j, q)
  BY <1>4, <1>5 DEF IsBest
<1>7. PICK c : c = CHOOSE r \in Candidates(j) : IsBest(j, r)
  OBVIOUS
<1>8. c \in Candidates(j) /\ IsBest(j, c)
  BY <1>6, <1>7, Zenon DEF IsBest
<1>9. Best(j) = j[c[1]][c[2]]
  BY <1>7, Zenon DEF Best
<1>10. j[p[1]][p[2]].seq <= j[c[1]][c[2]].seq
  BY <1>8, Zenon DEF IsBest
<1>11. j[p[1]][p[2]].seq \in Nat /\ j[c[1]][c[2]].seq \in Nat
  BY <1>1, <1>8, Zenon
<1>12. QED BY <1>9, <1>10, <1>11

\* ... and without there is none.
LEMMA BestType ==
  ASSUME NEW n \in Nat, NEW j \in Journals(n), NEW bound \in Nat, UpTo(j, bound)
  PROVE  Best(j).seq \in Nat
<1>1. CASE Candidates(j) = {}
  BY <1>1 DEF Best, NoEntry
<1>2. CASE Candidates(j) # {}
  BY <1>2, BestExists
<1>3. QED BY <1>1, <1>2

(***************************************************************************)
(* Sequence numbers are bounded.                                           *)
(***************************************************************************)
Below(bound) == meta.seq <= bound /\ UpTo(journal, bound)
Bounded == \E bound \in Nat : Below(bound)

\* Writing an entry within the bound.
LEMMA WritesUpTo ==
  ASSUME Sane, NEW bound \in Nat, UpTo(journal, bound), NEW e, e.seq <= bound
  PROVE  /\ UpTo(SlotWritten(e), bound) /\ UpTo(RollErased(e), bound)
         /\ UpTo(RollWritten(e), bound)
         /\ \A b \in {0, 1} : UpTo(JournalErased(b, e), bound)
<1>1. /\ active \in {0, 1} /\ RollTarget \in {0, 1}
      /\ journal \in [{0, 1} -> [0 .. Entries - 1 -> EntryBelow(next)]]
  BY DEF Sane, Data, RollTarget, Journals, SectorOfEntries
<1>2. UpTo(SlotWritten(e), bound)
  BY <1>1 DEF SlotWritten, UpTo
<1>3. UpTo(RollWritten(e), bound)
  BY <1>1 DEF RollWritten, UpTo
<1>4. \A b \in {0, 1} : UpTo(JournalErased(b, e), bound)
  BY <1>1 DEF JournalErased, UpTo
<1>5. QED BY <1>1, <1>2, <1>3, <1>4 DEF RollErased

\* Entries that say nothing.
LEMMA PlainUpTo ==
  ASSUME NEW bound \in Nat PROVE NoEntry.seq <= bound /\ BadEntry.seq <= bound
BY DEF NoEntry, BadEntry

\* What a flash operation may leave of the journal.
LEMMA OutcomesUpTo ==
  ASSUME Sane, NEW bound \in Nat, Below(bound), NEW j \in JournalOutcomes
  PROVE  UpTo(j, bound)
<1>1. /\ UpTo(journal, bound) /\ meta.seq <= bound
      /\ NoEntry.seq <= bound /\ BadEntry.seq <= bound
  BY PlainUpTo DEF Below
<1>2. PICK e : e = Programmed(journal[active][index])
  OBVIOUS
<1>3. e.seq <= bound
  BY <1>1, <1>2 DEF Programmed
<1>4. CASE pc = "append"
  <2>1. j \in {journal, SlotWritten(BadEntry), SlotWritten(e)}
    BY <1>2, <1>4 DEF JournalOutcomes
  <2>2. QED BY <1>1, <1>3, <2>1, WritesUpTo
<1>5. CASE pc = "rollErase"
  <2>1. j \in {journal, RollErased(BadEntry), RollErased(NoEntry)}
    BY <1>5 DEF JournalOutcomes
  <2>2. QED BY <1>1, <2>1, WritesUpTo
<1>6. CASE pc = "roll"
  <2>1. j \in {journal, RollWritten(BadEntry), RollWritten(meta)}
    BY <1>6 DEF JournalOutcomes
  <2>2. QED BY <1>1, <2>1, WritesUpTo
<1>7. CASE pc = "reset"
  <2>1. j = journal \/ \E b \in {0, 1}, f \in {BadEntry, NoEntry} : j = JournalErased(b, f)
    BY <1>7 DEF JournalOutcomes
  <2>2. QED BY <1>1, <2>1, WritesUpTo
<1>8. CASE pc \notin {"append", "rollErase", "roll", "reset"}
  <2>1. j = journal
    BY <1>8 DEF JournalOutcomes
  <2>2. QED BY <1>1, <2>1
<1>9. QED BY <1>4, <1>5, <1>6, <1>7, <1>8

\* An operation that leaves journal and metadata, or increments its number.
LEMMA StepBounded == ASSUME Sane, Bounded, [Next]_vars PROVE Bounded'
<1>1. PICK bound \in Nat : Below(bound)
  BY DEF Bounded
<1>2. /\ UpTo(journal, bound) /\ meta.seq <= bound /\ meta.seq \in Nat
      /\ NoEntry.seq <= bound /\ BadEntry.seq <= bound
  BY <1>1, PlainUpTo DEF Below, Sane, Data, EntryBelow
<1>3. UpTo(journal, bound + 1)
  <2>1. \A b \in {0, 1}, i \in 0 .. Entries - 1 : journal[b][i].seq \in Nat
    BY DEF Sane, Data, Journals, SectorOfEntries, EntryBelow
  <2>2. QED BY <1>2, <2>1 DEF UpTo
<1>4. CASE journal' \in JournalOutcomes /\ UNCHANGED meta
  BY <1>1, <1>4, OutcomesUpTo DEF Below, Bounded
<1>5. CASE UNCHANGED <<journal, meta>>
  BY <1>1, <1>5 DEF Below, Bounded
<1>6. CASE UNCHANGED journal /\ meta'.seq \in {1, meta.seq + 1}
  <2>1. meta'.seq <= bound + 1 /\ bound + 1 \in Nat
    BY <1>2, <1>6
  <2>2. QED BY <1>3, <1>6, <2>1 DEF Below, Bounded
<1>7. CASE AppendEntry \/ RollErase \/ Roll
  <2>1. UNCHANGED meta
    BY <1>7 DEF AppendEntry, RollErase, Roll, EndAppend
  <2>2. \/ journal' = SlotWritten(Programmed(journal[active][index]))
        \/ journal' = RollErased(NoEntry) \/ journal' = RollWritten(meta)
    BY <1>7 DEF AppendEntry, RollErase, Roll
  <2>3. PICK e : e = Programmed(journal[active][index])
    OBVIOUS
  <2>4. e.seq <= bound
    BY <1>2, <2>3 DEF Programmed
  <2>5. UpTo(journal', bound)
    BY <1>2, <2>2, <2>3, <2>4, WritesUpTo
  <2>6. QED BY <1>2, <2>1, <2>5 DEF Below, Bounded
<1>8. CASE AppendFails \/ DataFails \/ PowerLoss
  BY <1>4, <1>8 DEF AppendFails, EndAppend, DataFails, PowerLoss
<1>9. CASE ResetErase
  <2>1. UNCHANGED meta
    BY <1>9 DEF ResetErase
  <2>2. CASE at < 2
    <3>1. at \in {0, 1} /\ journal' = JournalErased(at, NoEntry)
      BY <1>9, <2>2, Geometry DEF ResetErase, Sane, Data
    <3>2. UpTo(journal', bound)
      BY <1>2, <3>1, WritesUpTo
    <3>3. QED BY <1>2, <2>1, <3>2 DEF Below, Bounded
  <2>3. CASE ~(at < 2)
    BY <1>5, <1>9, <2>3 DEF ResetErase
  <2>4. QED BY <2>2, <2>3
<1>10. CASE PowerOn
  <2>1. CASE UNCHANGED <<journal, meta>>
    BY <1>5, <2>1
  <2>2. CASE UNCHANGED journal /\ \E p \in Candidates(journal) : meta' = journal[p[1]][p[2]]
    <3>1. PICK b \in {0, 1}, i \in 0 .. Entries - 1 : meta' = journal[b][i]
      BY <2>2 DEF Candidates, Scanned
    <3>2. meta'.seq <= bound
      BY <1>2, <3>1 DEF UpTo
    <3>3. QED BY <1>2, <2>2, <3>2 DEF Below, Bounded
  <2>3. QED BY <1>10, <2>1, <2>2 DEF PowerOn
<1>11. CASE ResetAppend
  BY <1>6, <1>11 DEF ResetAppend, Entry
<1>12. CASE Consume \/ Drop
  <2>1. meta' = Consumed /\ UNCHANGED journal
    BY <1>12 DEF Consume, Drop, StartAppend, jVars
  <2>2. meta'.seq = meta.seq + 1
    BY <2>1 DEF Consumed, Sane, Data, EntryBelow
  <2>3. QED BY <1>6, <2>1, <2>2
<1>13. CASE Program
  <2>1. UNCHANGED journal /\ meta'.seq = meta.seq + 1
    BY <1>13 DEF Program, StartAppend, jVars, Sane, Data, EntryBelow
  <2>2. QED BY <1>6, <2>1
<1>14. CASE (\E s \in Sizes : Put(s)) \/ Place \/ EraseSector \/ UNCHANGED vars
  BY <1>5, <1>14 DEF Put, Place, EraseSector, jVars, vars
<1>15. QED BY <1>7, <1>8, <1>9, <1>10, <1>11, <1>12, <1>13, <1>14 DEF Next

\* A blank journal.
LEMMA InitBounded == ASSUME Init PROVE Bounded
<1>1. Below(0)
  BY DEF Init, Below, UpTo, NoEntry
<1>2. QED BY <1>1 DEF Bounded

\* In every state there is a bound.
LEMMA BoundedHolds == Spec => []Bounded
<1>1. Init => Bounded
  BY InitBounded
<1>2. Sane /\ Bounded /\ [Next]_vars => Bounded'
  BY StepBounded
<1>3. QED BY <1>1, <1>2, SaneHolds, PTL DEF Spec

(***************************************************************************)
(* The newest entry survives.                                              *)
(***************************************************************************)
\* Of journal j: the active sector is written without a gap up to index, and has
\* an entry that is new enough; or that a scan of both sectors finds one.
Filled(j) == \A k \in 0 .. index - 1 : j[active][k].st # "blank"
Known(j) ==
  good = 0 \/ \E i \in 0 .. index - 1 : j[active][i].st = "ok" /\ j[active][i].seq >= good
Kept(j) == good = 0 \/ \E p \in Candidates(j) : j[p[1]][p[2]].seq >= good

\* The code works with the metadata.
Running ==
  pc \in {"room", "erase", "program"} \/ pc \in Appending \/ (pc = "idle" /\ ready)

Authority ==
  /\ pc \in {"room", "erase", "program"} => ready
  /\ pc \in Appending /\ op = "reset" => good = 0
  /\ pc \in Appending /\ op # "reset" => ready
  /\ pc = "reset" => good = 0
  /\ pc \in {"off", "reset"} => ~ready
  /\ pc = "idle" => ready \/ good = 0
JournalInOrder ==
  /\ Running => meta.st = "ok" /\ Filled(journal) /\ Known(journal)
  /\ pc = "off" => Kept(journal)

\* An entry of the active sector is found by the scan.
LEMMA KnownKept ==
  ASSUME Sane, NEW j, Filled(j), Known(j) PROVE Kept(j)
<1>1. CASE good = 0
  BY <1>1 DEF Kept
<1>2. CASE good # 0
  <2>1. PICK i \in 0 .. index - 1 : j[active][i].st = "ok" /\ j[active][i].seq >= good
    BY <1>2 DEF Known
  <2>2. active \in {0, 1} /\ index \in 0 .. Entries /\ Entries \in Nat
    BY Geometry DEF Sane, Data
  <2>3. i \in Scanned(j, active)
    BY <2>1, <2>2 DEF Scanned, Filled
  <2>4. <<active, i>> \in Candidates(j)
    BY <2>2, <2>3 DEF Candidates
  <2>5. j[<<active, i>>[1]][<<active, i>>[2]].seq >= good
    BY <2>1
  <2>6. QED BY <2>4, <2>5, Zenon DEF Kept
<1>3. QED BY <1>1, <1>2

\* An append, whatever becomes of it, does not touch what it has written before.
LEMMA Untouched ==
  ASSUME Sane, pc # "reset", NEW j \in JournalOutcomes, NEW k \in 0 .. index - 1
  PROVE  j[active][k] = journal[active][k]
<1>1. /\ active \in {0, 1} /\ index \in 0 .. Entries /\ Entries \in Nat
      /\ journal \in [{0, 1} -> [0 .. Entries - 1 -> EntryBelow(next)]]
  BY Geometry DEF Sane, Data, Journals, SectorOfEntries
<1>2. k # index /\ RollTarget # active
  BY <1>1 DEF RollTarget
<1>3. \A e : SlotWritten(e)[active][k] = journal[active][k]
  BY <1>1, <1>2 DEF SlotWritten
<1>4. \A e : RollErased(e)[active][k] = journal[active][k]
  BY <1>1, <1>2 DEF RollErased, JournalErased
<1>5. \A e : RollWritten(e)[active][k] = journal[active][k]
  BY <1>1, <1>2 DEF RollWritten
<1>6. CASE pc = "append"
  <2>1. j = journal \/ \E e : j = SlotWritten(e)
    BY <1>6 DEF JournalOutcomes
  <2>2. QED BY <1>3, <2>1
<1>7. CASE pc = "rollErase"
  <2>1. j = journal \/ \E e : j = RollErased(e)
    BY <1>7 DEF JournalOutcomes
  <2>2. QED BY <1>4, <2>1
<1>8. CASE pc = "roll"
  <2>1. j = journal \/ \E e : j = RollWritten(e)
    BY <1>8 DEF JournalOutcomes
  <2>2. QED BY <1>5, <2>1
<1>9. CASE pc \notin {"append", "rollErase", "roll", "reset"}
  BY <1>9 DEF JournalOutcomes
<1>10. QED BY <1>6, <1>7, <1>8, <1>9

\* The entry that counts is still there ...
LEMMA OutcomeKnown ==
  ASSUME Sane, Running, JournalInOrder, NEW j \in JournalOutcomes
  PROVE  Filled(j) /\ Known(j)
<1>1. pc # "reset"
  BY DEF Running, Appending
<1>2. \A k \in 0 .. index - 1 : j[active][k] = journal[active][k]
  BY <1>1, Untouched
<1>3. Filled(journal) /\ Known(journal)
  BY Zenon DEF JournalInOrder
<1>4. QED BY <1>2, <1>3, Zenon DEF Filled, Known

\* ... so a reset, at any moment, finds it.
LEMMA OutcomeKept ==
  ASSUME Sane, Authority, JournalInOrder, NEW j \in JournalOutcomes
  PROVE  Kept(j)
<1>1. CASE Running
  BY <1>1, OutcomeKnown, KnownKept
<1>2. CASE pc = "off"
  <2>1. j = journal
    BY <1>2 DEF JournalOutcomes
  <2>2. QED BY <1>2, <2>1, Zenon DEF JournalInOrder
<1>3. CASE ~Running /\ pc # "off"
  <2>1. pc \in Steps
    BY DEF Sane, Data
  <2>2. pc = "reset" \/ (pc = "idle" /\ ~ready)
    BY <1>3, <2>1 DEF Steps, Running, Appending
  <2>3. good = 0
    BY <2>2, Zenon DEF Authority
  <2>4. QED BY <2>3 DEF Kept
<1>4. QED BY <1>1, <1>2, <1>3

\* So the scan returns it or a newer one.
LEMMA KeptBest ==
  ASSUME Sane, Bounded, Authority, JournalInOrder PROVE JournalKeepsNewest
<1>1. PICK bound \in Nat : Below(bound)
  BY DEF Bounded
<1>2. ASSUME NEW j \in JournalOutcomes PROVE Best(j).seq >= good
  <2>1. j \in Journals(next) /\ next \in Nat /\ good \in Nat
    BY JournalOutcomesType DEF Sane, Data
  <2>2. UpTo(j, bound)
    BY <1>1, OutcomesUpTo
  <2>3. Best(j).seq \in Nat
    BY <2>1, <2>2, BestType
  <2>4. CASE good = 0
    BY <2>3, <2>4
  <2>5. CASE good # 0
    <3>1. Kept(j)
      BY OutcomeKept
    <3>2. PICK p \in Candidates(j) : j[p[1]][p[2]].seq >= good
      BY <2>5, <3>1 DEF Kept
    <3>3. Best(j).seq >= j[p[1]][p[2]].seq
      BY <2>1, <2>2, BestExists
    <3>4. j[p[1]][p[2]].seq \in Nat
      <4>1. p[1] \in {0, 1} /\ p[2] \in 0 .. Entries - 1
        BY DEF Candidates, Scanned
      <4>2. QED BY <2>1, <4>1 DEF Journals, SectorOfEntries, EntryBelow
    <3>5. PICK u, v \in Nat : u = Best(j).seq /\ v = j[p[1]][p[2]].seq
      BY <2>3, <3>4
    <3>6. QED BY <2>1, <3>2, <3>3, <3>5
  <2>6. QED BY <2>4, <2>5
<1>3. QED BY <1>2 DEF JournalKeepsNewest

(***************************************************************************)
(* The steps.                                                              *)
(***************************************************************************)
LEMMA InitOrder == ASSUME Init PROVE Authority /\ JournalInOrder
<1>1. pc = "off" /\ good = 0 /\ ~ready
  BY Zenon DEF Init
<1>2. Authority
  BY <1>1, Zenon DEF Authority, Appending
<1>3. JournalInOrder
  BY <1>1 DEF JournalInOrder, Running, Kept, Appending
<1>4. QED BY <1>2, <1>3

\* A step that leaves the journal and the entries that count in it alone.
LEMMA SameOrder ==
  ASSUME JournalInOrder, Running, UNCHANGED <<journal, active, index, good>>,
         meta'.st = meta.st, pc' # "off"
  PROVE  JournalInOrder'
<1>1. meta.st = "ok" /\ Filled(journal) /\ Known(journal)
  BY Zenon DEF JournalInOrder
<1>2. meta'.st = "ok" /\ Filled(journal)' /\ Known(journal)'
  BY <1>1, Zenon DEF Filled, Known
<1>3. QED BY <1>2, Zenon DEF JournalInOrder

\* Who may write: the flags of the steps.
LEMMA StepAuthority == ASSUME Sane, Authority, [Next]_vars PROVE Authority'
<1>1. CASE UNCHANGED vars
  BY <1>1, Zenon DEF vars, Authority
<1>2. CASE PowerOn
  <2>1. CASE pc' = "reset" /\ good' = 0 /\ UNCHANGED ready
    <3>1. ~ready'
      BY <1>2, <2>1, Zenon DEF PowerOn, Authority
    <3>2. QED BY <2>1, <3>1, Zenon DEF Authority, Appending
  <2>2. CASE pc' = "idle" /\ ready' = TRUE
    BY <2>2, Zenon DEF Authority, Appending
  <2>3. QED BY <1>2, <2>1, <2>2, Zenon DEF PowerOn
<1>3. CASE ResetErase
  BY <1>3, Zenon DEF ResetErase, Authority, Appending
<1>4. CASE ResetAppend
  <2>1. pc' = "append" /\ UNCHANGED <<op, good>> /\ op = "reset" /\ good = 0
    BY <1>4, Zenon DEF ResetAppend, Sane, Control, Authority
  <2>2. QED BY <2>1, Zenon DEF Authority, Appending
<1>5. CASE PowerLoss
  <2>1. pc' = "off" /\ ~ready'
    BY <1>5, Zenon DEF PowerLoss
  <2>2. QED BY <2>1, Zenon DEF Authority, Appending
<1>6. CASE DataFails
  <2>1. pc' = "idle" /\ UNCHANGED <<ready, good>> /\ pc \in {"erase", "program", "reset"}
    BY <1>6 DEF DataFails
  <2>2. ready \/ good = 0
    BY <2>1, Zenon DEF Authority
  <2>3. QED BY <2>1, <2>2, Zenon DEF Authority, Appending
<1>7. CASE AppendEntry \/ Roll
  <2>1. pc \in Appending /\ EndAppend(TRUE)
    BY <1>7 DEF AppendEntry, Roll, Appending
  <2>2. ready' = (IF op = "reset" THEN TRUE ELSE ready)
        /\ pc' = (IF op = "drop" THEN "room" ELSE "idle")
    BY <2>1, Zenon DEF EndAppend
  <2>3. ready'
    BY <2>1, <2>2, Zenon DEF Authority
  <2>4. pc' \in {"room", "idle"}
    BY <2>2
  <2>5. QED BY <2>3, <2>4, Zenon DEF Authority, Appending
<1>8. CASE AppendFails
  <2>1. pc \in Appending /\ EndAppend(FALSE) /\ UNCHANGED good
    BY <1>8 DEF AppendFails, Appending
  <2>2. ready' = (IF op = "reset" THEN FALSE ELSE ready)
        /\ pc' = (IF op = "drop" THEN "room" ELSE "idle")
    BY <2>1, Zenon DEF EndAppend
  <2>3. CASE op = "reset"
    <3>1. pc' = "idle"
      BY <2>2, <2>3
    <3>2. good' = 0
      BY <2>1, <2>3, Zenon DEF Authority
    <3>3. QED BY <3>1, <3>2, Zenon DEF Authority, Appending
  <2>4. CASE op # "reset"
    <3>1. ready'
      BY <2>1, <2>2, <2>4, Zenon DEF Authority
    <3>2. pc' \in {"room", "idle"}
      BY <2>2
    <3>3. QED BY <3>1, <3>2, Zenon DEF Authority, Appending
  <2>5. QED BY <2>3, <2>4
<1>9. CASE RollErase
  <2>1. pc \in Appending /\ pc' = "roll" /\ UNCHANGED <<ready, op, good>>
    BY <1>9 DEF RollErase, Appending
  <2>2. QED BY <2>1, Zenon DEF Authority, Appending
<1>10. CASE Consume \/ Drop \/ Program
  <2>1. pc' \in {"append", "rollErase"} /\ op' # "reset" /\ UNCHANGED <<ready, good>>
    BY <1>10 DEF Consume, Drop, Program, StartAppend
  <2>2. ready
    BY <1>10, Zenon DEF Consume, Drop, Program, Authority
  <2>3. QED BY <2>1, <2>2, Zenon DEF Authority, Appending
<1>11. CASE (\E s \in Sizes : Put(s)) \/ Place \/ EraseSector
  <2>1. pc' \in {"room", "erase", "program"} /\ UNCHANGED ready
    BY <1>11 DEF Put, Place, EraseSector
  <2>2. ready
    BY <1>11, Zenon DEF Put, Place, EraseSector, Authority
  <2>3. QED BY <2>1, <2>2, Zenon DEF Authority, Appending
<1>12. QED
  BY <1>1, <1>2, <1>3, <1>4, <1>5, <1>6, <1>7, <1>8, <1>9, <1>10, <1>11 DEF Next

(***************************************************************************)
(* ... and the journal in order.                                           *)
(***************************************************************************)
LEMMA JournalShape ==
  ASSUME Sane
  PROVE  /\ active \in {0, 1} /\ RollTarget \in {0, 1} /\ index \in Nat /\ Entries \in Nat
         /\ journal \in [{0, 1} -> [0 .. Entries - 1 -> EntryBelow(next)]]
         /\ meta.seq \in Nat /\ 0 \in 0 .. Entries - 1
<1>1. /\ active \in {0, 1} /\ index \in 0 .. Entries /\ journal \in Journals(next)
      /\ meta \in EntryBelow(next)
  BY DEF Sane, Data
<1>2. Entries \in Nat /\ Entries >= 1
  BY Geometry
<1>3. journal \in [{0, 1} -> [0 .. Entries - 1 -> EntryBelow(next)]]
  BY <1>1 DEF Journals, SectorOfEntries
<1>4. meta.seq \in Nat
  BY <1>1 DEF EntryBelow
<1>5. QED BY <1>1, <1>2, <1>3, <1>4 DEF RollTarget

\* The sector the append writes, after its last step.
LEMMA AppendOrder == ASSUME Sane, Authority, JournalInOrder, AppendEntry PROVE JournalInOrder'
<1>1. /\ meta.st = "ok" /\ Filled(journal) /\ Known(journal) /\ pc = "append"
  <2>1. pc = "append"
    BY DEF AppendEntry
  <2>2. Running
    BY <2>1 DEF Running, Appending
  <2>3. QED BY <2>1, <2>2, Zenon DEF JournalInOrder
<1>2. /\ active \in {0, 1} /\ index \in Nat /\ Entries \in Nat
      /\ journal \in [{0, 1} -> [0 .. Entries - 1 -> EntryBelow(next)]]
      /\ meta.seq \in Nat /\ index < Entries
  <2>1. index < Entries
    BY <1>1 DEF Sane, Control
  <2>2. QED BY <2>1, JournalShape
<1>3. PICK e : e = Programmed(journal[active][index])
  OBVIOUS
<1>4. /\ journal' = SlotWritten(e) /\ index' = index + 1 /\ UNCHANGED <<active, meta>>
      /\ good' = (IF journal[active][index].st = "blank" THEN meta.seq ELSE good)
  BY <1>3 DEF AppendEntry, EndAppend
<1>5. pc' # "off"
  BY DEF AppendEntry, EndAppend
<1>6. /\ journal'[active][index] = e
      /\ \A k \in 0 .. index - 1 : journal'[active][k] = journal[active][k]
  BY <1>2, <1>4 DEF SlotWritten
<1>7. e.st # "blank"
  BY <1>1, <1>3 DEF Programmed, BadEntry, NoEntry
<1>8. \A k \in 0 .. index : journal'[active][k].st # "blank"
  <2>1. ASSUME NEW k \in 0 .. index PROVE journal'[active][k].st # "blank"
    <3>1. CASE k = index
      BY <1>6, <1>7, <3>1
    <3>2. CASE k # index
      <4>1. k \in 0 .. index - 1
        BY <1>2, <3>2
      <4>2. QED BY <1>1, <1>6, <4>1 DEF Filled
    <3>3. QED BY <3>1, <3>2
  <2>2. QED BY <2>1
<1>9. Filled(journal)'
  <2>1. 0 .. index' - 1 = 0 .. index
    BY <1>2, <1>4
  <2>2. QED BY <1>4, <1>8, <2>1 DEF Filled
<1>10. Known(journal)'
  <2>1. CASE journal[active][index].st = "blank"
    <3>1. e = meta /\ good' = meta.seq
      BY <1>3, <1>4, <2>1 DEF Programmed
    <3>2. index \in 0 .. index' - 1
      BY <1>2, <1>4
    <3>3. journal'[active'][index].st = "ok" /\ journal'[active'][index].seq >= good'
      BY <1>1, <1>2, <1>4, <1>6, <3>1
    <3>4. QED BY <3>2, <3>3 DEF Known
  <2>2. CASE journal[active][index].st # "blank"
    <3>1. UNCHANGED good
      BY <1>4, <2>2
    <3>2. CASE good = 0
      BY <3>1, <3>2 DEF Known
    <3>3. CASE good # 0
      <4>1. PICK i \in 0 .. index - 1 :
              journal[active][i].st = "ok" /\ journal[active][i].seq >= good
        BY <1>1, <3>3 DEF Known
      <4>2. i \in 0 .. index' - 1
        BY <1>2, <1>4
      <4>3. journal'[active'][i].st = "ok" /\ journal'[active'][i].seq >= good'
        BY <1>4, <1>6, <3>1, <4>1
      <4>4. QED BY <4>2, <4>3 DEF Known
    <3>4. QED BY <3>2, <3>3
  <2>3. QED BY <2>1, <2>2
<1>11. meta'.st = "ok"
  BY <1>1, <1>4
<1>12. QED BY <1>5, <1>9, <1>10, <1>11, Zenon DEF JournalInOrder

\* The change to the other sector: its first entry is the newest.
LEMMA RollOrder == ASSUME Sane, Authority, JournalInOrder, Roll PROVE JournalInOrder'
<1>1. meta.st = "ok"
  <2>1. pc = "roll"
    BY DEF Roll
  <2>2. Running
    BY <2>1 DEF Running, Appending
  <2>3. QED BY <2>2, Zenon DEF JournalInOrder
<1>2. /\ journal' = RollWritten(meta) /\ active' = RollTarget /\ index' = 1
      /\ good' = meta.seq /\ UNCHANGED meta /\ pc' # "off"
  BY DEF Roll, EndAppend
<1>3. /\ RollTarget \in {0, 1} /\ meta.seq \in Nat /\ 0 \in 0 .. Entries - 1
      /\ journal \in [{0, 1} -> [0 .. Entries - 1 -> EntryBelow(next)]]
  BY JournalShape
<1>4. journal'[active'][0] = meta
  BY <1>2, <1>3 DEF RollWritten
<1>5. 0 .. index' - 1 = {0}
  BY <1>2
<1>6. Filled(journal)'
  BY <1>1, <1>4, <1>5 DEF Filled
<1>7. Known(journal)'
  <2>1. journal'[active'][0].st = "ok" /\ journal'[active'][0].seq >= good'
    BY <1>1, <1>2, <1>3, <1>4
  <2>2. QED BY <1>5, <2>1 DEF Known
<1>8. meta'.st = "ok"
  BY <1>1, <1>2
<1>9. QED BY <1>2, <1>6, <1>7, <1>8, Zenon DEF JournalInOrder

\* A step that leaves one of the outcomes of the append, and its index.
LEMMA OutcomeOrder ==
  ASSUME Sane, JournalInOrder, Running, journal' \in JournalOutcomes,
         UNCHANGED <<meta, active, index, good>>, pc' # "off"
  PROVE  JournalInOrder'
<1>1. PICK j \in JournalOutcomes : j = journal'
  OBVIOUS
<1>2. Filled(j) /\ Known(j)
  BY OutcomeKnown
<1>3. meta.st = "ok"
  BY Zenon DEF JournalInOrder
<1>4. Filled(journal)' /\ Known(journal)'
  BY <1>1, <1>2, Zenon DEF Filled, Known
<1>5. QED BY <1>3, <1>4, Zenon DEF JournalInOrder

\* Nothing is known, and nothing need be kept.
LEMMA NotRunningOrder ==
  ASSUME pc' \in {"idle", "reset"}, ~ready' \/ pc' = "reset" PROVE JournalInOrder'
<1>1. ~Running'
  BY Zenon DEF Running, Appending
<1>2. pc' # "off"
  OBVIOUS
<1>3. QED BY <1>1, <1>2, Zenon DEF JournalInOrder

\* The append that fails.
LEMMA AppendFailsOrder ==
  ASSUME Sane, Authority, JournalInOrder, AppendFails PROVE JournalInOrder'
<1>1. /\ pc \in Appending /\ journal' \in JournalOutcomes /\ pc' # "off"
      /\ UNCHANGED <<meta, active, index, good>>
  BY DEF AppendFails, EndAppend, Appending
<1>2. Running
  BY <1>1 DEF Running
<1>3. QED BY <1>1, <1>2, OutcomeOrder

\* The other sector is erased.
LEMMA RollEraseOrder ==
  ASSUME Sane, Authority, JournalInOrder, RollErase PROVE JournalInOrder'
<1>1. /\ pc = "rollErase" /\ journal' = RollErased(NoEntry) /\ pc' # "off"
      /\ UNCHANGED <<meta, active, index, good>>
  BY DEF RollErase
<1>2. journal' \in JournalOutcomes
  BY <1>1 DEF JournalOutcomes
<1>3. Running
  BY <1>1 DEF Running, Appending
<1>4. QED BY <1>1, <1>2, <1>3, OutcomeOrder

\* A reset: what the scan will find.
LEMMA PowerLossOrder ==
  ASSUME Sane, Authority, JournalInOrder, PowerLoss PROVE JournalInOrder'
<1>1. journal' \in JournalOutcomes /\ UNCHANGED good /\ pc' = "off"
  BY DEF PowerLoss
<1>2. PICK j \in JournalOutcomes : j = journal'
  BY <1>1
<1>3. Kept(j)
  BY OutcomeKept
<1>4. Kept(journal)'
  BY <1>1, <1>2, <1>3, Zenon DEF Kept
<1>5. ~Running'
  BY <1>1 DEF Running, Appending
<1>6. QED BY <1>4, <1>5, Zenon DEF JournalInOrder

\* A put or a metadata_reset that fails.
LEMMA DataFailsOrder ==
  ASSUME Sane, Authority, JournalInOrder, DataFails PROVE JournalInOrder'
<1>1. /\ pc \in {"erase", "program", "reset"} /\ pc' = "idle" /\ journal' \in JournalOutcomes
      /\ UNCHANGED <<meta, active, index, good, ready>>
  BY DEF DataFails
<1>2. CASE pc \in {"erase", "program"}
  <2>1. Running
    BY <1>2 DEF Running
  <2>2. QED BY <1>1, <2>1, OutcomeOrder
<1>3. CASE pc = "reset"
  <2>1. ~ready'
    BY <1>1, <1>3, Zenon DEF Authority
  <2>2. QED BY <1>1, <2>1, NotRunningOrder
<1>4. QED BY <1>1, <1>2, <1>3
\* metadata_recover finds the entry, and appends behind it.
LEMMA PowerOnOrder ==
  ASSUME Sane, Bounded, Authority, JournalInOrder, PowerOn PROVE JournalInOrder'
<1>1. Kept(journal) /\ pc' # "off" /\ UNCHANGED journal
  <2>1. pc = "off" /\ pc' # "off" /\ UNCHANGED journal
    BY DEF PowerOn
  <2>2. QED BY <2>1, Zenon DEF JournalInOrder
<1>2. CASE pc' = "reset"
  BY <1>2, NotRunningOrder
<1>3. CASE \E p \in Candidates(journal) :
             /\ IsBest(journal, p) /\ meta' = journal[p[1]][p[2]]
             /\ active' = p[1] /\ index' = p[2] + 1 /\ UNCHANGED good
  <2>1. PICK p \in Candidates(journal) :
          /\ IsBest(journal, p) /\ meta' = journal[p[1]][p[2]]
          /\ active' = p[1] /\ index' = p[2] + 1 /\ UNCHANGED good
    BY <1>3
  <2>2. PICK b \in {0, 1} : \E i \in Scanned(journal, b) : p = <<b, i>>
    BY <2>1 DEF Candidates
  <2>3. PICK i \in Scanned(journal, b) : p = <<b, i>>
    BY <2>2
  <2>4. /\ i \in 0 .. Entries - 1 /\ journal[b][i].st = "ok"
        /\ \A k \in 0 .. i : journal[b][k].st # "blank"
    BY <2>3 DEF Scanned
  <2>5. active' = b /\ index' = i + 1 /\ meta' = journal[b][i]
    BY <2>1, <2>3
  <2>6. 0 .. index' - 1 = 0 .. i /\ i \in 0 .. i
    BY <2>4, <2>5, Geometry
  <2>7. Filled(journal)'
    BY <1>1, <2>4, <2>5, <2>6 DEF Filled
  <2>8. Known(journal)'
    <3>1. CASE good = 0
      BY <2>1, <3>1 DEF Known
    <3>2. CASE good # 0
      <4>1. PICK q \in Candidates(journal) : journal[q[1]][q[2]].seq >= good
        BY <1>1, <3>2 DEF Kept
      <4>2. journal[q[1]][q[2]].seq <= journal[p[1]][p[2]].seq
        BY <2>1, <4>1, Zenon DEF IsBest
      <4>3. \A r \in Candidates(journal) : journal[r[1]][r[2]].seq \in Nat
        <5>1. \A c \in {0, 1}, k \in 0 .. Entries - 1 : journal[c][k].seq \in Nat
          BY JournalShape DEF EntryBelow
        <5>2. \A r \in Candidates(journal) : r[1] \in {0, 1} /\ r[2] \in 0 .. Entries - 1
          BY DEF Candidates, Scanned
        <5>3. QED BY <5>1, <5>2
      <4>4. PICK u, v \in Nat : u = journal[q[1]][q[2]].seq /\ v = journal[p[1]][p[2]].seq
        BY <4>1, <4>3, <2>1
      <4>5. v >= good
        BY <4>1, <4>2, <4>4 DEF Sane, Data
      <4>6. journal[b][i].seq = v
        BY <2>3, <4>4
      <4>7. journal'[active'][i].st = "ok" /\ journal'[active'][i].seq >= good'
        BY <1>1, <2>1, <2>4, <2>5, <4>5, <4>6
      <4>8. QED BY <2>6, <4>7 DEF Known
    <3>3. QED BY <3>1, <3>2
  <2>9. meta'.st = "ok"
    BY <2>4, <2>5
  <2>10. QED BY <1>1, <2>7, <2>8, <2>9, Zenon DEF JournalInOrder
<1>4. QED BY <1>2, <1>3, Zenon DEF PowerOn

\* metadata_reset starts from nothing.
LEMMA ResetOrder ==
  ASSUME Sane, Authority, JournalInOrder, ResetErase \/ ResetAppend PROVE JournalInOrder'
<1>1. CASE ResetErase
  <2>1. pc' = "reset"
    BY <1>1 DEF ResetErase
  <2>2. QED BY <2>1, NotRunningOrder
<1>2. CASE ResetAppend
  <2>1. /\ meta'.st = "ok" /\ index' = 0 /\ pc' = "append" /\ UNCHANGED good
    BY <1>2 DEF ResetAppend, Entry
  <2>2. good' = 0
    BY <1>2, <2>1, Zenon DEF ResetAppend, Authority
  <2>3. Filled(journal)' /\ Known(journal)'
    BY <2>1, <2>2 DEF Filled, Known
  <2>4. pc' # "off"
    BY <2>1
  <2>5. QED BY <2>1, <2>3, <2>4, Zenon DEF JournalInOrder
<1>3. QED BY <1>1, <1>2

\* The steps of put and consume between the appends.
LEMMA PutOrder ==
  ASSUME Sane, Authority, JournalInOrder,
         Consume \/ Drop \/ Program \/ (\E s \in Sizes : Put(s)) \/ Place \/ EraseSector
  PROVE  JournalInOrder'
<1>1. Running
  <2>1. (pc = "idle" /\ ready) \/ pc \in {"room", "erase", "program"}
    BY Zenon DEF Consume, Drop, Program, Put, Place, EraseSector
  <2>2. QED BY <2>1, Zenon DEF Running
<1>2. UNCHANGED <<journal, active, index, good>> /\ pc' # "off"
  BY DEF Consume, Drop, Program, Put, Place, EraseSector, jVars, StartAppend
<1>3. meta'.st = meta.st
  BY DEF Consume, Drop, Program, Put, Place, EraseSector, StartAppend, Consumed, Sane, Data,
         EntryBelow
<1>4. QED BY <1>1, <1>2, <1>3, SameOrder

\* Every step.
LEMMA StepOrder ==
  ASSUME Sane, Bounded, Authority, JournalInOrder, [Next]_vars PROVE JournalInOrder'
<1>1. CASE UNCHANGED vars
  BY <1>1, Zenon DEF vars, JournalInOrder, Running, Filled, Known, Kept
<1>2. CASE PowerOn \/ ResetErase \/ ResetAppend \/ PowerLoss \/ DataFails
  BY <1>2, PowerOnOrder, ResetOrder, PowerLossOrder, DataFailsOrder
<1>3. CASE AppendEntry \/ RollErase \/ Roll \/ AppendFails
  BY <1>3, AppendOrder, RollEraseOrder, RollOrder, AppendFailsOrder
<1>4. CASE Consume \/ (\E s \in Sizes : Put(s)) \/ Drop \/ Place \/ EraseSector \/ Program
  BY <1>4, PutOrder
<1>5. QED BY <1>1, <1>2, <1>3, <1>4 DEF Next

\* For every length of the journal and every number of failures: a reset at any
\* moment, in the middle of an append or of the change to the other sector too,
\* finds the newest entry ever programmed on blank cells, or a later one.
THEOREM JournalKeepsNewestCorrect == Spec => []JournalKeepsNewest
<1>1. Init => Authority /\ JournalInOrder
  BY InitOrder
<1>2. Sane /\ Authority /\ [Next]_vars => Authority'
  BY StepAuthority
<1>3. Sane /\ Bounded /\ Authority /\ JournalInOrder /\ [Next]_vars => JournalInOrder'
  BY StepOrder
<1>4. Sane /\ Bounded /\ Authority /\ JournalInOrder => JournalKeepsNewest
  BY KeptBest
<1>5. QED BY <1>1, <1>2, <1>3, <1>4, SaneHolds, BoundedHolds, PTL DEF Spec

-----------------------------------------------------------------------------
(***************************************************************************)
(* Where the log lies.  It is followed through sectors that are counted on *)
(* past the last one, so that a log of at most Sectors sectors has them in *)
(* ascending order.                                                        *)
(***************************************************************************)
Lap(z) == IF z >= Sectors THEN z - Sectors ELSE z
Addr(z, o) == Lap(z) * Size + o
Laps == 0 .. 2 * Sectors - 1
Offsets == 0 .. Size - 1

\* The sector is one of the region.
LEMMA LapRange == ASSUME NEW z \in Laps PROVE Lap(z) \in 0 .. Sectors - 1
BY Geometry DEF Laps, Lap

\* Sector and offset of an address.
LEMMA AddrParts ==
  ASSUME NEW z \in Laps, NEW o \in Offsets
  PROVE  /\ Lap(z) \in 0 .. Sectors - 1 /\ Addr(z, o) \in 0 .. Region - 1 /\ Addr(z, o) \in Nat
         /\ SectorOf(Addr(z, o)) = Lap(z) /\ Addr(z, o) % Size = o
<1>1. Size \in Nat /\ Size >= 2 /\ Sectors \in Nat /\ Sectors >= 2
  BY Geometry
<1>2. PICK q \in 0 .. Sectors - 1 : q = Lap(z)
  BY LapRange
<1>3. q \in Nat /\ o \in 0 .. Size - 1
  BY <1>1, <1>2 DEF Offsets
<1>4. SectorOf(q * Size + o) = q /\ (q * Size + o) % Size = o
  BY <1>3, SectorValue
<1>5. q * Size + o \in Nat /\ q * Size + o < Sectors * Size
  <2>1. (Sectors - 1 - q) * Size >= 0 /\ q * Size >= 0
    BY <1>1, <1>2
  <2>2. (Sectors - 1 - q) * Size = Sectors * Size - Size - q * Size
    BY <1>1, <1>2
  <2>3. q * Size \in Nat /\ Sectors * Size \in Nat
    BY <1>1, <1>2
  <2>4. QED BY <1>1, <1>3, <2>1, <2>2, <2>3
<1>6. q * Size + o \in 0 .. Sectors * Size - 1
  <2>1. Sectors * Size \in Nat
    BY <1>1
  <2>2. QED BY <1>5, <2>1
<1>7. QED BY <1>2, <1>4, <1>5, <1>6 DEF Addr, Region

\* Within a sector, addresses follow each other.
LEMMA AddrPlus ==
  ASSUME NEW z \in Laps, NEW o \in Nat, NEW k \in Nat
  PROVE  Addr(z, o) + k = Addr(z, o + k)
<1>1. Lap(z) * Size \in Nat
  <2>1. Lap(z) \in Nat /\ Size \in Nat
    BY Geometry DEF Laps, Lap
  <2>2. QED BY <2>1
<1>2. QED BY <1>1 DEF Addr

\* The sector after it ...
LEMMA AddrNext ==
  ASSUME NEW z \in Laps, z + 1 \in Laps, NEW o \in Offsets
  PROVE  NextSector(Addr(z, o)) = Addr(z + 1, 0)
<1>1. Size \in Nat /\ Size >= 2 /\ Sectors \in Nat /\ Sectors >= 2
  BY Geometry
<1>2. PICK q \in 0 .. Sectors - 1 : q = Lap(z)
  BY LapRange
<1>3. NextSector(Addr(z, o)) = Wrap((q + 1) * Size)
  BY <1>2, AddrParts DEF NextSector
<1>4. 0 \in Offsets /\ Addr(z + 1, 0) = Lap(z + 1) * Size
  <2>1. Lap(z + 1) * Size \in Nat
    BY <1>1 DEF Laps, Lap
  <2>2. QED BY <1>1, <2>1 DEF Addr, Offsets
<1>5. CASE q = Sectors - 1
  <2>1. Lap(z + 1) = 0
    BY <1>1, <1>2, <1>5 DEF Laps, Lap
  <2>2. (q + 1) * Size = Region
    BY <1>1, <1>5 DEF Region
  <2>3. Wrap(Region) = 0 /\ 0 * Size = 0
    BY <1>1, Geometry DEF Wrap
  <2>4. QED BY <1>3, <1>4, <2>1, <2>2, <2>3
<1>6. CASE q # Sectors - 1
  <2>1. Lap(z + 1) = q + 1
    BY <1>1, <1>2, <1>6 DEF Laps, Lap
  <2>2. Addr(z + 1, 0) \in 0 .. Region - 1
    BY <1>4, AddrParts
  <2>3. (q + 1) * Size \in 0 .. Region - 1
    BY <1>4, <2>1, <2>2
  <2>4. Wrap((q + 1) * Size) = (q + 1) * Size
    BY <2>3, Geometry DEF Wrap
  <2>5. QED BY <1>3, <1>4, <2>1, <2>4
<1>7. QED BY <1>5, <1>6

\* ... also where a record fills the one before it.
LEMMA AddrWrap ==
  ASSUME NEW z \in Laps, NEW o \in Offsets, NEW n \in Nat, n > 0, o + n <= Size,
         o + n = Size => z + 1 \in Laps
  PROVE  Wrap(Addr(z, o) + n) = IF o + n = Size THEN Addr(z + 1, 0) ELSE Addr(z, o + n)
<1>1. Size \in Nat /\ Size >= 2 /\ Sectors \in Nat /\ Sectors >= 2
  BY Geometry
<1>2. Addr(z, o) + n = Addr(z, o + n)
  BY <1>1, AddrPlus DEF Offsets
<1>3. CASE o + n = Size
  <2>1. Addr(z, o + n) = (Lap(z) + 1) * Size
    <3>1. PICK q \in 0 .. Sectors - 1 : q = Lap(z)
      BY LapRange
    <3>2. q * Size + Size = (q + 1) * Size
      BY <1>1, <3>1
    <3>3. QED BY <1>3, <3>1, <3>2 DEF Addr
  <2>2. NextSector(Addr(z, o)) = Wrap((Lap(z) + 1) * Size)
    BY AddrParts DEF NextSector
  <2>3. NextSector(Addr(z, o)) = Addr(z + 1, 0)
    BY <1>3, AddrNext
  <2>4. QED BY <1>2, <1>3, <2>1, <2>2, <2>3
<1>4. CASE o + n # Size
  <2>1. o + n \in Offsets
    BY <1>1, <1>4 DEF Offsets
  <2>2. Addr(z, o + n) \in 0 .. Region - 1
    BY <2>1, AddrParts
  <2>3. Wrap(Addr(z, o + n)) = Addr(z, o + n)
    BY <2>2, Geometry DEF Wrap
  <2>4. QED BY <1>2, <1>4, <2>3
<1>5. QED BY <1>3, <1>4

\* Less than a lap apart, sectors differ.
LEMMA LapApart ==
  ASSUME NEW z \in Laps, NEW y \in Laps, z < y, y < z + Sectors
  PROVE  Lap(z) # Lap(y)
BY Geometry DEF Laps, Lap

\* A sector comes again after a lap.
LEMMA LapAgain ==
  ASSUME NEW z \in 0 .. Sectors - 1 PROVE z + Sectors \in Laps /\ Lap(z + Sectors) = Lap(z)
BY Geometry DEF Laps, Lap

\* Every address is one of the first lap.
LEMMA AddrOf ==
  ASSUME NEW a \in 0 .. Region - 1
  PROVE  \E z \in 0 .. Sectors - 1, o \in Offsets : z \in Laps /\ a = Addr(z, o) /\ Lap(z) = z
<1>1. a \in Nat
  BY Geometry
<1>2. PICK q \in Nat, r \in 0 .. Size - 1 : q = SectorOf(a) /\ r = a % Size /\ a = q * Size + r
  BY <1>1, SectorParts
<1>3. Size \in Nat /\ Size >= 2 /\ Sectors \in Nat /\ Sectors >= 2
  BY Geometry
<1>4. q < Sectors
  <2>1. SUFFICES ASSUME q >= Sectors PROVE FALSE
    BY <1>3
  <2>2. (q - Sectors) * Size >= 0
    BY <1>3, <2>1
  <2>3. (q - Sectors) * Size = q * Size - Sectors * Size
    BY <1>3
  <2>4. a < Sectors * Size /\ Sectors * Size \in Nat
    BY <1>3, Geometry DEF Region
  <2>5. QED BY <1>2, <1>3, <2>2, <2>3, <2>4
<1>5. q \in 0 .. Sectors - 1 /\ q \in Laps /\ Lap(q) = q /\ r \in Offsets
  BY <1>3, <1>4 DEF Laps, Lap, Offsets
<1>6. a = Addr(q, r)
  BY <1>2, <1>5 DEF Addr
<1>7. QED BY <1>5, <1>6

(***************************************************************************)
(* Reading it.  From place (z, o), a record r of n cells is found at place *)
(* (y, p): there, or at the start of the next sector behind padding.       *)
(***************************************************************************)
Part(r, k, n) == [r |-> r, k |-> k, n |-> n]
Padded(s, z, o) ==
  o # 0 /\ o + Magic <= Size /\ \A k \in 0 .. Magic - 1 : s[Addr(z, o + k)] = Blank
Written(s, y, p, n, r) ==
  /\ n > Header /\ p + n <= Size
  /\ \A k \in 0 .. n - 1 : s[Addr(y, p + k)] = Part(r, k, n)
Found(s, z, o, y, p, n, r) ==
  /\ (y = z /\ p = o) \/ (y = z + 1 /\ p = 0 /\ Padded(s, z, o))
  /\ Written(s, y, p, n, r)
\* Where the place after it is.
Follows(y, p, n, x, q) ==
  IF p + n = Size THEN x = y + 1 /\ q = 0 ELSE x = y /\ q = p + n
Leads(s, z, o, r, x, q) ==
  \E y \in Laps, p \in Offsets, n \in Nat : Found(s, z, o, y, p, n, r) /\ Follows(y, p, n, x, q)

\* A cell of a record is not blank.
LEMMA PartNotBlank ==
  ASSUME NEW r, NEW k, NEW n \in Nat, n > 0
  PROVE  /\ Part(r, k, n) # Blank /\ Part(r, k, n).r = r /\ Part(r, k, n).k = k
         /\ Part(r, k, n).n = n
         /\ \A i : [Part(r, k, n) EXCEPT !.k = i] = Part(r, i, n)
BY DEF Part, Blank

\* The record is read where it starts ...
LEMMA WrittenSound ==
  ASSUME NEW s, NEW y \in Laps, NEW p \in Offsets, NEW n \in Nat, NEW r,
         Written(s, y, p, n, r)
  PROVE  /\ ~LooksBlank(s, Addr(y, p)) /\ HeaderSound(s, Addr(y, p)) /\ Sound(s, Addr(y, p))
         /\ s[Addr(y, p)].r = r /\ s[Addr(y, p)].n = n
<1>1. /\ n > Header /\ p + n <= Size /\ Header \in Nat /\ Header >= 1 /\ Magic \in 1 .. Header /\ p \in Nat
      /\ \A k \in 0 .. n - 1 : s[Addr(y, p + k)] = Part(r, k, n)
  BY QspiAssumption, Geometry DEF Written, Offsets
<1>2. PICK a : a = Addr(y, p)
  OBVIOUS
<1>3. a \in 0 .. Region - 1 /\ a \in Nat /\ a % Size = p
  BY <1>2, AddrParts
<1>4. \A k \in 0 .. n - 1 : s[a + k] = Part(r, k, n)
  <2>1. ASSUME NEW k \in 0 .. n - 1 PROVE s[a + k] = Part(r, k, n)
    <3>1. k \in Nat
      BY <1>1
    <3>2. a + k = Addr(y, p + k)
      BY <1>1, <1>2, <3>1, AddrPlus
    <3>3. QED BY <1>1, <3>2
  <2>2. QED BY <2>1
<1>5. a + 0 = a /\ 0 \in 0 .. n - 1
  BY <1>1, <1>3
<1>6. s[a] = Part(r, 0, n)
  BY <1>4, <1>5
<1>7. /\ s[a] # Blank /\ s[a].r = r /\ s[a].k = 0 /\ s[a].n = n
      /\ \A i : [s[a] EXCEPT !.k = i] = Part(r, i, n)
  BY <1>1, <1>6, PartNotBlank
<1>8. \A k \in 0 .. n - 1 : s[a + k] = [s[a] EXCEPT !.k = k]
  BY <1>4, <1>7, Zenon
<1>9. ~LooksBlank(s, a)
  <2>1. 0 \in 0 .. Magic - 1 /\ a + 0 < Region
    BY <1>1, <1>3, Geometry
  <2>2. s[a + 0] # Blank
    BY <1>5, <1>7
  <2>3. QED BY <2>1, <2>2, Zenon DEF LooksBlank
<1>10. HeaderSound(s, a)
  <2>1. \A k \in 0 .. Header - 1 : k \in 0 .. n - 1
    BY <1>1
  <2>2. \A k \in 0 .. Header - 1 : s[a + k] = [s[a] EXCEPT !.k = k]
    BY <1>8, <2>1, Zenon
  <2>3. s[a].k = 0 /\ s[a].n # 0 /\ (a % Size) + s[a].n <= Size
    BY <1>1, <1>3, <1>7
  <2>4. QED BY <2>2, <2>3, Zenon DEF HeaderSound
<1>11. Sound(s, a)
  BY <1>7, <1>8, <1>10, Zenon DEF Sound
<1>12. QED BY <1>2, <1>7, <1>9, <1>10, <1>11

\* ... and padding is skipped.
LEMMA PaddedStart ==
  ASSUME NEW s, NEW z \in Laps, z + 1 \in Laps, NEW o \in Offsets, Padded(s, z, o)
  PROVE  LooksBlank(s, Addr(z, o)) /\ Start(s, Addr(z, o)) = Addr(z + 1, 0)
<1>1. LooksBlank(s, Addr(z, o))
  <2>1. ASSUME NEW k \in 0 .. Magic - 1 PROVE s[Addr(z, o) + k] = Blank
    <3>1. k \in Nat /\ o \in Nat
      BY QspiAssumption, Geometry DEF Offsets
    <3>2. Addr(z, o) + k = Addr(z, o + k)
      BY <3>1, AddrPlus
    <3>3. QED BY <3>2 DEF Padded
  <2>2. QED BY <2>1, Zenon DEF LooksBlank
<1>2. NextSector(Addr(z, o)) = Addr(z + 1, 0)
  BY AddrNext
<1>3. QED BY <1>1, <1>2, Zenon DEF Start

\* What peek returns and consume leaves.
LEMMA LeadsRead ==
  ASSUME NEW s, NEW z \in Laps, NEW o \in Offsets, NEW r, NEW x \in Laps, NEW q,
         Leads(s, z, o, r, x, q)
  PROVE  RecordAt(s, Addr(z, o)) = r /\ After(s, Addr(z, o)) = Addr(x, q)
<1>1. PICK y \in Laps, p \in Offsets, n \in Nat :
        Found(s, z, o, y, p, n, r) /\ Follows(y, p, n, x, q)
  BY DEF Leads
<1>2. /\ n > Header /\ p + n <= Size /\ Header \in Nat /\ Written(s, y, p, n, r)
      /\ (y = z /\ p = o) \/ (y = z + 1 /\ p = 0 /\ Padded(s, z, o))
  BY <1>1, QspiAssumption DEF Found, Written
<1>3. PICK a, t : a = Addr(y, p) /\ t = Addr(z, o)
  OBVIOUS
<1>4. ~LooksBlank(s, a) /\ HeaderSound(s, a) /\ Sound(s, a) /\ s[a].r = r /\ s[a].n = n
  BY <1>2, <1>3, WrittenSound
<1>5. Start(s, t) = a
  <2>1. CASE y = z /\ p = o
    BY <1>3, <1>4, <2>1, Zenon DEF Start
  <2>2. CASE y = z + 1 /\ p = 0 /\ Padded(s, z, o)
    <3>1. z + 1 \in Laps
      BY <2>2
    <3>2. Start(s, Addr(z, o)) = Addr(z + 1, 0)
      BY <2>2, <3>1, PaddedStart
    <3>3. QED BY <1>3, <2>2, <3>2
  <2>3. QED BY <1>2, <2>1, <2>2
<1>6. RecordAt(s, t) = r
  BY <1>4, <1>5, Zenon DEF RecordAt
<1>7. After(s, t) = Wrap(a + n)
  BY <1>4, <1>5, Zenon DEF After
<1>8. Wrap(a + n) = Addr(x, q)
  <2>1. n > 0 /\ (p + n = Size => y + 1 \in Laps)
    BY <1>1, <1>2 DEF Follows
  <2>2. Wrap(Addr(y, p) + n) = IF p + n = Size THEN Addr(y + 1, 0) ELSE Addr(y, p + n)
    BY <1>2, <2>1, AddrWrap
  <2>3. QED BY <1>1, <1>3, <2>2 DEF Follows
<1>9. QED BY <1>3, <1>6, <1>7, <1>8

(***************************************************************************)
(* A log of n records R, the places before them and after the last one at  *)
(* sectors Z and offsets O.  It ends where its first sector comes again,   *)
(* at the latest; and a sector it is in the middle of is not blank at its  *)
(* start.                                                                  *)
(***************************************************************************)
Log(s, n, Z, O, R) ==
  /\ Z \in [Nat -> Laps] /\ O \in [Nat -> Offsets] /\ R \in [Nat -> Nat]
  /\ Z[0] < Sectors
  /\ \A i, j \in 0 .. n : i <= j => Z[i] <= Z[j]
  /\ \A i \in 0 .. n : Z[i] < Z[0] + Sectors \/ (Z[i] = Z[0] + Sectors /\ O[i] = 0)
  /\ \A i \in 0 .. n : O[i] # 0 => s[Addr(Z[i], 0)] # Blank
  /\ \A i \in 0 .. n - 1 : Leads(s, Z[i], O[i], R[i], Z[i + 1], O[i + 1])

\* What is written lies in sector w: the one of the head, on blank cells, or the
\* one after it.
Touches(s, t, w, head) ==
  \A c \in 0 .. Region - 1 : t[c] # s[c] => SectorOf(c) = Lap(w) /\ (head < w \/ s[c] = Blank)

\* A cell of the log is not touched.
LEMMA CellKept ==
  ASSUME NEW s, NEW t, NEW z0 \in Laps, NEW h \in Laps, NEW w \in Laps,
         h <= w, w < z0 + Sectors, Touches(s, t, w, h),
         NEW y \in Laps, z0 <= y, y <= h, NEW o \in Offsets,
         y < h \/ s[Addr(y, o)] # Blank
  PROVE  t[Addr(y, o)] = s[Addr(y, o)]
<1>1. Addr(y, o) \in 0 .. Region - 1 /\ SectorOf(Addr(y, o)) = Lap(y)
  BY AddrParts
<1>2. z0 \in Nat /\ h \in Nat /\ w \in Nat /\ y \in Nat /\ Sectors \in Nat
  BY Geometry DEF Laps
<1>3. CASE y < w
  <2>1. w < y + Sectors
    BY <1>2
  <2>2. Lap(y) # Lap(w)
    BY <1>3, <2>1, LapApart
  <2>3. QED BY <1>1, <2>2, Zenon DEF Touches
<1>4. CASE ~(y < w)
  <2>1. y = h /\ ~(h < w)
    BY <1>2, <1>4
  <2>2. s[Addr(y, o)] # Blank
    BY <1>2, <2>1
  <2>3. QED BY <1>1, <2>1, <2>2, Zenon DEF Touches
<1>5. QED BY <1>3, <1>4

\* So each record stays where it is ...
LEMMA LeadsKept ==
  ASSUME NEW s, NEW t, NEW z0 \in Laps, NEW h \in Laps, NEW w \in Laps,
         h <= w, w < z0 + Sectors, Touches(s, t, w, h),
         NEW z \in Laps, NEW o \in Offsets, NEW r, NEW x \in Laps, NEW q,
         z0 <= z, x <= h, Leads(s, z, o, r, x, q)
  PROVE  Leads(t, z, o, r, x, q)
<1>1. PICK y \in Laps, p \in Offsets, n \in Nat :
        Found(s, z, o, y, p, n, r) /\ Follows(y, p, n, x, q)
  BY DEF Leads
<1>2. /\ n > Header /\ p + n <= Size /\ Header \in Nat /\ Magic \in Nat /\ Size \in Nat /\ p \in Nat /\ o \in Nat
      /\ \A k \in 0 .. n - 1 : s[Addr(y, p + k)] = Part(r, k, n)
      /\ (y = z /\ p = o) \/ (y = z + 1 /\ p = 0 /\ Padded(s, z, o))
  BY <1>1, QspiAssumption, Geometry DEF Found, Written, Offsets
<1>3. z0 \in Nat /\ h \in Nat /\ x \in Nat /\ y \in Nat /\ z \in Nat
  BY Geometry DEF Laps
<1>4. z0 <= y /\ y <= h
  <2>1. z <= y /\ y <= x
    BY <1>1, <1>2, <1>3 DEF Follows
  <2>2. QED BY <1>3, <2>1
<1>5. ASSUME NEW k \in 0 .. n - 1 PROVE t[Addr(y, p + k)] = Part(r, k, n)
  <2>1. p + k \in Offsets
    BY <1>2 DEF Offsets
  <2>2. s[Addr(y, p + k)] = Part(r, k, n) /\ Part(r, k, n) # Blank
    BY <1>2, PartNotBlank
  <2>3. t[Addr(y, p + k)] = s[Addr(y, p + k)]
    BY <1>4, <2>1, <2>2, CellKept
  <2>4. QED BY <2>2, <2>3
<1>6. Written(t, y, p, n, r)
  BY <1>2, <1>5, Zenon DEF Written
<1>7. CASE y = z /\ p = o
  <2>1. Found(t, z, o, y, p, n, r)
    BY <1>6, <1>7, Zenon DEF Found
  <2>2. QED BY <1>1, <2>1, Zenon DEF Leads
<1>8. CASE y = z + 1 /\ p = 0 /\ Padded(s, z, o)
  <2>1. z0 <= z /\ z < h /\ z <= h
    BY <1>3, <1>4, <1>8
  <2>2. o # 0 /\ o + Magic <= Size /\ \A k \in 0 .. Magic - 1 : s[Addr(z, o + k)] = Blank
    BY <1>8, Zenon DEF Padded
  <2>3. ASSUME NEW k \in 0 .. Magic - 1 PROVE t[Addr(z, o + k)] = Blank
    <3>1. o + k \in Offsets
      BY <1>2, <2>2 DEF Offsets
    <3>2. t[Addr(z, o + k)] = s[Addr(z, o + k)]
      BY <2>1, <3>1, CellKept
    <3>3. QED BY <2>2, <3>2
  <2>4. Padded(t, z, o)
    BY <2>2, <2>3, Zenon DEF Padded
  <2>5. Found(t, z, o, y, p, n, r)
    BY <1>6, <1>8, <2>4, Zenon DEF Found
  <2>6. QED BY <1>1, <2>5, Zenon DEF Leads
<1>9. QED BY <1>2, <1>7, <1>8

\* What the definition of a log says, with the types of its parts.
LEMMA LogParts ==
  ASSUME NEW s, NEW n \in Nat, NEW Z, NEW O, NEW R, Log(s, n, Z, O, R)
  PROVE  /\ Sectors \in Nat /\ Sectors >= 2 /\ Z[0] \in Laps /\ Z[0] \in 0 .. Sectors - 1
         /\ \A i \in Nat : /\ Z[i] \in Laps /\ Z[i] \in Nat /\ O[i] \in Offsets /\ O[i] \in Nat
                           /\ R[i] \in Nat
         /\ \A i \in 0 .. n : Z[0] <= Z[i] /\ Z[i] <= Z[n] /\ Z[i] <= Z[0] + Sectors
<1>1. Sectors \in Nat /\ Sectors >= 2 /\ Laps \subseteq Nat /\ Offsets \subseteq Nat
  BY Geometry DEF Laps, Offsets
<1>2. /\ Z \in [Nat -> Laps] /\ O \in [Nat -> Offsets] /\ R \in [Nat -> Nat] /\ Z[0] < Sectors
      /\ \A i, j \in 0 .. n : i <= j => Z[i] <= Z[j]
      /\ \A i \in 0 .. n : Z[i] < Z[0] + Sectors \/ (Z[i] = Z[0] + Sectors /\ O[i] = 0)
  BY Zenon DEF Log
<1>3. \A i \in Nat : /\ Z[i] \in Laps /\ Z[i] \in Nat /\ O[i] \in Offsets /\ O[i] \in Nat
                     /\ R[i] \in Nat
  BY <1>1, <1>2
<1>4. ASSUME NEW i \in 0 .. n PROVE Z[0] <= Z[i] /\ Z[i] <= Z[n] /\ Z[i] <= Z[0] + Sectors
  <2>1. 0 \in 0 .. n /\ n \in 0 .. n /\ 0 <= i /\ i <= n /\ i \in Nat
    OBVIOUS
  <2>2. Z[0] <= Z[i] /\ Z[i] <= Z[n]
    BY <1>2, <2>1, Zenon
  <2>3. Z[i] \in Nat /\ Z[0] \in Nat
    BY <1>3, <2>1
  <2>4. Z[i] < Z[0] + Sectors \/ Z[i] = Z[0] + Sectors
    BY <1>2
  <2>5. QED BY <1>1, <2>2, <2>3, <2>4
<1>5. Z[0] \in Laps /\ Z[0] \in 0 .. Sectors - 1
  <2>1. Z[0] \in Laps /\ Z[0] \in Nat
    BY <1>3
  <2>2. QED BY <1>1, <1>2, <2>1
<1>6. QED BY <1>1, <1>3, <1>4, <1>5

\* ... and the log with it.
LEMMA LogKept ==
  ASSUME NEW s, NEW t, NEW n \in Nat, NEW Z, NEW O, NEW R, Log(s, n, Z, O, R),
         NEW w \in Laps, Z[n] <= w, w < Z[0] + Sectors, Touches(s, t, w, Z[n])
  PROVE  Log(t, n, Z, O, R)
<1>1. /\ \A i \in Nat : /\ Z[i] \in Laps /\ Z[i] \in Nat /\ O[i] \in Offsets /\ O[i] \in Nat
      /\ Z[0] \in Laps /\ Sectors \in Nat
      /\ \A i \in 0 .. n : Z[0] <= Z[i] /\ Z[i] <= Z[n]
  BY LogParts
<1>2. PICK z0, h \in Laps : z0 = Z[0] /\ h = Z[n]
  BY <1>1
<1>3. h <= w /\ w < z0 + Sectors /\ Touches(s, t, w, h)
  BY <1>2
<1>4. ASSUME NEW i \in 0 .. n - 1 PROVE Leads(t, Z[i], O[i], R[i], Z[i + 1], O[i + 1])
  <2>1. i \in Nat /\ i + 1 \in Nat /\ i \in 0 .. n /\ i + 1 \in 0 .. n
    OBVIOUS
  <2>2. PICK z, x \in Laps, o \in Offsets : z = Z[i] /\ x = Z[i + 1] /\ o = O[i]
    BY <1>1, <2>1
  <2>3. Leads(s, z, o, R[i], x, O[i + 1])
    BY <2>2, Zenon DEF Log
  <2>4. z0 <= z /\ x <= h
    BY <1>1, <1>2, <2>1, <2>2
  <2>5. Leads(t, z, o, R[i], x, O[i + 1])
    BY <1>3, <2>3, <2>4, LeadsKept
  <2>6. QED BY <2>2, <2>5
<1>5. ASSUME NEW i \in 0 .. n, O[i] # 0 PROVE t[Addr(Z[i], 0)] # Blank
  <2>1. i \in Nat
    OBVIOUS
  <2>2. PICK z \in Laps : z = Z[i]
    BY <1>1, <2>1
  <2>3. s[Addr(z, 0)] # Blank
    BY <1>5, <2>2, Zenon DEF Log
  <2>4. z0 <= z /\ z <= h /\ 0 \in Offsets
    BY <1>1, <1>2, <2>2, Geometry DEF Offsets
  <2>5. t[Addr(z, 0)] = s[Addr(z, 0)]
    BY <1>3, <2>3, <2>4, CellKept
  <2>6. QED BY <2>2, <2>3, <2>5
<1>6. QED BY <1>4, <1>5, Zenon DEF Log

\* Part of a log is one: up to a record ...
LEMMA LogCut ==
  ASSUME NEW s, NEW n \in Nat, NEW Z, NEW O, NEW R, Log(s, n, Z, O, R), NEW m \in 0 .. n
  PROVE  Log(s, m, Z, O, R)
<1>1. \A i \in 0 .. m : i \in 0 .. n
  OBVIOUS
<1>2. \A i \in 0 .. m - 1 : i \in 0 .. n - 1
  OBVIOUS
<1>3. QED BY <1>1, <1>2, Zenon DEF Log

\* ... or, counting sectors from there, from one on.
LEMMA LeadsAgain ==
  ASSUME NEW s, NEW z \in Laps, z >= Sectors, NEW o \in Offsets, NEW r,
         NEW x \in Laps, NEW q, Leads(s, z, o, r, x, q)
  PROVE  /\ z - Sectors \in Laps /\ x - Sectors \in Laps
         /\ Leads(s, z - Sectors, o, r, x - Sectors, q)
<1>1. Sectors \in Nat /\ Sectors >= 2
  BY Geometry
<1>2. \A y \in Laps : y >= Sectors =>
        y - Sectors \in Laps /\ \A p : Addr(y - Sectors, p) = Addr(y, p)
  BY <1>1 DEF Laps, Lap, Addr
<1>3. PICK y \in Laps, p \in Offsets, n \in Nat :
        Found(s, z, o, y, p, n, r) /\ Follows(y, p, n, x, q)
  BY DEF Leads
<1>4. z \in Nat /\ y \in Nat /\ x \in Nat
  BY <1>1 DEF Laps
<1>5. z <= y /\ y <= x
  BY <1>3, <1>4 DEF Found, Follows
<1>6. y >= Sectors /\ x >= Sectors
  BY <1>1, <1>4, <1>5
<1>7. /\ z - Sectors \in Laps /\ \A i : Addr(z - Sectors, i) = Addr(z, i)
      /\ y - Sectors \in Laps /\ \A i : Addr(y - Sectors, i) = Addr(y, i)
      /\ x - Sectors \in Laps
  BY <1>2, <1>6
<1>8. Follows(y - Sectors, p, n, x - Sectors, q)
  BY <1>1, <1>3, <1>4 DEF Follows
<1>9. Written(s, y - Sectors, p, n, r)
  BY <1>3, <1>7, Zenon DEF Found, Written
<1>10. Padded(s, z, o) => Padded(s, z - Sectors, o)
  BY <1>7, Zenon DEF Padded
<1>11. /\ y = z => y - Sectors = z - Sectors
       /\ y = z + 1 => y - Sectors = (z - Sectors) + 1
  BY <1>1, <1>4
<1>12. Found(s, z - Sectors, o, y - Sectors, p, n, r)
  BY <1>3, <1>9, <1>10, <1>11, Zenon DEF Found
<1>13. Leads(s, z - Sectors, o, r, x - Sectors, q)
  BY <1>7, <1>8, <1>12, Zenon DEF Leads
<1>14. QED BY <1>7, <1>13

\* From the record at d on, with the sectors counted from u.
From(Z, n, d, u) == [i \in Nat |-> IF i <= n - d THEN Z[d + i] - u ELSE 0]
Shift(O, d) == [i \in Nat |-> O[d + i]]

\* ... with the sectors P, at the same places.
Restarts(s, n, Z, O, R, d, P) ==
  /\ Log(s, n - d, P, Shift(O, d), Shift(R, d))
  /\ \A i \in 0 .. n - d : Addr(P[i], O[d + i]) = Addr(Z[d + i], O[d + i])

\* A log cut off at its front is a log, its sectors counted from its own first one.
LEMMA LogFrom ==
  ASSUME NEW s, NEW n \in Nat, NEW Z, NEW O, NEW R, Log(s, n, Z, O, R), NEW d \in 0 .. n
  PROVE  \E P : Restarts(s, n, Z, O, R, d, P)
<1>1. /\ Sectors \in Nat /\ Sectors >= 2 /\ Z[0] \in 0 .. Sectors - 1
      /\ \A i \in Nat : /\ Z[i] \in Laps /\ Z[i] \in Nat /\ O[i] \in Offsets /\ O[i] \in Nat
                        /\ R[i] \in Nat
      /\ \A i \in 0 .. n : Z[0] <= Z[i] /\ Z[i] <= Z[n] /\ Z[i] <= Z[0] + Sectors
  BY LogParts
<1>2. /\ O \in [Nat -> Offsets] /\ R \in [Nat -> Nat]
      /\ \A i, j \in 0 .. n : i <= j => Z[i] <= Z[j]
      /\ \A i \in 0 .. n : Z[i] < Z[0] + Sectors \/ (Z[i] = Z[0] + Sectors /\ O[i] = 0)
      /\ \A i \in 0 .. n : O[i] # 0 => s[Addr(Z[i], 0)] # Blank
      /\ \A i \in 0 .. n - 1 : Leads(s, Z[i], O[i], R[i], Z[i + 1], O[i + 1])
  BY Zenon DEF Log
<1>3. PICK u : u = IF Z[d] < Sectors THEN 0 ELSE Sectors
  OBVIOUS
<1>4. /\ u \in Nat /\ (u = 0 \/ u = Sectors) /\ Z[d] - u \in 0 .. Sectors - 1 /\ Z[d] \in Nat
      /\ Z[d] >= u
  <2>1. d \in Nat
    OBVIOUS
  <2>2. Z[d] \in Laps /\ Z[d] \in Nat
    BY <1>1, <2>1
  <2>3. QED BY <1>1, <1>3, <2>2 DEF Laps
<1> DEFINE P == From(Z, n, d, u)
           Q == Shift(O, d)
           T == Shift(R, d)
<1>5. ASSUME NEW i \in 0 .. n - d
      PROVE  /\ i \in Nat /\ d + i \in 0 .. n /\ d + i \in Nat /\ P[i] = Z[d + i] - u
             /\ Z[d + i] >= u /\ Z[d] <= Z[d + i] /\ Z[d + i] \in Laps /\ Z[d + i] \in Nat
             /\ P[i] \in Laps /\ P[i] \in Nat /\ \A o : Addr(P[i], o) = Addr(Z[d + i], o)
  <2>1. i \in Nat /\ d + i \in 0 .. n /\ d + i \in Nat /\ d \in 0 .. n /\ d <= d + i /\ i <= n - d
    OBVIOUS
  <2>2. P[i] = Z[d + i] - u
    BY <2>1 DEF From
  <2>3. Z[d] <= Z[d + i] /\ Z[d + i] \in Laps /\ Z[d + i] \in Nat
    BY <1>1, <1>2, <2>1, Zenon
  <2>4. PICK x \in Laps : x = Z[d + i]
    BY <2>3
  <2>5. x >= u /\ x \in Nat
    BY <1>4, <2>3, <2>4
  <2>6. /\ x - u \in Laps /\ x - u \in Nat /\ Lap(x - u) = Lap(x)
    BY <1>1, <1>4, <2>5 DEF Laps, Lap
  <2>7. \A o : Addr(x - u, o) = Addr(x, o)
    BY <2>6, Zenon DEF Addr
  <2>8. QED BY <2>1, <2>2, <2>3, <2>4, <2>5, <2>6, <2>7
<1>6. \A i \in Nat : Q[i] = O[d + i] /\ T[i] = R[d + i]
  BY DEF Shift
<1>7. P \in [Nat -> Laps]
  <2>1. ASSUME NEW i \in Nat PROVE (IF i <= n - d THEN Z[d + i] - u ELSE 0) \in Laps
    <3>1. CASE i <= n - d
      <4>1. i \in 0 .. n - d
        BY <3>1
      <4>2. P[i] = (IF i <= n - d THEN Z[d + i] - u ELSE 0)
        BY DEF From
      <4>3. QED BY <1>5, <4>1, <4>2
    <3>2. CASE ~(i <= n - d)
      BY <1>1, <3>2 DEF Laps
    <3>3. QED BY <3>1, <3>2
  <2>2. QED BY <2>1 DEF From
<1>8. Q \in [Nat -> Offsets] /\ T \in [Nat -> Nat]
  <2>1. \A i \in Nat : d + i \in Nat
    OBVIOUS
  <2>2. QED BY <1>2, <2>1 DEF Shift
<1> HIDE DEF P, Q, T
<1>9. 0 \in 0 .. n - d /\ d + 0 = d
  OBVIOUS
<1>10. P[0] < Sectors /\ P[0] = Z[d] - u
  BY <1>1, <1>4, <1>5, <1>9
<1>11. ASSUME NEW i \in 0 .. n - d, NEW j \in 0 .. n - d, i <= j PROVE P[i] <= P[j]
  <2>1. d + i <= d + j /\ d + i \in 0 .. n /\ d + j \in 0 .. n
    BY <1>5, <1>11
  <2>2. Z[d + i] <= Z[d + j]
    BY <1>2, <2>1
  <2>3. P[i] = Z[d + i] - u /\ P[j] = Z[d + j] - u /\ Z[d + i] \in Nat /\ Z[d + j] \in Nat
    BY <1>5
  <2>4. QED BY <1>4, <2>2, <2>3
<1>12. ASSUME NEW i \in 0 .. n - d
       PROVE  P[i] < P[0] + Sectors \/ (P[i] = P[0] + Sectors /\ Q[i] = 0)
  <2>1. /\ d + i \in 0 .. n /\ d \in 0 .. n /\ P[i] = Z[d + i] - u /\ i \in Nat
        /\ Z[d + i] \in Nat
    BY <1>5
  <2>2. Z[d + i] < Z[0] + Sectors \/ (Z[d + i] = Z[0] + Sectors /\ O[d + i] = 0)
    BY <1>2, <2>1
  <2>3. Z[0] <= Z[d] /\ Q[i] = O[d + i]
    BY <1>1, <1>6, <2>1
  <2>4. PICK a, b, c \in Nat : a = Z[0] /\ b = Z[d] /\ c = Z[d + i]
    <3>1. Z[0] \in Nat /\ Z[d] \in Nat /\ Z[d + i] \in Nat
      BY <1>1, <1>4, <2>1
    <3>2. QED BY <3>1
  <2>5. a <= b /\ (c < a + Sectors \/ (c = a + Sectors /\ O[d + i] = 0))
    BY <2>2, <2>3, <2>4
  <2>6. b >= u /\ c <= b + Sectors /\ (c = b + Sectors => O[d + i] = 0)
    BY <1>1, <1>4, <2>4, <2>5
  <2>7. c - u < (b - u) + Sectors \/ (c - u = (b - u) + Sectors /\ O[d + i] = 0)
    BY <1>1, <1>4, <2>6
  <2>8. P[i] = c - u /\ P[0] = b - u
    BY <1>10, <2>1, <2>4
  <2>9. QED BY <2>3, <2>7, <2>8
<1>13. ASSUME NEW i \in 0 .. n - d, Q[i] # 0 PROVE s[Addr(P[i], 0)] # Blank
  <2>1. d + i \in 0 .. n /\ i \in Nat /\ Addr(P[i], 0) = Addr(Z[d + i], 0)
    BY <1>5
  <2>2. O[d + i] # 0
    BY <1>6, <1>13, <2>1
  <2>3. QED BY <1>2, <2>1, <2>2
<1>14. ASSUME NEW i \in 0 .. n - d - 1 PROVE Leads(s, P[i], Q[i], T[i], P[i + 1], Q[i + 1])
  <2>1. /\ i \in 0 .. n - d /\ i + 1 \in 0 .. n - d /\ d + i \in 0 .. n - 1 /\ i \in Nat
        /\ i + 1 \in Nat /\ d + (i + 1) = (d + i) + 1
    OBVIOUS
  <2>2. PICK z, x \in Laps, o \in Offsets :
          z = Z[d + i] /\ x = Z[d + (i + 1)] /\ o = O[d + i]
    <3>1. Z[d + i] \in Laps /\ Z[d + (i + 1)] \in Laps /\ O[d + i] \in Offsets
      BY <1>1, <1>5, <2>1
    <3>2. QED BY <3>1
  <2>3. Leads(s, z, o, R[d + i], x, O[d + (i + 1)])
    BY <1>2, <2>1, <2>2
  <2>4. P[i] = z - u /\ P[i + 1] = x - u /\ Q[i] = o /\ T[i] = R[d + i]
        /\ Q[i + 1] = O[d + (i + 1)] /\ z >= u /\ z \in Nat /\ x \in Nat
    BY <1>5, <1>6, <2>1, <2>2
  <2>5. Leads(s, z - u, o, R[d + i], x - u, O[d + (i + 1)])
    <3>1. CASE u = 0
      <4>1. z - u = z /\ x - u = x
        BY <2>4, <3>1
      <4>2. QED BY <2>3, <4>1
    <3>2. CASE u = Sectors
      BY <2>3, <2>4, <3>2, LeadsAgain
    <3>3. QED BY <1>4, <3>1, <3>2
  <2>6. QED BY <2>4, <2>5
<1>15. Log(s, n - d, P, Q, T)
  BY <1>7, <1>8, <1>10, <1>11, <1>12, <1>13, <1>14, Zenon DEF Log
<1>16. Restarts(s, n, Z, O, R, d, P)
  BY <1>5, <1>15 DEF Restarts, Q, T
<1>17. QED BY <1>16, Zenon

\* One more record.
LEMMA LogMore ==
  ASSUME NEW s, NEW n \in Nat, NEW Z, NEW O, NEW R, Log(s, n, Z, O, R),
         NEW r \in Nat, NEW x \in Laps, NEW q \in Offsets, Leads(s, Z[n], O[n], r, x, q),
         Z[n] <= x, x < Z[0] + Sectors \/ (x = Z[0] + Sectors /\ q = 0),
         q # 0 => s[Addr(x, 0)] # Blank
  PROVE  Log(s, n + 1, [Z EXCEPT ![n + 1] = x], [O EXCEPT ![n + 1] = q],
             [R EXCEPT ![n] = r])
<1> DEFINE P == [Z EXCEPT ![n + 1] = x]
           Q == [O EXCEPT ![n + 1] = q]
           T == [R EXCEPT ![n] = r]
<1>1. /\ Sectors \in Nat /\ Sectors >= 2 /\ Z[0] \in 0 .. Sectors - 1
      /\ \A i \in Nat : /\ Z[i] \in Laps /\ Z[i] \in Nat /\ O[i] \in Offsets /\ O[i] \in Nat
                        /\ R[i] \in Nat
      /\ \A i \in 0 .. n : Z[0] <= Z[i] /\ Z[i] <= Z[n] /\ Z[i] <= Z[0] + Sectors
  BY LogParts
<1>2. /\ Z \in [Nat -> Laps] /\ O \in [Nat -> Offsets] /\ R \in [Nat -> Nat] /\ Z[0] < Sectors
      /\ \A i, j \in 0 .. n : i <= j => Z[i] <= Z[j]
      /\ \A i \in 0 .. n : Z[i] < Z[0] + Sectors \/ (Z[i] = Z[0] + Sectors /\ O[i] = 0)
      /\ \A i \in 0 .. n : O[i] # 0 => s[Addr(Z[i], 0)] # Blank
      /\ \A i \in 0 .. n - 1 : Leads(s, Z[i], O[i], R[i], Z[i + 1], O[i + 1])
  BY Zenon DEF Log
<1>3. P \in [Nat -> Laps] /\ Q \in [Nat -> Offsets] /\ T \in [Nat -> Nat]
  BY <1>2
<1>4. /\ \A i \in Nat : i # n + 1 => P[i] = Z[i] /\ Q[i] = O[i]
      /\ \A i \in Nat : i # n => T[i] = R[i]
      /\ n + 1 \in Nat /\ P[n + 1] = x /\ Q[n + 1] = q /\ T[n] = r
  <2>1. n + 1 \in Nat /\ DOMAIN Z = Nat /\ DOMAIN O = Nat /\ DOMAIN R = Nat
    BY <1>2
  <2>2. PICK k : k = n + 1
    OBVIOUS
  <2>3. ASSUME NEW i \in Nat, i # k PROVE P[i] = Z[i] /\ Q[i] = O[i]
    BY <2>1, <2>2, <2>3, Zenon
  <2>4. ASSUME NEW i \in Nat, i # n PROVE T[i] = R[i]
    BY <2>1, <2>4, Zenon
  <2>5. P[n + 1] = x /\ Q[n + 1] = q /\ T[n] = r
    BY <2>1, Zenon
  <2>6. QED BY <2>1, <2>2, <2>3, <2>4, <2>5
<1> HIDE DEF P, Q, T
<1>5. P[0] = Z[0]
  BY <1>4
<1>6. ASSUME NEW i \in 0 .. n + 1, i # n + 1
      PROVE  i \in 0 .. n /\ i \in Nat /\ P[i] = Z[i] /\ Q[i] = O[i]
  BY <1>4, <1>6
<1>7. ASSUME NEW i \in 0 .. n + 1, NEW j \in 0 .. n + 1, i <= j PROVE P[i] <= P[j]
  <2>1. x \in Nat /\ Z[n] \in Nat
    BY <1>1 DEF Laps
  <2>2. CASE j # n + 1
    <3>1. i # n + 1
      BY <1>7, <2>2
    <3>2. QED BY <1>2, <1>6, <1>7, <2>2, <3>1
  <2>3. CASE j = n + 1 /\ i = n + 1
    BY <1>4, <2>1, <2>3
  <2>4. CASE j = n + 1 /\ i # n + 1
    <3>1. P[i] = Z[i] /\ Z[i] \in Nat /\ Z[i] <= Z[n]
      BY <1>1, <1>6, <2>4
    <3>2. QED BY <1>4, <2>1, <2>4, <3>1
  <2>5. QED BY <2>2, <2>3, <2>4
<1>8. ASSUME NEW i \in 0 .. n + 1
      PROVE  /\ P[i] < P[0] + Sectors \/ (P[i] = P[0] + Sectors /\ Q[i] = 0)
             /\ Q[i] # 0 => s[Addr(P[i], 0)] # Blank
  <2>1. CASE i = n + 1
    BY <1>4, <1>5, <2>1
  <2>2. CASE i # n + 1
    BY <1>2, <1>5, <1>6, <2>2
  <2>3. QED BY <2>1, <2>2
<1>9. ASSUME NEW i \in 0 .. n + 1 - 1 PROVE Leads(s, P[i], Q[i], T[i], P[i + 1], Q[i + 1])
  <2>1. i \in Nat /\ i # n + 1 /\ i + 1 \in Nat
    OBVIOUS
  <2>2. CASE i = n
    BY <1>4, <2>1, <2>2
  <2>3. CASE i # n
    <3>1. i + 1 # n + 1 /\ i \in 0 .. n - 1
      BY <2>3
    <3>2. QED BY <1>2, <1>4, <2>1, <2>3, <3>1
  <2>4. QED BY <2>2, <2>3
<1>10. P[0] < Sectors
  BY <1>2, <1>5
<1>11. Log(s, n + 1, P, Q, T)
  <2>0. PICK m : m = n + 1
    OBVIOUS
  <2>1. \A i, j \in 0 .. m : i <= j => P[i] <= P[j]
    BY <1>7, <2>0
  <2>2. \A i \in 0 .. m : P[i] < P[0] + Sectors \/ (P[i] = P[0] + Sectors /\ Q[i] = 0)
    BY <1>8, <2>0
  <2>3. \A i \in 0 .. m : Q[i] # 0 => s[Addr(P[i], 0)] # Blank
    BY <1>8, <2>0
  <2>4. \A i \in 0 .. m - 1 : Leads(s, P[i], Q[i], T[i], P[i + 1], Q[i + 1])
    BY <1>9, <2>0
  <2>5. Log(s, m, P, Q, T)
    BY <1>3, <1>10, <2>1, <2>2, <2>3, <2>4, Zenon DEF Log
  <2>6. QED BY <2>0, <2>5
<1>12. QED BY <1>11 DEF P, Q, T

(***************************************************************************)
(* The queue of an entry whose tail is a place of the log.                 *)
(***************************************************************************)
Reads(s) == [t \in 0 .. Region - 1 |-> RecordAt(s, t)]
Moves(s) == [t \in 0 .. Region - 1 |-> After(s, t)]
Walks(f, m, s) ==
  f = [i \in 1 .. m.count |-> IF i = 1 THEN m.tail ELSE Moves(s)[f[i - 1]]]
Walk(m, s) == CHOOSE f : Walks(f, m, s)
Run(R, x, n) == [i \in 1 .. n |-> R[x + i - 1]]

\* A queue follows its tail.
LEMMA QueueWalk ==
  ASSUME NEW m, NEW s
  PROVE  Queue(m, s) = [i \in 1 .. m.count |-> Reads(s)[Walk(m, s)[i]]]
BY Zenon DEF Queue, Walk, Walks, Reads, Moves

\* One step of it through the log.
LEMMA LogRead ==
  ASSUME NEW s, NEW n \in Nat, NEW Z, NEW O, NEW R, Log(s, n, Z, O, R), NEW i \in 0 .. n - 1
  PROVE  /\ Addr(Z[i], O[i]) \in 0 .. Region - 1
         /\ Reads(s)[Addr(Z[i], O[i])] = R[i]
         /\ Moves(s)[Addr(Z[i], O[i])] = Addr(Z[i + 1], O[i + 1])
<1>1. /\ \A j \in Nat : Z[j] \in Laps /\ O[j] \in Offsets
      /\ i \in Nat /\ i + 1 \in Nat
  <2>1. i \in Nat /\ i + 1 \in Nat
    OBVIOUS
  <2>2. \A j \in Nat : Z[j] \in Laps /\ O[j] \in Offsets
    BY LogParts
  <2>3. QED BY <2>1, <2>2
<1>2. PICK z, x \in Laps, o, q \in Offsets :
        z = Z[i] /\ x = Z[i + 1] /\ o = O[i] /\ q = O[i + 1]
  BY <1>1
<1>3. Leads(s, Z[i], O[i], R[i], Z[i + 1], O[i + 1])
  BY Zenon DEF Log
<1>4. Leads(s, z, o, R[i], x, q)
  BY <1>2, <1>3
<1>5. RecordAt(s, Addr(z, o)) = R[i] /\ After(s, Addr(z, o)) = Addr(x, q)
  BY <1>4, LeadsRead
<1>6. Addr(z, o) \in 0 .. Region - 1
  BY AddrParts
<1>7. QED BY <1>2, <1>5, <1>6 DEF Reads, Moves

\* Places and records of a queue.
LEMMA QueueValue ==
  ASSUME NEW s, NEW n \in Nat, NEW Z, NEW O, NEW R, Log(s, n, Z, O, R),
         NEW m, m.count \in Nat, NEW x \in Nat, x + m.count <= n,
         m.tail = Addr(Z[x], O[x])
  PROVE  Queue(m, s) = Run(R, x, m.count)
<1> DEFINE A == [i \in 1 .. m.count |-> Addr(Z[x + i - 1], O[x + i - 1])]
<1>1. PICK c \in Nat : c = m.count
  OBVIOUS
<1>2. ASSUME NEW i \in 1 .. c
      PROVE  /\ i \in Nat /\ x + i - 1 \in 0 .. n - 1 /\ A[i] = Addr(Z[x + i - 1], O[x + i - 1])
             /\ Reads(s)[A[i]] = R[x + i - 1]
             /\ Moves(s)[A[i]] = Addr(Z[x + i], O[x + i])
  <2>1. i \in Nat /\ x + i - 1 \in 0 .. n - 1 /\ (x + i - 1) + 1 = x + i
    BY <1>1
  <2>2. A[i] = Addr(Z[x + i - 1], O[x + i - 1])
    BY <1>1
  <2>3. /\ Reads(s)[Addr(Z[x + i - 1], O[x + i - 1])] = R[x + i - 1]
        /\ Moves(s)[Addr(Z[x + i - 1], O[x + i - 1])]
             = Addr(Z[(x + i - 1) + 1], O[(x + i - 1) + 1])
    BY <2>1, LogRead
  <2>4. QED BY <2>1, <2>2, <2>3
<1>3. A = [i \in 1 .. c |-> A[i]]
  BY <1>1
<1> HIDE DEF A
<1>4. c > 0 => A[1] = m.tail
  <2>1. c > 0 => 1 \in 1 .. c /\ x + 1 - 1 = x
    BY <1>1
  <2>2. QED BY <1>2, <2>1
<1>5. ASSUME NEW i \in 1 .. c, i # 1 PROVE A[i] = Moves(s)[A[i - 1]]
  <2>1. i - 1 \in 1 .. c /\ x + (i - 1) = x + i - 1
    BY <1>1, <1>5
  <2>2. QED BY <1>2, <2>1
<1>6. Walks(A, m, s)
  <2>1. \A i \in 1 .. c : A[i] = IF i = 1 THEN m.tail ELSE Moves(s)[A[i - 1]]
    <3>1. \A i \in 1 .. c : c > 0
      BY <1>1
    <3>2. QED BY <1>4, <1>5, <3>1
  <2>2. A = [i \in 1 .. c |-> IF i = 1 THEN m.tail ELSE Moves(s)[A[i - 1]]]
    BY <1>3, <2>1
  <2>3. QED BY <1>1, <2>2 DEF Walks
<1>7. PICK f : f = Walk(m, s)
  OBVIOUS
<1>8. Walks(f, m, s)
  BY <1>6, <1>7, Zenon DEF Walk
<1>9. \A i \in 1 .. c : f[i] = IF i = 1 THEN m.tail ELSE Moves(s)[f[i - 1]]
  BY <1>1, <1>8 DEF Walks
<1>10. \A i \in 1 .. c : f[i] = A[i]
  <2> DEFINE T == {i \in 1 .. c : f[i] # A[i]}
  <2>1. SUFFICES ASSUME T # {} PROVE FALSE
    OBVIOUS
  <2>2. T \in SUBSET Nat
    BY <1>1
  <2>3. PICK i \in T : \A y \in T : i <= y
    BY <2>1, <2>2, Least
  <2>4. i \in 1 .. c /\ f[i] # A[i] /\ i \in Nat
    BY <1>1
  <2>5. CASE i = 1
    BY <1>1, <1>4, <1>9, <2>4, <2>5
  <2>6. CASE i # 1
    <3>1. i - 1 \in 1 .. c /\ ~(i <= i - 1)
      BY <1>1, <2>4, <2>6
    <3>2. f[i - 1] = A[i - 1]
      BY <2>3, <3>1
    <3>3. QED BY <1>5, <1>9, <2>4, <2>6, <3>2
  <2>7. QED BY <2>5, <2>6
<1>11. \A i \in 1 .. c : Reads(s)[f[i]] = R[x + i - 1]
  BY <1>2, <1>10
<1>12. Queue(m, s) = [i \in 1 .. c |-> Reads(s)[f[i]]]
  BY <1>1, <1>7, QueueWalk
<1>13. QED BY <1>1, <1>11, <1>12 DEF Run

\* An entry without records has none.
LEMMA EmptyQueue ==
  ASSUME NEW m, NEW s, m.count = 0 PROVE Queue(m, s) = <<>>
<1>1. \A f : [i \in 1 .. 0 |-> f[i]] = <<>>
  OBVIOUS
<1>2. Queue(m, s) = [i \in 1 .. 0 |-> Reads(s)[Walk(m, s)[i]]]
  BY QueueWalk
<1>3. QED BY <1>2

\* A queue as a sequence: what it holds, the oldest taken, one added.
LEMMA RunParts ==
  ASSUME NEW R \in [Nat -> Nat], NEW x \in Nat, NEW n \in Nat
  PROVE  /\ Run(R, x, n) \in Seq(Nat) /\ Len(Run(R, x, n)) = n
         /\ \A i \in 1 .. n : Run(R, x, n)[i] = R[x + i - 1] /\ x + i - 1 \in Nat
<1>1. \A i \in 1 .. n : x + i - 1 \in Nat
  OBVIOUS
<1>2. Run(R, x, n) \in [1 .. n -> Nat]
  BY <1>1 DEF Run
<1>3. Run(R, x, n) \in Seq(Nat) /\ Len(Run(R, x, n)) = n
  <2>1. PICK q \in [1 .. n -> Nat] : q = Run(R, x, n)
    BY <1>2
  <2>2. q \in Seq(Nat) /\ Len(q) = n
    OBVIOUS
  <2>3. QED BY <2>1, <2>2
<1>4. QED BY <1>1, <1>3 DEF Run

\* The oldest record taken.
LEMMA RunTail ==
  ASSUME NEW R \in [Nat -> Nat], NEW x \in Nat, NEW n \in Nat, n # 0
  PROVE  Run(R, x, n) # <<>> /\ Run(R, x + 1, n - 1) = Tail(Run(R, x, n))
<1>1. PICK q, p : q = Run(R, x, n) /\ p = Run(R, x + 1, n - 1)
  OBVIOUS
<1>2. q \in Seq(Nat) /\ Len(q) = n /\ \A i \in 1 .. n : q[i] = R[x + i - 1]
  BY <1>1, RunParts
<1>3. /\ p \in Seq(Nat) /\ Len(p) = n - 1
      /\ \A i \in 1 .. n - 1 : p[i] = R[x + 1 + i - 1]
  <2>1. x + 1 \in Nat /\ n - 1 \in Nat
    OBVIOUS
  <2>2. QED BY <1>1, <2>1, RunParts
<1>4. q # <<>>
  BY <1>2
<1>5. /\ Tail(q) \in Seq(Nat) /\ Len(Tail(q)) = n - 1
      /\ \A i \in 1 .. n - 1 : Tail(q)[i] = q[i + 1]
  BY <1>2, <1>4, HeadTailProperties
<1>6. ASSUME NEW i \in 1 .. n - 1 PROVE p[i] = Tail(q)[i]
  <2>1. i + 1 \in 1 .. n /\ x + 1 + i - 1 = x + (i + 1) - 1
    OBVIOUS
  <2>2. QED BY <1>2, <1>3, <1>5, <2>1
<1>7. p = Tail(q)
  BY <1>3, <1>5, <1>6, SeqEqual
<1>8. QED BY <1>1, <1>4, <1>7

\* One added.
LEMMA RunAppend ==
  ASSUME NEW R \in [Nat -> Nat], NEW x \in Nat, NEW n \in Nat, NEW r \in Nat
  PROVE  Run([R EXCEPT ![x + n] = r], x, n + 1) = Append(Run(R, x, n), r)
<1> DEFINE T == [R EXCEPT ![x + n] = r]
<1>1. T \in [Nat -> Nat] /\ x + n \in Nat
  OBVIOUS
<1>2. T[x + n] = r /\ \A i \in Nat : i # x + n => T[i] = R[i]
  <2>1. PICK k \in Nat : k = x + n
    OBVIOUS
  <2>2. T = [R EXCEPT ![k] = r]
    BY <2>1
  <2>3. QED BY <2>1, <2>2
<1> HIDE DEF T
<1>3. PICK q, p : q = Run(R, x, n) /\ p = Run(T, x, n + 1)
  OBVIOUS
<1>4. q \in Seq(Nat) /\ Len(q) = n /\ \A i \in 1 .. n : q[i] = R[x + i - 1]
  BY <1>3, RunParts
<1>5. /\ p \in Seq(Nat) /\ Len(p) = n + 1
      /\ \A i \in 1 .. n + 1 : p[i] = T[x + i - 1]
  <2>1. PICK m \in Nat : m = n + 1
    OBVIOUS
  <2>2. PICK U \in [Nat -> Nat] : U = T
    BY <1>1
  <2>3. /\ Run(U, x, m) \in Seq(Nat) /\ Len(Run(U, x, m)) = m
        /\ \A i \in 1 .. m : Run(U, x, m)[i] = U[x + i - 1]
    BY RunParts
  <2>4. QED BY <1>3, <2>1, <2>2, <2>3
<1>6. /\ Append(q, r) \in Seq(Nat) /\ Len(Append(q, r)) = n + 1
      /\ Append(q, r)[n + 1] = r
      /\ \A i \in 1 .. n : Append(q, r)[i] = q[i]
  <2>1. PICK u \in Seq(Nat) : u = q
    BY <1>4
  <2>2. /\ Append(u, r) \in Seq(Nat) /\ Len(Append(u, r)) = Len(u) + 1
        /\ Append(u, r)[Len(u) + 1] = r
        /\ \A i \in 1 .. Len(u) : Append(u, r)[i] = u[i]
    BY AppendProperties
  <2>3. QED BY <1>4, <2>1, <2>2, Zenon
<1>7. ASSUME NEW i \in 1 .. n + 1 PROVE p[i] = Append(q, r)[i]
  <2>1. CASE i = n + 1
    <3>1. x + i - 1 = x + n
      BY <2>1
    <3>2. QED BY <1>2, <1>5, <1>6, <2>1, <3>1
  <2>2. CASE i # n + 1
    <3>1. i \in 1 .. n /\ x + i - 1 \in Nat /\ x + i - 1 # x + n
      BY <2>2
    <3>2. QED BY <1>2, <1>4, <1>5, <1>6, <3>1
  <2>3. QED BY <2>1, <2>2
<1>8. p = Append(q, r)
  BY <1>5, <1>6, <1>7, SeqEqual
<1>9. QED BY <1>3, <1>8 DEF T

(***************************************************************************)
(* The journal while no hazard has struck.  Its sound entries lie before   *)
(* the first blank one, and their sequence numbers rise within a sector    *)
(* and differ between the two.                                             *)
(***************************************************************************)
Places == 0 .. Entries - 1
Ok(j, b, i) == j[b][i].st = "ok"
NoGap(j) ==
  \A b \in {0, 1}, i \in Places, k \in Places : i <= k /\ j[b][i].st = "blank" => ~Ok(j, b, k)
Rising(j) ==
  \A b \in {0, 1}, i \in Places, k \in Places :
    i < k /\ Ok(j, b, i) /\ Ok(j, b, k) => j[b][i].seq < j[b][k].seq
Apart(j) ==
  \A i \in Places, k \in Places : Ok(j, 0, i) /\ Ok(j, 1, k) => j[0][i].seq # j[1][k].seq
Firm(j) == NoGap(j) /\ Rising(j) /\ Apart(j)
\* Entry i of sector b is the newest; there is none at all.
Tops(j, b, i) ==
  Ok(j, b, i) /\ \A c \in {0, 1}, k \in Places : Ok(j, c, k) => j[c][k].seq <= j[b][i].seq
Nothing(j) == \A b \in {0, 1}, i \in Places : ~Ok(j, b, i)

\* Entries have a sequence number.
LEMMA EntryNumber ==
  ASSUME NEW n \in Nat, NEW j \in Journals(n), NEW b \in {0, 1}, NEW i \in Places
  PROVE  j[b][i] \in EntryBelow(n) /\ j[b][i].seq \in Nat
BY DEF Journals, SectorOfEntries, EntryBelow, Places

\* The scan finds the sound entries.
LEMMA ScanFinds ==
  ASSUME NEW j, NoGap(j)
  PROVE  /\ \A b \in {0, 1}, i \in Places : Ok(j, b, i) => <<b, i>> \in Candidates(j)
         /\ \A p \in Candidates(j) : \E b \in {0, 1}, i \in Places : p = <<b, i>> /\ Ok(j, b, i)
<1>1. ASSUME NEW b \in {0, 1}, NEW i \in Places, Ok(j, b, i)
      PROVE  <<b, i>> \in Candidates(j)
  <2>1. ASSUME NEW k \in 0 .. i PROVE j[b][k].st # "blank"
    <3>1. k \in Places /\ k <= i
      BY Geometry DEF Places
    <3>2. QED BY <1>1, <3>1 DEF NoGap
  <2>2. i \in Scanned(j, b)
    BY <1>1, <2>1 DEF Scanned, Ok, Places
  <2>3. QED BY <2>2 DEF Candidates
<1>2. ASSUME NEW p \in Candidates(j)
      PROVE  \E b \in {0, 1}, i \in Places : p = <<b, i>> /\ Ok(j, b, i)
  BY DEF Candidates, Scanned, Ok, Places
<1>3. QED BY <1>1, <1>2

\* The newest entry is the one a reset brings back; there is just one.
LEMMA BestIs ==
  ASSUME NEW n \in Nat, NEW j \in Journals(n), Firm(j), NEW b \in {0, 1}, NEW i \in Places,
         Tops(j, b, i)
  PROVE  /\ Best(j) = j[b][i] /\ Candidates(j) # {}
         /\ \A p \in Candidates(j) : IsBest(j, p) => p = <<b, i>>
<1>1. <<b, i>> \in Candidates(j) /\ Ok(j, b, i)
  BY ScanFinds DEF Firm, Tops
<1>2. \A c \in {0, 1}, k \in Places : j[c][k].seq \in Nat
  BY EntryNumber
<1>3. ASSUME NEW p \in Candidates(j), IsBest(j, p) PROVE p = <<b, i>>
  <2>1. PICK c \in {0, 1}, k \in Places : p = <<c, k>> /\ Ok(j, c, k)
    BY ScanFinds DEF Firm
  <2>2. j[b][i].seq <= j[c][k].seq
    BY <1>1, <1>3, <2>1 DEF IsBest
  <2>3. j[c][k].seq <= j[b][i].seq
    BY <2>1 DEF Tops
  <2>4. PICK u, v \in Nat : u = j[b][i].seq /\ v = j[c][k].seq
    BY <1>2
  <2>5. u = v
    BY <2>2, <2>3, <2>4
  <2>6. c = b
    <3>1. CASE b = 0 /\ c = 1
      BY <1>1, <2>1, <2>4, <2>5, <3>1 DEF Firm, Apart
    <3>2. CASE b = 1 /\ c = 0
      BY <1>1, <2>1, <2>4, <2>5, <3>2 DEF Firm, Apart
    <3>3. QED BY <3>1, <3>2
  <2>7. i \in Nat /\ k \in Nat
    BY Geometry DEF Places
  <2>8. ~(i < k) /\ ~(k < i)
    <3>1. i < k => u < v
      BY <1>1, <2>1, <2>4, <2>6 DEF Firm, Rising
    <3>2. k < i => v < u
      BY <1>1, <2>1, <2>4, <2>6 DEF Firm, Rising
    <3>3. QED BY <2>4, <2>5, <3>1, <3>2
  <2>9. QED BY <2>1, <2>6, <2>7, <2>8
<1>4. IsBest(j, <<b, i>>)
  <2>1. ASSUME NEW q \in Candidates(j) PROVE j[q[1]][q[2]].seq <= j[b][i].seq
    <3>1. PICK c \in {0, 1}, k \in Places : q = <<c, k>> /\ Ok(j, c, k)
      BY ScanFinds DEF Firm
    <3>2. QED BY <3>1 DEF Tops
  <2>2. QED BY <1>1, <2>1 DEF IsBest
<1>5. PICK p : p = CHOOSE q \in Candidates(j) : IsBest(j, q)
  OBVIOUS
<1>6. p \in Candidates(j) /\ IsBest(j, p)
  BY <1>1, <1>4, <1>5, Zenon
<1>7. p = <<b, i>>
  BY <1>3, <1>6
<1>8. Best(j) = j[p[1]][p[2]]
  BY <1>1, <1>5, Zenon DEF Best
<1>9. QED BY <1>1, <1>3, <1>7, <1>8

\* Without a sound entry there is none.
LEMMA BestOfNothing ==
  ASSUME NEW j
  PROVE  /\ Candidates(j) = {} => Best(j) = NoEntry
         /\ NoGap(j) => (Candidates(j) = {} <=> Nothing(j))
<1>1. Candidates(j) = {} => Best(j) = NoEntry
  BY Zenon DEF Best
<1>2. ASSUME NoGap(j), Candidates(j) = {} PROVE Nothing(j)
  BY <1>2, ScanFinds DEF Nothing
<1>3. ASSUME NoGap(j), Nothing(j) PROVE Candidates(j) = {}
  BY <1>3, ScanFinds DEF Nothing
<1>4. QED BY <1>1, <1>2, <1>3

\* t is j with sound entries lost.
Thinner(t, j) ==
  NoGap(t) /\ \A b \in {0, 1}, i \in Places : Ok(t, b, i) => t[b][i] = j[b][i]

\* The others are in order still.
LEMMA ThinnerFirm ==
  ASSUME NEW j, NEW t, Firm(j), Thinner(t, j)
  PROVE  /\ Firm(t) /\ (Nothing(j) => Nothing(t))
         /\ \A b \in {0, 1}, i \in Places : Tops(j, b, i) /\ Ok(t, b, i) => Tops(t, b, i)
         /\ \A b \in {0, 1}, i \in Places : Ok(t, b, i) => Ok(j, b, i)
<1>1. \A b \in {0, 1}, i \in Places : Ok(t, b, i) => t[b][i] = j[b][i] /\ Ok(j, b, i)
  BY DEF Thinner, Ok
<1>2. Rising(t) /\ Apart(t)
  BY <1>1 DEF Firm, Rising, Apart
<1>3. QED BY <1>1, <1>2 DEF Firm, Thinner, Nothing, Tops

\* t is j with a sound entry written at place v of sector w.
Added(t, j, w, v) ==
  /\ Ok(t, w, v)
  /\ \A b \in {0, 1}, i \in Places : b # w \/ i # v => t[b][i] = j[b][i]

\* Newer than all others, where the written part of its sector ends, it is the one
\* that counts.
LEMMA AddedFirm ==
  ASSUME NEW n \in Nat, NEW j \in Journals(n), NEW t, Firm(j),
         NEW w \in {0, 1}, NEW v \in Places, Added(t, j, w, v), t[w][v].seq \in Nat,
         \A b \in {0, 1}, i \in Places : Ok(j, b, i) => j[b][i].seq < t[w][v].seq,
         \A i \in Places : i < v => j[w][i].st # "blank",
         \A i \in Places : i > v => ~Ok(j, w, i)
  PROVE  Firm(t) /\ Tops(t, w, v)
<1>1. /\ Ok(t, w, v) /\ t[w][v].st = "ok" /\ v \in Nat /\ Places \subseteq Nat
      /\ \A b \in {0, 1}, i \in Places : b # w \/ i # v => t[b][i] = j[b][i]
  BY Geometry DEF Added, Ok, Places
<1>2. \A b \in {0, 1}, i \in Places : j[b][i].seq \in Nat
  BY EntryNumber
<1>3. PICK q \in Nat : q = t[w][v].seq
  OBVIOUS
<1>4. \A b \in {0, 1}, i \in Places :
        (b # w \/ i # v) /\ Ok(t, b, i) => Ok(j, b, i) /\ t[b][i].seq < q
  BY <1>1, <1>3 DEF Ok
<1>5. NoGap(t)
  <2>1. SUFFICES ASSUME NEW b \in {0, 1}, NEW i \in Places, NEW k \in Places, i <= k,
                        t[b][i].st = "blank", Ok(t, b, k)
                 PROVE  FALSE
    BY DEF NoGap
  <2>2. b # w \/ i # v
    BY <1>1, <2>1
  <2>3. j[b][i].st = "blank"
    BY <1>1, <2>1, <2>2
  <2>4. CASE b = w /\ k = v
    <3>1. i < v
      BY <1>1, <2>1, <2>2, <2>4
    <3>2. QED BY <2>3, <2>4, <3>1
  <2>5. CASE ~(b = w /\ k = v)
    <3>1. Ok(j, b, k)
      BY <1>4, <2>1, <2>5
    <3>2. QED BY <2>1, <2>3, <3>1 DEF Firm, NoGap
  <2>6. QED BY <2>4, <2>5
<1>6. Rising(t)
  <2>1. SUFFICES ASSUME NEW b \in {0, 1}, NEW i \in Places, NEW k \in Places, i < k,
                        Ok(t, b, i), Ok(t, b, k)
                 PROVE  t[b][i].seq < t[b][k].seq
    BY DEF Rising
  <2>2. CASE b = w /\ k = v
    <3>1. i # v
      BY <1>1, <2>1, <2>2
    <3>2. QED BY <1>3, <1>4, <2>1, <2>2, <3>1
  <2>3. CASE b = w /\ i = v
    <3>1. k > v /\ k # v
      BY <1>1, <2>1, <2>3
    <3>2. Ok(j, w, k)
      BY <1>4, <2>1, <2>3, <3>1
    <3>3. QED BY <3>1, <3>2
  <2>4. CASE b # w \/ (i # v /\ k # v)
    BY <1>1, <1>4, <2>1, <2>4 DEF Firm, Rising
  <2>5. QED BY <2>2, <2>3, <2>4
<1>7. Apart(t)
  <2>1. SUFFICES ASSUME NEW i \in Places, NEW k \in Places, Ok(t, 0, i), Ok(t, 1, k)
                 PROVE  t[0][i].seq # t[1][k].seq
    BY DEF Apart
  <2>2. CASE w = 0 /\ i = v
    <3>1. t[1][k].seq < q /\ t[1][k] = j[1][k]
      BY <1>1, <1>4, <2>1, <2>2
    <3>2. QED BY <1>2, <1>3, <2>2, <3>1
  <2>3. CASE w = 1 /\ k = v
    <3>1. t[0][i].seq < q /\ t[0][i] = j[0][i]
      BY <1>1, <1>4, <2>1, <2>3
    <3>2. QED BY <1>2, <1>3, <2>3, <3>1
  <2>4. CASE ~(w = 0 /\ i = v) /\ ~(w = 1 /\ k = v)
    BY <1>1, <1>4, <2>1, <2>4 DEF Firm, Apart
  <2>5. QED BY <2>2, <2>3, <2>4
<1>8. Tops(t, w, v)
  <2>1. ASSUME NEW c \in {0, 1}, NEW k \in Places, Ok(t, c, k) PROVE t[c][k].seq <= t[w][v].seq
    <3>1. CASE c = w /\ k = v
      BY <1>3, <3>1
    <3>2. CASE c # w \/ k # v
      <4>1. t[c][k].seq < q /\ t[c][k].seq \in Nat
        BY <1>1, <1>2, <1>4, <2>1, <3>2
      <4>2. QED BY <1>3, <4>1
    <3>3. QED BY <3>1, <3>2
  <2>2. QED BY <1>1, <2>1 DEF Tops
<1>9. QED BY <1>5, <1>6, <1>7, <1>8 DEF Firm

\* Of journal j: its sound entries are older than q; those of the active sector
\* lie before index, and the newest of all is among them.
Older(j, q) == \A b \in {0, 1}, i \in Places : Ok(j, b, i) => j[b][i].seq < q
Unused(j) == \A i \in Places : i >= index => ~Ok(j, active, i)
Newest(j) == Nothing(j) \/ \E i \in Places : i < index /\ Tops(j, active, i)
Firmness ==
  /\ Firm(journal)
  /\ Running => Older(journal, meta.seq + 1) /\ Unused(journal) /\ Newest(journal)
  /\ pc \in Appending => Older(journal, meta.seq)
  /\ pc = "roll" => \A i \in Places : ~Ok(journal, RollTarget, i)
  /\ ~Running /\ pc # "off" => Nothing(journal)
  /\ pc \in Appending /\ op = "reset" =>
       /\ Nothing(journal) /\ ~ready
       /\ meta = Entry(1, 0, 0, 0) /\ active = 0 /\ index = 0

\* The journal an operation leaves, entry by entry.
LEMMA JournalEntries ==
  ASSUME Sane, NEW e, NEW b \in {0, 1}, NEW i \in Places
  PROVE  /\ pc = "append" => index \in Places
         /\ index \in Places => SlotWritten(e)[b][i] = IF b = active /\ i = index THEN e ELSE journal[b][i]
         /\ RollErased(e)[b][i] = IF b = RollTarget THEN e ELSE journal[b][i]
         /\ RollWritten(e)[b][i] = IF b = RollTarget /\ i = 0 THEN e ELSE journal[b][i]
         /\ \A c \in {0, 1} : JournalErased(c, e)[b][i] = IF b = c THEN e ELSE journal[b][i]
<1>1. /\ active \in {0, 1} /\ RollTarget \in {0, 1} /\ 0 \in Places
      /\ journal \in [{0, 1} -> [Places -> EntryBelow(next)]]
  BY JournalShape DEF Places
<1>2. pc = "append" => index \in Places
  BY Geometry DEF Sane, Data, Control, Places
<1>3. index \in Places => SlotWritten(e)[b][i] = IF b = active /\ i = index THEN e ELSE journal[b][i]
  BY <1>1 DEF SlotWritten
<1>4. RollWritten(e)[b][i] = IF b = RollTarget /\ i = 0 THEN e ELSE journal[b][i]
  BY <1>1 DEF RollWritten
<1>5. \A c \in {0, 1} : JournalErased(c, e)[b][i] = IF b = c THEN e ELSE journal[b][i]
  BY <1>1 DEF JournalErased, Places
<1>6. RollErased(e)[b][i] = IF b = RollTarget THEN e ELSE journal[b][i]
  BY <1>1, <1>5 DEF RollErased
<1>7. QED BY <1>2, <1>3, <1>4, <1>5, <1>6

\* What is changed is not sound, and blank only in a sector without sound entries.
LEMMA DullThinner ==
  ASSUME NEW j, NEW t, NoGap(j),
         \A b \in {0, 1}, i \in Places :
           \/ t[b][i] = j[b][i]
           \/ ~Ok(t, b, i) /\ (t[b][i].st # "blank" \/ \A k \in Places : ~Ok(t, b, k))
  PROVE  Thinner(t, j)
<1>1. \A b \in {0, 1}, i \in Places : Ok(t, b, i) => t[b][i] = j[b][i]
  OBVIOUS
<1>2. ASSUME NEW b \in {0, 1}, NEW i \in Places, NEW k \in Places, i <= k,
             t[b][i].st = "blank", Ok(t, b, k)
      PROVE  FALSE
  <2>1. t[b][i] = j[b][i] /\ t[b][k] = j[b][k]
    BY <1>1, <1>2
  <2>2. QED BY <1>2, <2>1 DEF NoGap, Ok
<1>3. QED BY <1>1, <1>2 DEF Thinner, NoGap

\* What an append or a reset, whatever becomes of it, makes of the journal: sound
\* entries are lost, or the metadata are added.
Adds(t) ==
  \/ pc = "append" /\ Added(t, journal, active, index) /\ t[active][index] = meta
  \/ pc = "roll" /\ Added(t, journal, RollTarget, 0) /\ t[RollTarget][0] = meta

\* Nothing else happens.
LEMMA OutcomeKinds ==
  ASSUME Sane, JournalInOrder, Firmness, NEW t \in JournalOutcomes
  PROVE  Thinner(t, journal) \/ Adds(t)
<1>1. /\ NoGap(journal) /\ active \in {0, 1} /\ RollTarget \in {0, 1} /\ 0 \in Places
  BY JournalShape DEF Firmness, Firm, Places
<1>2. BadEntry.st = "junk" /\ NoEntry.st = "blank"
  BY DEF BadEntry, NoEntry
<1>3. CASE t = journal
  <2>1. Thinner(journal, journal)
    BY <1>1, DullThinner
  <2>2. QED BY <1>3, <2>1
<1>4. ASSUME pc \in Appending PROVE meta.st = "ok"
  BY <1>4, Zenon DEF JournalInOrder, Running
<1>5. CASE pc = "append"
  <2>1. index \in Places
    BY <1>1, <1>5, JournalEntries
  <2>2. \A e : \A b \in {0, 1}, i \in Places :
          SlotWritten(e)[b][i] = IF b = active /\ i = index THEN e ELSE journal[b][i]
    BY <2>1, JournalEntries
  <2>3. t \in {journal, SlotWritten(BadEntry), SlotWritten(meta)}
    BY <1>5 DEF JournalOutcomes, Programmed
  <2>4. CASE t = SlotWritten(BadEntry)
    <3>1. \A b \in {0, 1}, i \in Places :
            t[b][i] = journal[b][i] \/ (~Ok(t, b, i) /\ t[b][i].st # "blank")
      BY <1>2, <2>2, <2>4 DEF Ok
    <3>2. QED BY <1>1, <3>1, DullThinner
  <2>5. CASE t = SlotWritten(meta)
    <3>1. t[active][index] = meta
      BY <1>1, <2>1, <2>2, <2>5
    <3>2. \A b \in {0, 1}, i \in Places : b # active \/ i # index => t[b][i] = journal[b][i]
      BY <2>2, <2>5
    <3>3. pc \in Appending
      BY <1>5 DEF Appending
    <3>4. Added(t, journal, active, index)
      BY <1>4, <3>1, <3>2, <3>3 DEF Added, Ok
    <3>5. QED BY <1>5, <3>1, <3>4 DEF Adds
  <2>6. QED BY <1>3, <2>3, <2>4, <2>5
<1>6. CASE pc = "rollErase"
  <2>1. t = journal \/ \E e \in {BadEntry, NoEntry} : t = RollErased(e)
    BY <1>6 DEF JournalOutcomes
  <2>2. ASSUME NEW e \in {BadEntry, NoEntry}, t = RollErased(e) PROVE Thinner(t, journal)
    <3>1. \A b \in {0, 1}, i \in Places : t[b][i] = IF b = RollTarget THEN e ELSE journal[b][i]
      BY <2>2, JournalEntries
    <3>2. \A i \in Places : ~Ok(t, RollTarget, i)
      BY <1>1, <1>2, <3>1 DEF Ok
    <3>3. QED BY <1>1, <3>1, <3>2, DullThinner
  <2>3. QED BY <1>3, <2>1, <2>2
<1>7. CASE pc = "roll"
  <2>1. t = journal \/ t = RollWritten(BadEntry) \/ t = RollWritten(meta)
    BY <1>7 DEF JournalOutcomes
  <2>2. \A e : \A b \in {0, 1}, i \in Places :
          RollWritten(e)[b][i] = IF b = RollTarget /\ i = 0 THEN e ELSE journal[b][i]
    BY JournalEntries
  <2>3. CASE t = RollWritten(BadEntry)
    <3>1. \A b \in {0, 1}, i \in Places :
            t[b][i] = journal[b][i] \/ (~Ok(t, b, i) /\ t[b][i].st # "blank")
      BY <1>2, <2>2, <2>3 DEF Ok
    <3>2. QED BY <1>1, <3>1, DullThinner
  <2>4. CASE t = RollWritten(meta)
    <3>1. t[RollTarget][0] = meta
      BY <1>1, <2>2, <2>4
    <3>2. \A b \in {0, 1}, i \in Places : b # RollTarget \/ i # 0 => t[b][i] = journal[b][i]
      BY <2>2, <2>4
    <3>3. pc \in Appending
      BY <1>7 DEF Appending
    <3>4. Added(t, journal, RollTarget, 0)
      BY <1>4, <3>1, <3>2, <3>3 DEF Added, Ok
    <3>5. QED BY <1>7, <3>1, <3>4 DEF Adds
  <2>5. QED BY <1>3, <2>1, <2>3, <2>4
<1>8. CASE pc = "reset"
  <2>1. t = journal \/ \E c \in {0, 1}, e \in {BadEntry, NoEntry} : t = JournalErased(c, e)
    BY <1>8 DEF JournalOutcomes
  <2>2. ASSUME NEW c \in {0, 1}, NEW e \in {BadEntry, NoEntry}, t = JournalErased(c, e)
        PROVE  Thinner(t, journal)
    <3>1. \A b \in {0, 1}, i \in Places : t[b][i] = IF b = c THEN e ELSE journal[b][i]
      BY <2>2, JournalEntries
    <3>2. \A i \in Places : ~Ok(t, c, i)
      BY <1>2, <3>1 DEF Ok
    <3>3. QED BY <1>1, <3>1, <3>2, DullThinner
  <2>3. QED BY <1>3, <2>1, <2>2
<1>9. CASE pc \notin {"append", "rollErase", "roll", "reset"}
  <2>1. t = journal
    BY <1>9 DEF JournalOutcomes
  <2>2. QED BY <1>3, <2>1
<1>10. QED BY <1>5, <1>6, <1>7, <1>8, <1>9

\* With sound entries lost, the journal brings back what it did ...
LEMMA ThinnerSame ==
  ASSUME Sane, Firmness, NEW t \in JournalOutcomes, Thinner(t, journal)
  PROVE  /\ Firm(t) /\ Best(t) = Best(journal) /\ (Nothing(journal) => Nothing(t))
         /\ \A q : Older(journal, q) => Older(t, q)
         /\ Unused(journal) => Unused(t)
         /\ Running => Newest(t)
         /\ \A b \in {0, 1}, i \in Places : Ok(t, b, i) => Ok(journal, b, i)
<1>1. /\ Firm(journal) /\ Firm(t) /\ (Nothing(journal) => Nothing(t))
      /\ \A b \in {0, 1}, i \in Places : Ok(t, b, i) => Ok(journal, b, i)
      /\ \A b \in {0, 1}, i \in Places : Tops(journal, b, i) /\ Ok(t, b, i) => Tops(t, b, i)
  BY ThinnerFirm DEF Firmness
<1>2. \A b \in {0, 1}, i \in Places : Ok(t, b, i) => t[b][i] = journal[b][i]
  BY DEF Thinner
<1>3. \A q : Older(journal, q) => Older(t, q)
  BY <1>1, <1>2 DEF Older
<1>4. Unused(journal) => Unused(t)
  BY <1>1, JournalShape DEF Unused
<1>5. CASE Nothing(journal)
  <2>1. Nothing(t) /\ NoGap(t) /\ NoGap(journal)
    BY <1>1, <1>5 DEF Firm
  <2>2. Best(t) = NoEntry /\ Best(journal) = NoEntry
    BY <1>5, <2>1, BestOfNothing
  <2>3. QED BY <1>1, <1>3, <1>4, <2>1, <2>2 DEF Newest
<1>6. CASE ~Nothing(journal) /\ Running
  <2>1. PICK i \in Places : i < index /\ Tops(journal, active, i)
    BY <1>6 DEF Firmness, Newest
  <2>2. i \in 0 .. index - 1 /\ active \in {0, 1} /\ pc # "reset"
    BY <1>6, <2>1, JournalShape DEF Places, Running, Appending
  <2>3. t[active][i] = journal[active][i]
    BY <2>2, Untouched
  <2>4. Ok(t, active, i) /\ Tops(t, active, i)
    BY <1>1, <2>1, <2>2, <2>3 DEF Tops, Ok
  <2>5. /\ t \in Journals(next) /\ journal \in Journals(next) /\ next \in Nat
    BY JournalOutcomesType DEF Sane, Data
  <2>6. Best(t) = t[active][i] /\ Best(journal) = journal[active][i]
    BY <1>1, <2>1, <2>2, <2>4, <2>5, BestIs
  <2>7. Newest(t)
    BY <2>1, <2>4 DEF Newest
  <2>8. QED BY <1>1, <1>3, <1>4, <1>6, <2>3, <2>6, <2>7
<1>7. CASE ~Running /\ pc = "off"
  <2>1. t = journal
    BY <1>7 DEF JournalOutcomes
  <2>2. QED BY <1>1, <1>3, <1>4, <1>7, <2>1
<1>8. QED BY <1>5, <1>6, <1>7 DEF Firmness

\* ... and with the metadata added it brings back these.
LEMMA AddsNew ==
  ASSUME Sane, JournalInOrder, Firmness, NEW t \in JournalOutcomes, Adds(t)
  PROVE  /\ Firm(t) /\ Best(t) = meta /\ Older(t, meta.seq + 1)
         /\ pc = "append" => Tops(t, active, index)
         /\ pc = "roll" => Tops(t, RollTarget, 0)
<1>1. /\ pc \in {"append", "roll"} /\ pc \in Appending /\ Running
  BY DEF Adds, Running, Appending
<1>2. /\ Firm(journal) /\ Older(journal, meta.seq) /\ Unused(journal) /\ Filled(journal)
      /\ pc = "roll" => \A i \in Places : ~Ok(journal, RollTarget, i)
  BY <1>1, Zenon DEF Firmness, JournalInOrder
<1>3. /\ active \in {0, 1} /\ RollTarget \in {0, 1} /\ 0 \in Places /\ index \in Nat
      /\ pc = "append" => index \in Places
      /\ journal \in Journals(next) /\ next \in Nat /\ meta.seq \in Nat /\ Places \subseteq Nat
  <2>1. pc = "append" => index \in Places
    BY JournalShape, JournalEntries DEF Places
  <2>2. QED BY <2>1, JournalShape, Geometry DEF Places, Sane, Data
<1>4. PICK w \in {0, 1}, v \in Places :
        /\ Added(t, journal, w, v) /\ t[w][v] = meta
        /\ \A i \in Places : i < v => journal[w][i].st # "blank"
        /\ \A i \in Places : i > v => ~Ok(journal, w, i)
        /\ pc = "append" => w = active /\ v = index
        /\ pc = "roll" => w = RollTarget /\ v = 0
  <2>1. CASE pc = "append"
    <3>1. \A i \in Places : i < index => i \in 0 .. index - 1
      BY <1>3
    <3>2. \A i \in Places : i < index => journal[active][i].st # "blank"
      BY <1>2, <3>1 DEF Filled
    <3>3. \A i \in Places : i > index => ~Ok(journal, active, i)
      BY <1>2, <1>3 DEF Unused
    <3>4. Added(t, journal, active, index) /\ t[active][index] = meta
      BY <2>1 DEF Adds
    <3>5. QED BY <1>3, <2>1, <3>2, <3>3, <3>4
  <2>2. CASE pc = "roll"
    <3>1. \A i \in Places : ~(i < 0)
      BY <1>3
    <3>2. Added(t, journal, RollTarget, 0) /\ t[RollTarget][0] = meta
      BY <2>2 DEF Adds
    <3>3. QED BY <1>2, <1>3, <2>2, <3>1, <3>2
  <2>3. QED BY <1>1, <2>1, <2>2
<1>5. \A b \in {0, 1}, i \in Places : Ok(journal, b, i) => journal[b][i].seq < meta.seq
  BY <1>2 DEF Older
<1>6. Firm(t) /\ Tops(t, w, v)
  BY <1>2, <1>3, <1>4, <1>5, AddedFirm
<1>7. Older(t, meta.seq + 1)
  <2>1. ASSUME NEW b \in {0, 1}, NEW i \in Places, Ok(t, b, i)
        PROVE  t[b][i].seq < meta.seq + 1
    <3>1. CASE b = w /\ i = v
      BY <1>3, <1>4, <3>1
    <3>2. CASE b # w \/ i # v
      <4>1. t[b][i] = journal[b][i]
        BY <1>4, <3>2 DEF Added
      <4>2. journal[b][i].seq < meta.seq /\ journal[b][i].seq \in Nat
        BY <1>3, <1>5, <2>1, <4>1, EntryNumber DEF Ok
      <4>3. QED BY <1>3, <4>1, <4>2
    <3>3. QED BY <3>1, <3>2
  <2>2. QED BY <2>1 DEF Older
<1>8. Best(t) = meta
  <2>1. t \in Journals(next)
    BY JournalOutcomesType
  <2>2. QED BY <1>3, <1>4, <1>6, <2>1, BestIs
<1>9. QED BY <1>4, <1>6, <1>7, <1>8

(***************************************************************************)
(* The steps.                                                              *)
(***************************************************************************)
\* Older than q is older than q + 1.
LEMMA OlderStill ==
  ASSUME NEW n \in Nat, NEW j \in Journals(n), NEW q \in Nat, Older(j, q)
  PROVE  Older(j, q + 1)
<1>1. ASSUME NEW b \in {0, 1}, NEW i \in Places, Ok(j, b, i) PROVE j[b][i].seq < q + 1
  <2>1. j[b][i].seq \in Nat /\ j[b][i].seq < q
    BY <1>1, EntryNumber DEF Older
  <2>2. QED BY <2>1
<1>2. QED BY <1>1 DEF Older

\* Without sound entries the journal is in order for anything.
LEMMA NothingFirm ==
  ASSUME NEW j, active \in {0, 1}, Nothing(j)
  PROVE  Firm(j) /\ Newest(j) /\ Unused(j) /\ \A q : Older(j, q)
<1>1. active \in {0, 1} => Unused(j)
  BY DEF Nothing, Unused
<1>2. Firm(j) /\ Newest(j) /\ \A q : Older(j, q)
  BY DEF Nothing, Firm, NoGap, Rising, Apart, Newest, Older
<1>3. QED BY <1>1, <1>2

\* What the invariant says of a state, in parts.
LEMMA FirmFacts ==
  ASSUME Sane, Authority, JournalInOrder, Firmness
  PROVE  /\ active \in {0, 1} /\ RollTarget \in {0, 1} /\ index \in Nat /\ 0 \in Places
         /\ journal \in Journals(next) /\ next \in Nat /\ meta.seq \in Nat
         /\ pc = "append" => index \in Places
         /\ pc \in Appending => Running /\ meta.st = "ok"
         /\ pc \in Appending /\ op # "reset" => ready
         /\ pc \in Steps
<1>1. pc \in Appending => Running
  BY DEF Running
<1>2. pc \in Appending => meta.st = "ok"
  BY <1>1, Zenon DEF JournalInOrder
<1>3. pc \in Appending /\ op # "reset" => ready
  BY Zenon DEF Authority
<1>4. pc = "append" => index \in Places
  BY JournalShape, JournalEntries DEF Places
<1>5. QED BY <1>1, <1>2, <1>3, <1>4, JournalShape, Geometry DEF Places, Sane, Data

\* An append ends; the code works on, with the metadata it meant to write.
LEMMA AppendFirm ==
  ASSUME Sane, Authority, JournalInOrder, Firmness, AppendEntry
  PROVE  Firmness'
<1>1. /\ active \in {0, 1} /\ index \in Nat /\ journal \in Journals(next) /\ next \in Nat
      /\ meta.seq \in Nat /\ index \in Places /\ Running /\ Places \subseteq Nat
  BY FirmFacts DEF AppendEntry, Appending, Places
<1>2. /\ pc = "append" /\ UNCHANGED <<active, meta>> /\ index' = index + 1
      /\ journal' = SlotWritten(Programmed(journal[active][index])) /\ pc' \in {"room", "idle"}
  BY DEF AppendEntry, EndAppend
<1>3. ready' \/ pc' = "room"
  <2>1. ready' = (IF op = "reset" THEN TRUE ELSE ready)
    BY Zenon DEF AppendEntry, EndAppend
  <2>2. op # "reset" => ready
    BY <1>2, FirmFacts DEF Appending
  <2>3. QED BY <2>1, <2>2
<1>4. PICK t : t = journal'
  OBVIOUS
<1>5. t \in JournalOutcomes
  BY <1>2, <1>4 DEF JournalOutcomes
<1>6. Firm(t) /\ Older(t, meta.seq + 1)
      /\ (\A i \in Places : i >= index + 1 => ~Ok(t, active, i))
      /\ (Nothing(t) \/ \E i \in Places : i < index + 1 /\ Tops(t, active, i))
  <2>1. Older(journal, meta.seq) /\ Unused(journal) /\ Older(journal, meta.seq + 1)
    BY <1>1, <1>2 DEF Firmness, Appending
  <2>2. CASE Thinner(t, journal)
    <3>1. Firm(t) /\ Older(t, meta.seq + 1) /\ Unused(t) /\ Newest(t)
      BY <1>1, <1>5, <2>1, <2>2, ThinnerSame
    <3>2. \A i \in Places : i >= index + 1 => i >= index
      BY <1>1
    <3>3. \A i \in Places : i < index => i < index + 1
      BY <1>1
    <3>4. QED BY <3>1, <3>2, <3>3, Zenon DEF Unused, Newest
  <2>3. CASE Adds(t)
    <3>1. Firm(t) /\ Older(t, meta.seq + 1) /\ Tops(t, active, index)
      BY <1>2, <1>5, <2>3, AddsNew
    <3>2. Added(t, journal, active, index)
      BY <1>2, <2>3 DEF Adds
    <3>3. \A i \in Places : i >= index + 1 => i >= index /\ i # index
      BY <1>1
    <3>4. \A i \in Places : i >= index + 1 => ~Ok(t, active, i)
      BY <1>1, <2>1, <3>2, <3>3 DEF Added, Unused, Ok
    <3>5. index < index + 1
      BY <1>1
    <3>6. QED BY <1>1, <3>1, <3>4, <3>5
  <2>4. QED BY <1>5, <2>2, <2>3, OutcomeKinds
<1>7. /\ Firm(journal)' /\ Older(journal, meta.seq + 1)' /\ Unused(journal)' /\ Newest(journal)'
  BY <1>2, <1>4, <1>6 DEF Firm, NoGap, Rising, Apart, Ok, Older, Unused, Newest, Nothing, Tops
<1>8. /\ ~(pc' \in Appending) /\ pc' # "roll" /\ Running'
  BY <1>2, <1>3 DEF Appending, Running
<1>9. QED BY <1>7, <1>8, Zenon DEF Firmness

\* The metadata go to the other sector, which is the active one then.
LEMMA RollFirm ==
  ASSUME Sane, Authority, JournalInOrder, Firmness, Roll
  PROVE  Firmness' /\ Adds(journal')
<1>1. /\ RollTarget \in {0, 1} /\ index \in Nat /\ 0 \in Places /\ Running /\ Places \subseteq Nat
      /\ meta.st = "ok"
  BY FirmFacts DEF Roll, Appending, Places
<1>2. /\ pc = "roll" /\ UNCHANGED meta /\ active' = RollTarget /\ index' = 1
      /\ journal' = RollWritten(meta) /\ pc' \in {"room", "idle"}
  BY DEF Roll, EndAppend
<1>3. ready' \/ pc' = "room"
  <2>1. ready' = (IF op = "reset" THEN TRUE ELSE ready)
    BY Zenon DEF Roll, EndAppend
  <2>2. op # "reset" => ready
    BY <1>2, FirmFacts DEF Appending
  <2>3. QED BY <2>1, <2>2
<1>4. PICK t : t = journal'
  OBVIOUS
<1>5. t \in JournalOutcomes
  BY <1>2, <1>4 DEF JournalOutcomes
<1>6. \A i \in Places : ~Ok(journal, RollTarget, i)
  BY <1>2 DEF Firmness
<1>7. Adds(t)
  <2>1. t[RollTarget][0] = meta
    BY <1>1, <1>2, <1>4, JournalEntries
  <2>2. Ok(t, RollTarget, 0)
    BY <1>1, <2>1 DEF Ok
  <2>3. ~Thinner(t, journal)
    BY <1>1, <1>5, <1>6, <2>2, ThinnerSame
  <2>4. QED BY <1>5, <2>3, OutcomeKinds
<1>8. Firm(t) /\ Older(t, meta.seq + 1) /\ Tops(t, RollTarget, 0)
  BY <1>2, <1>5, <1>7, AddsNew
<1>9. \A i \in Places : i >= 1 => ~Ok(t, RollTarget, i)
  <2>1. Added(t, journal, RollTarget, 0)
    BY <1>2, <1>7 DEF Adds
  <2>2. \A i \in Places : i >= 1 => i # 0
    BY <1>1
  <2>3. QED BY <1>1, <1>6, <2>1, <2>2 DEF Added, Ok
<1>10. /\ Firm(journal)' /\ Older(journal, meta.seq + 1)' /\ Unused(journal)' /\ Newest(journal)'
  BY <1>1, <1>2, <1>4, <1>8, <1>9
     DEF Firm, NoGap, Rising, Apart, Ok, Older, Unused, Newest, Nothing, Tops
<1>11. /\ ~(pc' \in Appending) /\ pc' # "roll" /\ Running'
  BY <1>2, <1>3 DEF Appending, Running
<1>12. Firmness'
  BY <1>10, <1>11, Zenon DEF Firmness
<1>13. QED BY <1>4, <1>7, <1>12

\* The other sector is erased, the newest entry is not in it.
LEMMA RollEraseFirm ==
  ASSUME Sane, Authority, JournalInOrder, Firmness, RollErase
  PROVE  Firmness' /\ Thinner(journal', journal)
<1>1. /\ RollTarget \in {0, 1} /\ Running
  BY FirmFacts DEF RollErase, Appending
<1>2. /\ pc = "rollErase" /\ pc' = "roll" /\ UNCHANGED <<meta, active, index, op, ready>>
      /\ journal' = RollErased(NoEntry)
  BY DEF RollErase
<1>3. PICK t : t = journal'
  OBVIOUS
<1>4. t \in JournalOutcomes /\ Thinner(t, journal)
  <2>1. t \in JournalOutcomes
    BY <1>2, <1>3 DEF JournalOutcomes
  <2>2. ~Adds(t)
    BY <1>2 DEF Adds
  <2>3. QED BY <2>1, <2>2, OutcomeKinds
<1>5. /\ Older(journal, meta.seq) /\ Unused(journal) /\ Older(journal, meta.seq + 1)
      /\ op = "reset" => /\ Nothing(journal) /\ ~ready
                         /\ meta = Entry(1, 0, 0, 0) /\ active = 0 /\ index = 0
  BY <1>1, <1>2 DEF Firmness, Appending
<1>6. /\ Firm(t) /\ (Nothing(journal) => Nothing(t)) /\ Older(t, meta.seq + 1)
      /\ Older(t, meta.seq) /\ Unused(t) /\ Newest(t)
  BY <1>1, <1>4, <1>5, ThinnerSame
<1>7. \A i \in Places : ~Ok(t, RollTarget, i)
  <2>1. \A i \in Places : t[RollTarget][i] = NoEntry
    BY <1>1, <1>2, <1>3, JournalEntries
  <2>2. NoEntry.st # "ok"
    BY DEF NoEntry
  <2>3. QED BY <2>1, <2>2 DEF Ok
<1>8. /\ Firm(journal)' /\ Older(journal, meta.seq + 1)' /\ Unused(journal)' /\ Newest(journal)'
      /\ Older(journal, meta.seq)' /\ (\A i \in Places : ~Ok(journal, RollTarget, i))'
      /\ (Nothing(journal) => Nothing(journal)')
  BY <1>2, <1>3, <1>6, <1>7
     DEF Firm, NoGap, Rising, Apart, Ok, Older, Unused, Newest, Nothing, Tops, RollTarget
<1>9. /\ pc' \in Appending /\ Running'
  BY <1>2 DEF Appending, Running
<1>10. op' = "reset" => /\ Nothing(journal)' /\ ~ready'
                        /\ meta' = Entry(1, 0, 0, 0) /\ active' = 0 /\ index' = 0
  BY <1>2, <1>5, <1>8
<1>11. Firmness'
  BY <1>8, <1>9, <1>10, Zenon DEF Firmness
<1>12. QED BY <1>3, <1>4, <1>11

\* The append fails, and has no effect that counts.
LEMMA AppendFailsFirm ==
  ASSUME Sane, Authority, JournalInOrder, Firmness, AppendFails, ~spoilt'
  PROVE  Firmness' /\ Thinner(journal', journal)
<1>1. /\ pc \in Appending /\ pc' \in {"room", "idle"} /\ UNCHANGED <<meta, active, index, op>>
      /\ journal' \in JournalOutcomes /\ Best(journal') # meta
  BY DEF AppendFails, EndAppend, Appending
<1>2. ready' = IF op = "reset" THEN FALSE ELSE TRUE
  <2>1. ready' = IF op = "reset" THEN FALSE ELSE ready
    BY Zenon DEF AppendFails, EndAppend
  <2>2. op # "reset" => ready = TRUE
    <3>1. op # "reset" => ready
      BY <1>1, FirmFacts
    <3>2. CASE op = "reset"
      BY <3>2
    <3>3. CASE op # "reset"
      <4>1. ready' = ready /\ ready
        BY <2>1, <3>1, <3>3
      <4>2. QED BY <4>1
    <3>4. QED BY <3>2, <3>3
  <2>3. QED BY <2>1, <2>2
<1>3. PICK t \in JournalOutcomes : t = journal'
  BY <1>1
<1>4. Thinner(t, journal)
  <2>1. ~Adds(t)
    BY <1>1, <1>3, AddsNew
  <2>2. QED BY <2>1, OutcomeKinds
<1>5. /\ Unused(journal) /\ Older(journal, meta.seq + 1) /\ Running
      /\ op = "reset" => Nothing(journal)
  BY <1>1, FirmFacts DEF Firmness
<1>6. /\ Firm(t) /\ (Nothing(journal) => Nothing(t)) /\ Older(t, meta.seq + 1)
      /\ Unused(t) /\ Newest(t)
  BY <1>4, <1>5, ThinnerSame
<1>7. /\ Firm(journal)' /\ Older(journal, meta.seq + 1)' /\ Unused(journal)' /\ Newest(journal)'
      /\ (Nothing(journal) => Nothing(journal)')
  BY <1>1, <1>3, <1>6
     DEF Firm, NoGap, Rising, Apart, Ok, Older, Unused, Newest, Nothing, Tops
<1>8. ~(pc' \in Appending) /\ pc' # "roll"
  BY <1>1 DEF Appending
<1>9. ~Running' => Nothing(journal)'
  <2>1. op # "reset" => Running'
    BY <1>1, <1>2 DEF Running
  <2>2. QED BY <1>5, <1>7, <2>1
<1>10. Firmness'
  BY <1>7, <1>8, <1>9, Zenon DEF Firmness
<1>11. QED BY <1>3, <1>4, <1>10

\* A reset: what the operation leaves is in order.
LEMMA PowerLossFirm ==
  ASSUME Sane, Authority, JournalInOrder, Firmness, PowerLoss
  PROVE  Firmness'
<1>1. PICK t \in JournalOutcomes : t = journal' /\ pc' = "off"
  BY DEF PowerLoss
<1>2. Firm(t)
  BY OutcomeKinds, ThinnerSame, AddsNew
<1>3. Firm(journal)'
  BY <1>1, <1>2 DEF Firm, NoGap, Rising, Apart, Ok
<1>4. ~Running' /\ ~(pc' \in Appending) /\ pc' # "roll"
  BY <1>1 DEF Running, Appending
<1>5. QED BY <1>1, <1>3, <1>4, Zenon DEF Firmness

\* metadata_reset does not get anywhere with a sound entry.
LEMMA ResetFirm ==
  ASSUME Sane, Authority, JournalInOrder, Firmness, pc = "reset",
         journal' \in JournalOutcomes, pc' = "reset" \/ (pc' = "idle" /\ ready' = ready)
  PROVE  Firmness' /\ Nothing(journal) /\ Nothing(journal')
<1>1. Nothing(journal) /\ ~ready
  <2>1. ~Running
    BY DEF Running, Appending
  <2>2. QED BY <2>1, Zenon DEF Firmness, Authority
<1>2. PICK t \in JournalOutcomes : t = journal'
  OBVIOUS
<1>3. Nothing(t) /\ Firm(t)
  <2>1. ~Adds(t)
    BY DEF Adds
  <2>2. QED BY <1>1, <2>1, OutcomeKinds, ThinnerSame
<1>4. Firm(journal)' /\ Nothing(journal)'
  BY <1>2, <1>3 DEF Firm, NoGap, Rising, Apart, Ok, Nothing
<1>5. ~Running' /\ ~(pc' \in Appending) /\ pc' # "roll"
  BY <1>1 DEF Running, Appending
<1>6. Firmness'
  BY <1>4, <1>5, Zenon DEF Firmness
<1>7. QED BY <1>1, <1>2, <1>3, <1>6

\* The journal is left alone, and so are the metadata.
LEMMA SameFirm ==
  ASSUME Sane, Authority, JournalInOrder, Firmness, Running,
         UNCHANGED <<journal, meta, active, index>>,
         ready', pc' \in {"idle", "room", "erase", "program"}
  PROVE  Firmness'
<1>1. /\ Firm(journal)' /\ Older(journal, meta.seq + 1)' /\ Unused(journal)' /\ Newest(journal)'
  BY Zenon DEF Firmness, Firm, NoGap, Rising, Apart, Ok, Older, Unused, Newest, Nothing, Tops
<1>2. Running' /\ ~(pc' \in Appending) /\ pc' # "roll"
  BY DEF Running, Appending
<1>3. QED BY <1>1, <1>2, Zenon DEF Firmness

\* An append begins.
LEMMA StartFirm ==
  ASSUME Sane, Authority, JournalInOrder, Firmness, Consume \/ Drop \/ Program
  PROVE  Firmness'
<1>1. /\ UNCHANGED <<journal, active, index>> /\ pc' \in {"append", "rollErase"}
      /\ op' # "reset"
  BY DEF Consume, Drop, Program, StartAppend, jVars
<1>2. Running
  <2>1. (pc = "idle" /\ ready) \/ pc \in {"room", "program"}
    BY Zenon DEF Consume, Drop, Program
  <2>2. QED BY <2>1, Zenon DEF Running
<1>3. meta'.seq = meta.seq + 1
  BY DEF Consume, Drop, Program, StartAppend, Consumed, Sane, Data, EntryBelow
<1>4. meta.seq + 1 \in Nat /\ journal \in Journals(next) /\ next \in Nat
  BY FirmFacts
<1>5. Older(journal, meta.seq + 1) /\ Unused(journal) /\ Newest(journal) /\ Firm(journal)
  BY <1>2 DEF Firmness
<1>6. Older(journal, meta.seq + 1 + 1)
  BY <1>4, <1>5, OlderStill
<1>7. /\ Firm(journal)' /\ Older(journal, meta.seq)' /\ Older(journal, meta.seq + 1)'
      /\ Unused(journal)' /\ Newest(journal)'
  BY <1>1, <1>3, <1>5, <1>6
     DEF Firm, NoGap, Rising, Apart, Ok, Older, Unused, Newest, Nothing, Tops
<1>8. Running' /\ pc' # "roll"
  BY <1>1 DEF Running, Appending
<1>9. QED BY <1>1, <1>7, <1>8, Zenon DEF Firmness

\* metadata_reset writes the first entry of an empty journal.
LEMMA ResetAppendFirm ==
  ASSUME Sane, Authority, JournalInOrder, Firmness, ResetAppend
  PROVE  Firmness' /\ Nothing(journal)
<1>1. /\ pc = "reset" /\ UNCHANGED <<journal, ready>> /\ op' = "reset" /\ pc' = "append"
      /\ meta' = Entry(1, 0, 0, 0) /\ active' = 0 /\ index' = 0
  BY DEF ResetAppend, Sane, Control
<1>2. Nothing(journal) /\ ~ready
  <2>1. ~Running
    BY <1>1 DEF Running, Appending
  <2>2. QED BY <1>1, <2>1, Zenon DEF Firmness, Authority
<1>3. Nothing(journal)' /\ ~ready'
  BY <1>1, <1>2 DEF Nothing, Ok
<1>4. Firm(journal)' /\ Newest(journal)' /\ Unused(journal)' /\ Older(journal, meta.seq + 1)'
      /\ Older(journal, meta.seq)'
  BY <1>1, <1>3 DEF Nothing, Firm, NoGap, Rising, Apart, Newest, Older, Unused
<1>5. Running' /\ pc' # "roll"
  BY <1>1 DEF Running, Appending
<1>6. Firmness'
  BY <1>1, <1>3, <1>4, <1>5, Zenon DEF Firmness
<1>7. QED BY <1>2, <1>6

\* metadata_recover takes the newest entry, and goes on behind it.
LEMMA PowerOnFirm ==
  ASSUME Sane, Authority, JournalInOrder, Firmness, PowerOn
  PROVE  /\ Firmness'
         /\ pc' = "idle" => ready' /\ meta' = Best(journal)
         /\ pc' = "reset" => Best(journal) = NoEntry /\ UNCHANGED ready
         /\ pc' \in {"idle", "reset"}
<1>1. /\ pc = "off" /\ UNCHANGED journal /\ Firm(journal) /\ next \in Nat
      /\ journal \in Journals(next) /\ ~ready /\ Firm(journal)'
  <2>1. pc = "off" /\ UNCHANGED journal
    BY DEF PowerOn
  <2>2. ~ready /\ Firm(journal)
    BY <2>1, Zenon DEF Authority, Firmness
  <2>3. QED BY <2>1, <2>2, FirmFacts DEF Firm, NoGap, Rising, Apart, Ok
<1>2. CASE Candidates(journal) = {} /\ pc' = "reset" /\ UNCHANGED ready
  <2>1. Nothing(journal) /\ Best(journal) = NoEntry
    BY <1>1, <1>2, BestOfNothing DEF Firm
  <2>2. Nothing(journal)'
    BY <1>1, <2>1 DEF Nothing, Ok
  <2>3. ~Running' /\ ~(pc' \in Appending) /\ pc' # "roll"
    BY <1>2 DEF Running, Appending
  <2>4. Firmness'
    BY <1>1, <2>2, <2>3, Zenon DEF Firmness
  <2>5. QED BY <1>2, <2>1, <2>4
<1>3. CASE \E p \in Candidates(journal) :
             /\ IsBest(journal, p) /\ meta' = journal[p[1]][p[2]]
             /\ active' = p[1] /\ index' = p[2] + 1 /\ ready' = TRUE /\ pc' = "idle"
  <2>1. PICK p \in Candidates(journal) :
          /\ IsBest(journal, p) /\ meta' = journal[p[1]][p[2]]
          /\ active' = p[1] /\ index' = p[2] + 1 /\ ready' = TRUE /\ pc' = "idle"
    BY <1>3
  <2>2. PICK b \in {0, 1}, i \in Places : p = <<b, i>> /\ Ok(journal, b, i)
    BY <1>1, ScanFinds DEF Firm
  <2>3. meta' = journal[b][i] /\ active' = b /\ index' = i + 1 /\ i \in Nat /\ Places \subseteq Nat
    BY <2>1, <2>2, Geometry DEF Places
  <2>4. \A c \in {0, 1}, k \in Places : journal[c][k].seq \in Nat
    BY <1>1, EntryNumber
  <2>5. Tops(journal, b, i)
    <3>1. ASSUME NEW c \in {0, 1}, NEW k \in Places, Ok(journal, c, k)
          PROVE  journal[c][k].seq <= journal[b][i].seq
      <4>1. <<c, k>> \in Candidates(journal)
        BY <1>1, <3>1, ScanFinds DEF Firm
      <4>2. QED BY <2>1, <2>2, <4>1 DEF IsBest
    <3>2. QED BY <2>2, <3>1 DEF Tops
  <2>6. Best(journal) = journal[b][i]
    BY <1>1, <2>5, BestIs
  <2>7. Older(journal, meta'.seq + 1)
    BY <2>3, <2>4, <2>5 DEF Older, Tops
  <2>8. \A k \in Places : k >= i + 1 => ~Ok(journal, b, k)
    <3>1. ASSUME NEW k \in Places, k >= i + 1, Ok(journal, b, k) PROVE FALSE
      <4>1. i < k
        BY <2>3, <3>1
      <4>2. journal[b][i].seq < journal[b][k].seq /\ journal[b][k].seq <= journal[b][i].seq
        BY <1>1, <2>2, <2>5, <3>1, <4>1 DEF Firm, Rising, Tops
      <4>3. PICK u, v \in Nat : u = journal[b][i].seq /\ v = journal[b][k].seq
        BY <2>4
      <4>4. QED BY <4>2, <4>3
    <3>2. QED BY <3>1
  <2>9. i < i + 1
    BY <2>3
  <2>10. Older(journal, meta.seq + 1)' /\ Unused(journal)' /\ Newest(journal)'
    BY <1>1, <2>3, <2>5, <2>7, <2>8, <2>9 DEF Older, Unused, Newest, Tops, Ok
  <2>11. Running' /\ ~(pc' \in Appending) /\ pc' # "roll" /\ ready'
    BY <2>1 DEF Running, Appending
  <2>12. Firmness'
    BY <1>1, <2>10, <2>11, Zenon DEF Firmness
  <2>13. QED BY <2>1, <2>3, <2>6, <2>11, <2>12
<1>4. QED BY <1>2, <1>3, Zenon DEF PowerOn

(***************************************************************************)
(* The log of a state.  old are the metadata a reset brings back, front    *)
(* those of the code: d records have been taken since, and the newest are  *)
(* not in old yet.                                                         *)
(***************************************************************************)
Track(Z, O, R, d, old, front, s, nx) ==
  /\ d \in Nat /\ old.count \in Nat /\ front.count \in Nat /\ nx \in Nat
  /\ Log(s, d + front.count, Z, O, R)
  /\ \A i \in 0 .. d + front.count - 1 : R[i] < nx
  /\ old.count <= d + front.count
  /\ old.tail = Addr(Z[0], O[0]) /\ old.head = Addr(Z[old.count], O[old.count])
  /\ front.tail = Addr(Z[d], O[d])
  /\ front.head = Addr(Z[d + front.count], O[d + front.count])
Logged(old, front, s, nx) == \E Z, O, R, d : Track(Z, O, R, d, old, front, s, nx)

\* Its queues.
LEMMA TrackQueues ==
  ASSUME NEW Z, NEW O, NEW R, NEW d, NEW old, NEW front, NEW s, NEW nx,
         Track(Z, O, R, d, old, front, s, nx)
  PROVE  /\ Queue(front, s) = Run(R, d, front.count) /\ Queue(old, s) = Run(R, 0, old.count)
         /\ R \in [Nat -> Nat] /\ d \in Nat /\ front.count \in Nat /\ old.count \in Nat
<1>1. PICK c, e, n \in Nat : c = front.count /\ e = old.count /\ n = d + front.count
  BY DEF Track
<1>2. Log(s, n, Z, O, R) /\ d \in Nat /\ d + c <= n /\ 0 + e <= n
  BY <1>1 DEF Track
<1>3. front.tail = Addr(Z[d], O[d]) /\ old.tail = Addr(Z[0], O[0])
  BY DEF Track
<1>4. Queue(front, s) = Run(R, d, front.count)
  BY <1>1, <1>2, <1>3, QueueValue
<1>5. Queue(old, s) = Run(R, 0, old.count)
  BY <1>1, <1>2, <1>3, QueueValue
<1>6. R \in [Nat -> Nat]
  BY <1>2 DEF Log
<1>7. QED BY <1>1, <1>2, <1>4, <1>5, <1>6

\* An empty log.
LEMMA LoggedEmpty ==
  ASSUME NEW old, NEW front, NEW s, NEW nx \in Nat,
         old.head = 0, old.tail = 0, old.count = 0,
         front.head = 0, front.tail = 0, front.count = 0
  PROVE  Logged(old, front, s, nx) /\ Queue(old, s) = <<>> /\ Queue(front, s) = <<>>
<1> DEFINE F == [i \in Nat |-> 0]
<1>1. 0 \in Laps /\ 0 \in Offsets /\ Sectors \in Nat /\ Sectors >= 2 /\ Size \in Nat
  BY Geometry DEF Laps, Offsets
<1>2. Lap(0) = 0 /\ Addr(0, 0) = 0
  BY <1>1 DEF Lap, Addr
<1>3. /\ F \in [Nat -> Laps] /\ F \in [Nat -> Offsets] /\ F \in [Nat -> Nat]
      /\ \A i \in Nat : F[i] = 0
  BY <1>1
<1> HIDE DEF F
<1>4. Log(s, 0, F, F, F)
  <2>1. /\ F[0] = 0 /\ \A i \in 0 .. 0 : F[i] = 0 /\ i \in Nat
    BY <1>3
  <2>2. F[0] < Sectors
    BY <1>1, <2>1
  <2>3. \A i, j \in 0 .. 0 : i <= j => F[i] <= F[j]
    BY <2>1
  <2>4. \A i \in 0 .. 0 : F[i] < F[0] + Sectors \/ (F[i] = F[0] + Sectors /\ F[i] = 0)
    BY <1>1, <2>1
  <2>5. \A i \in 0 .. 0 : F[i] # 0 => s[Addr(F[i], 0)] # Blank
    BY <2>1
  <2>6. \A i \in 0 .. 0 - 1 : Leads(s, F[i], F[i], F[i], F[i + 1], F[i + 1])
    OBVIOUS
  <2>7. QED BY <1>3, <2>2, <2>3, <2>4, <2>5, <2>6, Zenon DEF Log
<1>5. Track(F, F, F, 0, old, front, s, nx)
  <2>1. 0 + front.count = 0 /\ F[0] = 0 /\ 0 \in Nat
    BY <1>3
  <2>2. \A i \in 0 .. 0 - 1 : F[i] < nx
    OBVIOUS
  <2>3. QED BY <1>2, <1>4, <2>1, <2>2 DEF Track
<1>6. Logged(old, front, s, nx)
  BY <1>5, Zenon DEF Logged
<1>7. QED BY <1>6, EmptyQueue

\* The metadata of the code are in the journal ...
LEMMA LoggedSaved ==
  ASSUME NEW old, NEW front, NEW s, NEW nx, Logged(old, front, s, nx)
  PROVE  Logged(front, front, s, nx)
<1>1. PICK Z, O, R, d : Track(Z, O, R, d, old, front, s, nx)
  BY DEF Logged
<1>2. PICK c, n \in Nat : c = front.count /\ n = d + front.count
  <2>1. front.count \in Nat /\ d \in Nat
    BY <1>1, Zenon DEF Track
  <2>2. QED BY <2>1
<1>3. /\ Log(s, n, Z, O, R) /\ d \in 0 .. n /\ n - d = c /\ d \in Nat /\ nx \in Nat
      /\ \A i \in 0 .. n - 1 : R[i] < nx
      /\ front.tail = Addr(Z[d], O[d]) /\ front.head = Addr(Z[n], O[n])
  BY <1>1, <1>2 DEF Track
<1>4. PICK P : /\ Log(s, n - d, P, Shift(O, d), Shift(R, d))
               /\ \A i \in 0 .. n - d : Addr(P[i], O[d + i]) = Addr(Z[d + i], O[d + i])
  <2>1. Log(s, n, Z, O, R) /\ d \in 0 .. n /\ n \in Nat
    BY <1>2, <1>3
  <2>2. PICK P : Restarts(s, n, Z, O, R, d, P)
    BY <2>1, LogFrom
  <2>3. QED BY <2>2, Zenon DEF Restarts
<1>5. \A i \in Nat : Shift(O, d)[i] = O[d + i] /\ Shift(R, d)[i] = R[d + i]
  BY DEF Shift
<1>6. PICK Q, T : Q = Shift(O, d) /\ T = Shift(R, d)
  OBVIOUS
<1>7. /\ Log(s, 0 + c, P, Q, T) /\ 0 + c = c /\ 0 \in 0 .. c /\ c \in 0 .. c
  BY <1>2, <1>3, <1>4, <1>6
<1>8. front.tail = Addr(P[0], Q[0]) /\ front.head = Addr(P[c], Q[c])
  <2>1. d + 0 = d /\ d + c = n /\ 0 \in 0 .. n - d /\ c \in 0 .. n - d
    BY <1>2, <1>3
  <2>2. Addr(P[0], O[d + 0]) = Addr(Z[d + 0], O[d + 0]) /\ Addr(P[c], O[d + c]) = Addr(Z[d + c], O[d + c])
    BY <1>4, <2>1
  <2>3. Q[0] = O[d + 0] /\ Q[c] = O[d + c]
    BY <1>2, <1>5, <1>6
  <2>4. QED BY <1>3, <2>1, <2>2, <2>3
<1>9. \A i \in 0 .. 0 + c - 1 : T[i] < nx
  <2>1. ASSUME NEW i \in 0 .. 0 + c - 1 PROVE T[i] < nx
    <3>1. i \in Nat /\ d + i \in 0 .. n - 1
      BY <1>2, <1>3
    <3>2. QED BY <1>3, <1>5, <1>6, <3>1
  <2>2. QED BY <2>1
<1>10. Track(P, Q, T, 0, front, front, s, nx)
  BY <1>2, <1>3, <1>7, <1>8, <1>9 DEF Track
<1>11. QED BY <1>10, Zenon DEF Logged

\* ... or a reset brings back the old ones.
LEMMA LoggedLost ==
  ASSUME NEW old, NEW front, NEW s, NEW nx, Logged(old, front, s, nx)
  PROVE  Logged(old, old, s, nx)
<1>1. PICK Z, O, R, d : Track(Z, O, R, d, old, front, s, nx)
  BY DEF Logged
<1>2. PICK e, n \in Nat : e = old.count /\ n = d + front.count
  BY <1>1 DEF Track
<1>3. /\ Log(s, n, Z, O, R) /\ e \in 0 .. n /\ nx \in Nat
      /\ \A i \in 0 .. n - 1 : R[i] < nx
      /\ old.tail = Addr(Z[0], O[0]) /\ old.head = Addr(Z[e], O[e])
  BY <1>1, <1>2 DEF Track
<1>4. Log(s, e, Z, O, R)
  BY <1>3, LogCut
<1>5. 0 + e = e /\ \A i \in 0 .. e - 1 : R[i] < nx
  BY <1>2, <1>3
<1>6. Track(Z, O, R, 0, old, old, s, nx)
  BY <1>2, <1>3, <1>4, <1>5 DEF Track
<1>7. QED BY <1>6, Zenon DEF Logged

\* The oldest record is taken.
LEMMA LoggedTaken ==
  ASSUME NEW old, NEW front, NEW s, NEW nx, Logged(old, front, s, nx), front.count # 0,
         NEW f, f.tail = After(s, front.tail), f.count = front.count - 1, f.head = front.head
  PROVE  /\ Logged(old, f, s, nx)
         /\ Queue(front, s) # <<>> /\ Queue(f, s) = Tail(Queue(front, s))
<1>1. PICK Z, O, R, d : Track(Z, O, R, d, old, front, s, nx)
  BY DEF Logged
<1>2. PICK c, n \in Nat : c = front.count /\ n = d + front.count
  <2>1. front.count \in Nat /\ d \in Nat
    BY <1>1, Zenon DEF Track
  <2>2. QED BY <2>1
<1>3. /\ Log(s, n, Z, O, R) /\ d \in 0 .. n - 1 /\ d \in Nat /\ nx \in Nat
      /\ front.tail = Addr(Z[d], O[d]) /\ front.head = Addr(Z[n], O[n])
      /\ d + 1 \in Nat /\ (d + 1) + f.count = n /\ f.count \in Nat /\ f.count = c - 1
  BY <1>1, <1>2 DEF Track
<1>4. After(s, front.tail) = Addr(Z[d + 1], O[d + 1])
  <2>1. /\ Addr(Z[d], O[d]) \in 0 .. Region - 1
        /\ Moves(s)[Addr(Z[d], O[d])] = Addr(Z[d + 1], O[d + 1])
    <3>1. PICK i \in 0 .. n - 1 : i = d
      BY <1>3
    <3>2. /\ Addr(Z[i], O[i]) \in 0 .. Region - 1
          /\ Reads(s)[Addr(Z[i], O[i])] = R[i]
          /\ Moves(s)[Addr(Z[i], O[i])] = Addr(Z[i + 1], O[i + 1])
      BY <1>3, LogRead
    <3>3. QED BY <3>1, <3>2
  <2>2. QED BY <1>3, <2>1 DEF Moves
<1>5. Track(Z, O, R, d + 1, old, f, s, nx)
  BY <1>1, <1>2, <1>3, <1>4 DEF Track
<1>6. /\ Queue(front, s) = Run(R, d, c) /\ Queue(f, s) = Run(R, d + 1, f.count)
      /\ R \in [Nat -> Nat]
  BY <1>1, <1>2, <1>5, TrackQueues
<1>7. Run(R, d, c) # <<>> /\ Run(R, d + 1, c - 1) = Tail(Run(R, d, c))
  BY <1>2, <1>3, <1>6, RunTail
<1>8. Logged(old, f, s, nx)
  BY <1>5, Zenon DEF Logged
<1>9. QED BY <1>3, <1>6, <1>7, <1>8

\* Flash operations leave the log alone: those in the sector after it, when old
\* does not begin there ...
Untracked(s, t, a) ==
  \A c \in 0 .. Region - 1 : t[c] # s[c] => SectorOf(c) = SectorOf(a)

\* The places of a log's ends.
LEMMA TrackParts ==
  ASSUME NEW Z, NEW O, NEW R, NEW d, NEW old, NEW front, NEW s, NEW nx,
         Track(Z, O, R, d, old, front, s, nx)
  PROVE  \E n \in Nat : /\ n = d + front.count /\ Log(s, n, Z, O, R) /\ d <= n
                        /\ front.head = Addr(Z[n], O[n]) /\ old.tail = Addr(Z[0], O[0])
                        /\ Z[n] \in Laps /\ O[n] \in Offsets /\ Z[0] \in Laps /\ O[0] \in Offsets
                        /\ Z[0] < Sectors /\ Z[0] <= Z[n]
                        /\ Z[n] < Z[0] + Sectors \/ (Z[n] = Z[0] + Sectors /\ O[n] = 0)
                        /\ SectorOf(old.tail) = Lap(Z[0])
                        /\ SectorOf(front.head) = Lap(Z[n]) /\ front.head % Size = O[n]
                        /\ front.head \in 0 .. Region - 1
<1>1. PICK c, n \in Nat : c = front.count /\ n = d + front.count
  <2>1. front.count \in Nat /\ d \in Nat
    BY Zenon DEF Track
  <2>2. QED BY <2>1
<1>2. /\ Log(s, n, Z, O, R) /\ d <= n /\ n \in 0 .. n /\ 0 \in 0 .. n
      /\ front.head = Addr(Z[n], O[n]) /\ old.tail = Addr(Z[0], O[0])
  BY <1>1 DEF Track
<1>3. /\ Z[0] \in 0 .. Sectors - 1 /\ \A i \in Nat : Z[i] \in Laps /\ O[i] \in Offsets
      /\ Z[0] <= Z[n] /\ Sectors \in Nat
  BY <1>2, LogParts
<1>4. Z[n] < Z[0] + Sectors \/ (Z[n] = Z[0] + Sectors /\ O[n] = 0)
  BY <1>2 DEF Log
<1>5. PICK x, z \in Laps, o, q \in Offsets : x = Z[n] /\ z = Z[0] /\ o = O[n] /\ q = O[0]
  BY <1>3
<1>6. /\ SectorOf(Addr(x, o)) = Lap(x) /\ Addr(x, o) % Size = o /\ Addr(x, o) \in 0 .. Region - 1
      /\ SectorOf(Addr(z, q)) = Lap(z)
  BY AddrParts
<1>7. Z[0] < Sectors
  BY <1>3
<1>8. QED BY <1>1, <1>2, <1>3, <1>4, <1>5, <1>6, <1>7

\* The log kept, its queues are.
LEMMA TrackKept ==
  ASSUME NEW Z, NEW O, NEW R, NEW d, NEW old, NEW front, NEW s, NEW nx, NEW t,
         Track(Z, O, R, d, old, front, s, nx), Log(t, d + front.count, Z, O, R)
  PROVE  /\ Track(Z, O, R, d, old, front, t, nx)
         /\ Queue(front, t) = Queue(front, s) /\ Queue(old, t) = Queue(old, s)
<1>1. Track(Z, O, R, d, old, front, t, nx)
  BY Zenon DEF Track
<1>2. QED BY <1>1, TrackQueues

\* Where the next sector is.
LEMMA NextPlace ==
  ASSUME NEW Z, NEW O, NEW R, NEW d, NEW old, NEW front, NEW s, NEW nx,
         Track(Z, O, R, d, old, front, s, nx), front.head % Size # 0,
         SectorOf(NextSector(front.head)) # SectorOf(old.tail)
  PROVE  \E n \in Nat, w \in Laps :
           /\ n = d + front.count /\ w = Z[n] + 1 /\ w < Z[0] + Sectors
           /\ NextSector(front.head) = Addr(w, 0) /\ SectorOf(NextSector(front.head)) = Lap(w)
<1>1. PICK n \in Nat :
        /\ n = d + front.count /\ front.head = Addr(Z[n], O[n])
        /\ Z[n] \in Laps /\ O[n] \in Offsets /\ Z[0] \in Laps
        /\ Z[0] < Sectors /\ Z[0] <= Z[n]
        /\ Z[n] < Z[0] + Sectors \/ (Z[n] = Z[0] + Sectors /\ O[n] = 0)
        /\ SectorOf(old.tail) = Lap(Z[0]) /\ front.head % Size = O[n]
  BY TrackParts
<1>2. PICK x, z \in Laps, o \in Offsets : x = Z[n] /\ z = Z[0] /\ o = O[n]
  BY <1>1
<1>3. /\ x \in Nat /\ z \in Nat /\ Sectors \in Nat /\ Sectors >= 2 /\ x < z + Sectors
      /\ z < Sectors /\ z <= x
  BY <1>1, <1>2, Geometry DEF Laps
<1>4. x + 1 \in Laps
  BY <1>3 DEF Laps
<1>5. NextSector(front.head) = Addr(x + 1, 0)
  BY <1>1, <1>2, <1>4, AddrNext
<1>6. 0 \in Offsets
  BY Geometry DEF Offsets
<1>7. SectorOf(NextSector(front.head)) = Lap(x + 1)
  BY <1>4, <1>5, <1>6, AddrParts
<1>8. x + 1 # z + Sectors
  <2>1. z \in 0 .. Sectors - 1
    BY <1>3
  <2>2. Lap(z + Sectors) = Lap(z)
    BY <2>1, LapAgain
  <2>3. QED BY <1>1, <1>2, <1>7, <2>2
<1>9. x + 1 < z + Sectors
  BY <1>3, <1>8
<1>10. QED BY <1>1, <1>2, <1>4, <1>5, <1>7, <1>9

\* The sector after the head is outside the log.
LEMMA NextUntracked ==
  ASSUME NEW Z, NEW O, NEW R, NEW d, NEW old, NEW front, NEW s, NEW nx, NEW t,
         Track(Z, O, R, d, old, front, s, nx), front.head % Size # 0,
         SectorOf(NextSector(front.head)) # SectorOf(old.tail),
         Untracked(s, t, NextSector(front.head))
  PROVE  Log(t, d + front.count, Z, O, R)
<1>1. PICK n \in Nat, w \in Laps :
        /\ n = d + front.count /\ w = Z[n] + 1 /\ w < Z[0] + Sectors
        /\ SectorOf(NextSector(front.head)) = Lap(w)
  BY NextPlace
<1>2. Z[n] \in Laps /\ Log(s, n, Z, O, R)
  BY <1>1, TrackParts
<1>3. PICK x \in Laps : x = Z[n]
  BY <1>2
<1>4. x < w /\ x <= w
  BY <1>1, <1>3, Geometry DEF Laps
<1>5. Touches(s, t, w, x)
  BY <1>1, <1>4 DEF Touches, Untracked
<1>6. Log(t, n, Z, O, R)
  BY <1>1, <1>2, <1>3, <1>4, <1>5, LogKept
<1>7. QED BY <1>1, <1>6

\* ... and those on blank cells of the sector it ends in.  A log that has come
\* round to its own first sector leaves no blank cell there.
LEMMA HeadPlace ==
  ASSUME NEW Z, NEW O, NEW R, NEW d, NEW old, NEW front, NEW s, NEW nx,
         Track(Z, O, R, d, old, front, s, nx), s[front.head] = Blank
  PROVE  \E n \in Nat : n = d + front.count /\ Z[n] \in Laps /\ Z[n] < Z[0] + Sectors
<1>1. PICK n \in Nat :
        /\ n = d + front.count /\ front.head = Addr(Z[n], O[n]) /\ Log(s, n, Z, O, R)
        /\ Z[n] \in Laps /\ O[n] \in Offsets /\ Z[0] \in Laps /\ O[0] \in Offsets
        /\ Z[0] < Sectors
        /\ Z[n] < Z[0] + Sectors \/ (Z[n] = Z[0] + Sectors /\ O[n] = 0)
  BY TrackParts
<1>2. SUFFICES ASSUME Z[n] = Z[0] + Sectors, O[n] = 0 PROVE FALSE
  BY <1>1
<1>3. PICK x, z \in Laps : x = Z[n] /\ z = Z[0]
  BY <1>1
<1>4. z \in Nat /\ z < Sectors /\ x = z + Sectors /\ Sectors \in Nat /\ Sectors >= 2
  BY <1>1, <1>2, <1>3, Geometry DEF Laps
<1>5. Lap(z + Sectors) = Lap(z)
  <2>1. z \in 0 .. Sectors - 1
    BY <1>4
  <2>2. QED BY <2>1, LapAgain
<1>6. front.head = Addr(z, 0)
  BY <1>1, <1>2, <1>3, <1>4, <1>5 DEF Addr
<1>7. n > 0 /\ 0 \in 0 .. n /\ 0 \in 0 .. n - 1
  <2>1. ASSUME n = 0 PROVE FALSE
    <3>1. x = z
      BY <1>3, <2>1
    <3>2. QED BY <1>4, <3>1
  <2>2. QED BY <2>1
<1>8. O[0] = 0
  <2>1. O[0] # 0 => s[Addr(Z[0], 0)] # Blank
    BY <1>1, <1>7 DEF Log
  <2>2. QED BY <1>3, <1>6, <2>1
<1>9. Leads(s, Z[0], O[0], R[0], Z[0 + 1], O[0 + 1])
  BY <1>1, <1>7, Zenon DEF Log
<1>10. PICK y \in Laps, p \in Offsets, m \in Nat : Found(s, Z[0], O[0], y, p, m, R[0])
  BY <1>9 DEF Leads
<1>11. y = z /\ p = 0 /\ Written(s, y, p, m, R[0])
  BY <1>3, <1>8, <1>10 DEF Found, Padded
<1>12. s[Addr(z, 0 + 0)] = Part(R[0], 0, m) /\ m > 0
  <2>1. m > Header /\ Header \in Nat
    BY <1>11, QspiAssumption DEF Written
  <2>2. 0 \in 0 .. m - 1 /\ m > 0
    BY <2>1
  <2>3. QED BY <1>11, <2>2 DEF Written
<1>13. Part(R[0], 0, m) # Blank
  BY <1>12, PartNotBlank
<1>14. QED BY <1>6, <1>12, <1>13

\* So are the blank cells of the sector the head is in.
LEMMA HeadUntracked ==
  ASSUME NEW Z, NEW O, NEW R, NEW d, NEW old, NEW front, NEW s, NEW nx, NEW t,
         Track(Z, O, R, d, old, front, s, nx), s[front.head] = Blank,
         Untracked(s, t, front.head),
         \A c \in 0 .. Region - 1 : t[c] # s[c] => s[c] = Blank
  PROVE  Log(t, d + front.count, Z, O, R)
<1>1. PICK n \in Nat : n = d + front.count /\ Z[n] \in Laps /\ Z[n] < Z[0] + Sectors
  BY HeadPlace
<1>2. Log(s, n, Z, O, R) /\ SectorOf(front.head) = Lap(Z[n])
  BY <1>1, TrackParts
<1>3. PICK x \in Laps : x = Z[n]
  BY <1>1
<1>4. x <= x /\ x < Z[0] + Sectors
  BY <1>1, <1>3, Geometry DEF Laps
<1>5. Touches(s, t, x, x)
  BY <1>2, <1>3 DEF Touches, Untracked
<1>6. Log(t, n, Z, O, R)
  BY <1>2, <1>3, <1>4, <1>5, LogKept
<1>7. QED BY <1>1, <1>6

\* T is R with r at the end of the run of n from x; q is p with r at its end.
Longer(T, R, x, n, r) ==
  /\ R \in [Nat -> Nat] /\ x \in Nat /\ n \in Nat /\ r \in Nat
  /\ T = [R EXCEPT ![x + n] = r]
Extended(q, p, r) == q = Append(p, r)
\* RunAppend, with its sequence named.
LEMMA RunLonger ==
  ASSUME NEW T, NEW R, NEW x, NEW n, NEW r, Longer(T, R, x, n, r)
  PROVE  Extended(Run(T, x, n + 1), Run(R, x, n), r)
<1>1. /\ R \in [Nat -> Nat] /\ x \in Nat /\ n \in Nat /\ r \in Nat
      /\ T = [R EXCEPT ![x + n] = r]
  BY DEF Longer
<1>2. PICK U \in [Nat -> Nat], e \in Nat, c \in Nat, q \in Nat : U = R /\ e = x /\ c = n /\ q = r
  BY <1>1
<1>3. Run([U EXCEPT ![e + c] = q], e, c + 1) = Append(Run(U, e, c), q)
  BY RunAppend
<1>4. QED BY <1>1, <1>2, <1>3, Zenon DEF Extended
\* r is greater than all of R up to the end of the run; it is not in q.
Beyond(R, x, n, r) ==
  /\ R \in [Nat -> Nat] /\ x \in Nat /\ n \in Nat /\ r \in Nat
  /\ \A i \in 0 .. x + n - 1 : R[i] < r
Absent(q, r) == \A i \in 1 .. Len(q) : q[i] # r

\* A new number is not in a run of older ones.
LEMMA RunBeyond ==
  ASSUME NEW R, NEW x, NEW n, NEW r, Beyond(R, x, n, r) PROVE Absent(Run(R, x, n), r)
<1>1. PICK U \in [Nat -> Nat], e \in Nat, c \in Nat, b \in Nat : U = R /\ e = x /\ c = n /\ b = r
  BY DEF Beyond
<1>2. /\ Len(Run(U, e, c)) = c
      /\ \A i \in 1 .. c : Run(U, e, c)[i] = U[e + i - 1] /\ e + i - 1 \in Nat
  BY RunParts
<1>3. ASSUME NEW i \in 1 .. c PROVE U[e + i - 1] # b
  <2>1. e + i - 1 \in 0 .. e + c - 1
    OBVIOUS
  <2>2. \A k \in 0 .. e + c - 1 : U[k] < b
    BY <1>1 DEF Beyond
  <2>3. PICK k \in Nat : k = e + i - 1
    BY <1>2, <1>3
  <2>4. U[k] < b /\ U[k] \in Nat
    BY <2>1, <2>2, <2>3
  <2>5. QED BY <2>3, <2>4
<1>4. Absent(Run(U, e, c), b)
  BY <1>2, <1>3 DEF Absent
<1>5. QED BY <1>1, <1>4

\* A record written behind the log belongs to it once the head is behind it.
LEMMA TrackMore ==
  ASSUME NEW Z, NEW O, NEW R, NEW d, NEW old, NEW front, NEW s, NEW nx,
         Track(Z, O, R, d, old, front, s, nx),
         NEW n \in Nat, n = d + front.count,
         NEW y \in Laps, NEW p \in Offsets, NEW m \in Nat,
         Found(s, Z[n], O[n], y, p, m, nx), Z[n] <= y, y < Z[0] + Sectors,
         p # 0 => s[Addr(y, 0)] # Blank,
         NEW f, f.tail = front.tail, f.count = front.count + 1, f.head = Wrap(Addr(y, p) + m)
  PROVE  /\ Logged(old, f, s, nx + 1)
         /\ Queue(f, s) = Append(Queue(front, s), nx)
         /\ \A i \in 1 .. Len(Queue(front, s)) : Queue(front, s)[i] # nx
<1>1. /\ Log(s, n, Z, O, R) /\ d \in Nat /\ d <= n /\ nx \in Nat /\ front.count \in Nat
      /\ old.count \in Nat /\ old.count <= n
      /\ \A i \in 0 .. n - 1 : R[i] < nx
      /\ old.tail = Addr(Z[0], O[0]) /\ old.head = Addr(Z[old.count], O[old.count])
      /\ front.tail = Addr(Z[d], O[d])
  BY DEF Track
<1>2. /\ Sectors \in Nat /\ Sectors >= 2 /\ Z[0] \in 0 .. Sectors - 1
      /\ Z \in [Nat -> Laps] /\ O \in [Nat -> Offsets] /\ R \in [Nat -> Nat]
      /\ Z[n] \in Laps /\ O[n] \in Offsets /\ Size \in Nat /\ Laps \subseteq Nat
  <2>1. /\ Sectors \in Nat /\ Sectors >= 2 /\ Z[0] \in 0 .. Sectors - 1
        /\ \A i \in Nat : Z[i] \in Laps /\ O[i] \in Offsets
    BY <1>1, LogParts
  <2>2. Z \in [Nat -> Laps] /\ O \in [Nat -> Offsets] /\ R \in [Nat -> Nat]
    BY <1>1, Zenon DEF Log
  <2>3. Size \in Nat /\ Laps \subseteq Nat
    BY Geometry DEF Laps
  <2>4. QED BY <2>1, <2>2, <2>3
<1>3. PICK z, zn, yy, pp \in Nat : z = Z[0] /\ zn = Z[n] /\ yy = y /\ pp = p
  <2>1. Z[0] \in Nat /\ Z[n] \in Nat /\ y \in Nat
    BY <1>2
  <2>2. p \in Nat
    BY Geometry DEF Offsets
  <2>3. QED BY <2>1, <2>2
<1>4. Written(s, y, p, m, nx) /\ m > Header /\ p + m <= Size /\ Header \in Nat
  BY QspiAssumption DEF Found, Written
<1>5. PICK x, q \in Nat : x = (IF p + m = Size THEN y + 1 ELSE y)
                          /\ q = (IF p + m = Size THEN 0 ELSE p + m)
  BY <1>3
<1>6. x \in Laps /\ q \in Offsets /\ Follows(y, p, m, x, q)
  <2>1. x \in Laps
    BY <1>2, <1>3, <1>5 DEF Laps
  <2>2. q \in Offsets
    BY <1>2, <1>3, <1>4, <1>5 DEF Offsets
  <2>3. QED BY <1>5, <2>1, <2>2 DEF Follows
<1>7. Leads(s, Z[n], O[n], nx, x, q)
  BY <1>6, Zenon DEF Leads
<1>8. Z[n] <= x /\ (x < Z[0] + Sectors \/ (x = Z[0] + Sectors /\ q = 0))
  BY <1>2, <1>3, <1>5
<1>9. q # 0 => s[Addr(x, 0)] # Blank
  <2>1. ASSUME q # 0 PROVE s[Addr(y, 0)] # Blank
    <3>1. CASE p = 0
      <4>1. 0 \in 0 .. m - 1 /\ m > 0
        BY <1>4
      <4>2. s[Addr(y, 0 + 0)] = Part(nx, 0, m)
        BY <1>4, <3>1, <4>1 DEF Written
      <4>3. Part(nx, 0, m) # Blank
        BY <4>1, PartNotBlank
      <4>4. QED BY <4>2, <4>3
    <3>2. QED BY <3>1
  <2>2. q # 0 => x = y
    BY <1>5
  <2>3. QED BY <2>1, <2>2
<1>10. Wrap(Addr(y, p) + m) = Addr(x, q)
  <2>1. m > 0 /\ (p + m = Size => y + 1 \in Laps)
    BY <1>4, <1>5, <1>6
  <2>2. Wrap(Addr(y, p) + m) = IF p + m = Size THEN Addr(y + 1, 0) ELSE Addr(y, p + m)
    BY <1>4, <2>1, AddrWrap
  <2>3. QED BY <1>5, <2>2
<1>11. PICK k \in Nat : k = n + 1
  OBVIOUS
<1>12. PICK P, Q, T : /\ P = [Z EXCEPT ![n + 1] = x] /\ Q = [O EXCEPT ![n + 1] = q]
                      /\ T = [R EXCEPT ![n] = nx]
  OBVIOUS
<1>13. Log(s, k, P, Q, T)
  <2>1. Log(s, n + 1, [Z EXCEPT ![n + 1] = x], [O EXCEPT ![n + 1] = q], [R EXCEPT ![n] = nx])
    BY <1>1, <1>6, <1>7, <1>8, <1>9, LogMore
  <2>2. QED BY <1>11, <1>12, <2>1
<1>14. /\ \A i \in Nat : i # k => P[i] = Z[i] /\ Q[i] = O[i]
       /\ P[k] = x /\ Q[k] = q /\ T[n] = nx /\ \A i \in Nat : i # n => T[i] = R[i]
  <2>1. /\ P = [Z EXCEPT ![k] = x] /\ Q = [O EXCEPT ![k] = q]
    BY <1>11, <1>12
  <2>2. QED BY <1>2, <1>12, <2>1
<1>15. \A i \in 0 .. k - 1 : T[i] < nx + 1
  <2>1. ASSUME NEW i \in 0 .. k - 1 PROVE T[i] < nx + 1
    <3>1. CASE i = n
      BY <1>1, <1>14, <3>1
    <3>2. CASE i # n
      <4>1. i \in Nat /\ i \in 0 .. n - 1
        BY <1>11, <3>2
      <4>2. T[i] = R[i] /\ R[i] \in Nat /\ R[i] < nx
        BY <1>1, <1>2, <1>14, <3>2, <4>1
      <4>3. QED BY <1>1, <4>2
    <3>3. QED BY <3>1, <3>2
  <2>2. QED BY <2>1
<1>16. Track(P, Q, T, d, old, f, s, nx + 1)
  <2>1. d + f.count = k /\ f.count \in Nat /\ nx + 1 \in Nat /\ old.count <= k
    BY <1>1, <1>11
  <2>2. 0 # k /\ d # k /\ old.count # k
    BY <1>1, <1>11
  <2>3. /\ old.tail = Addr(P[0], Q[0]) /\ old.head = Addr(P[old.count], Q[old.count])
        /\ f.tail = Addr(P[d], Q[d])
    BY <1>1, <1>14, <2>2
  <2>4. f.head = Addr(P[k], Q[k])
    BY <1>10, <1>14
  <2>5. PICK e : e = d + f.count
    OBVIOUS
  <2>6. e = k
    BY <2>1, <2>5
  <2>7. /\ Log(s, e, P, Q, T) /\ (\A i \in 0 .. e - 1 : T[i] < nx + 1) /\ old.count <= e
        /\ f.head = Addr(P[e], Q[e])
    BY <1>13, <1>15, <2>1, <2>4, <2>6
  <2>8. QED BY <1>1, <2>1, <2>3, <2>5, <2>7 DEF Track
<1>17. Logged(old, f, s, nx + 1)
  BY <1>16, Zenon DEF Logged
<1>18. PICK c \in Nat : c = front.count
  BY <1>1
<1>19. Queue(f, s) = Run(T, d, c + 1) /\ Queue(front, s) = Run(R, d, c)
  BY <1>16, <1>18, TrackQueues
<1>20. T = [R EXCEPT ![d + c] = nx]
  <2>1. n = d + c
    BY <1>18
  <2>2. QED BY <1>12, <2>1
<1>21. Run(T, d, c + 1) = Append(Run(R, d, c), nx)
  <2>1. Longer(T, R, d, c, nx)
    BY <1>1, <1>2, <1>20 DEF Longer
  <2>2. Extended(Run(T, d, c + 1), Run(R, d, c), nx)
    BY <2>1, RunLonger
  <2>3. QED BY <2>2, Zenon DEF Extended
<1>22. Absent(Run(R, d, c), nx)
  <2>1. d + c = n
    BY <1>18
  <2>2. Beyond(R, d, c, nx)
    BY <1>1, <1>2, <2>1 DEF Beyond
  <2>3. QED BY <2>2, RunBeyond
<1>23. QED BY <1>17, <1>19, <1>21, <1>22 DEF Absent

(***************************************************************************)
(* The invariant of the log: from the tail a reset would bring back to the *)
(* head of the metadata in use, and where a put is going to write.         *)
(***************************************************************************)
Front == IF ready THEN meta ELSE Best(journal)
Logging == Logged(Best(journal), Front, cells, next)
Placing ==
  pc \in {"erase", "program"} =>
    /\ at = Target
    /\ pc = "erase" => Crosses
    /\ Crosses => /\ SectorOf(at) # SectorOf(Best(journal).tail)
                  /\ (meta.head % Size) + Magic <= Size
                  /\ LooksBlank(cells, meta.head)
Upright ==
  /\ Sane /\ Flags /\ Authority /\ JournalInOrder
  /\ Firmness /\ Logging /\ Placing

\* What DurableFifo sees.
Recovered == Queue(Best(journal), cells)
Saving == pc \in Appending /\ op # "reset"
\* A step that keeps the invariant and is one of DurableFifo, or one it does not see.
Implemented == Logging' /\ Placing' /\ (Tier!Next \/ UNCHANGED Tier!vars)

\* The queues are those of the metadata.
LEMMA Fronts ==
  ASSUME ready \in BOOLEAN
  PROVE  /\ ready => Front = meta
         /\ ~ready => Front = Best(journal)
         /\ Stored = Queue(Front, cells)
<1>1. CASE ready
  BY <1>1 DEF Front, Stored
<1>2. CASE ~ready
  BY <1>2 DEF Front, Stored
<1>3. QED BY <1>1, <1>2

\* Each action of DurableFifo in these terms.
LEMMA TierAccept ==
  ASSUME ~spoilt, ~spoilt', ~Saving, Saving', NEW r \in 1 .. MaxRec,
         \A i \in 1 .. Len(Stored) : Stored[i] # r,
         Stored' = Append(Stored, r), Recovered' = Recovered
  PROVE  Tier!Next
<1>1. Tier!SparesQueued
  BY DEF Tier!SparesQueued, Tier!Occurs, Recovered
<1>2. Tier!Accept(r)
  BY <1>1 DEF Tier!Accept, Tier!Occurs, Saving, Appending
<1>3. QED BY <1>2 DEF Tier!Next

\* The oldest record leaves.
LEMMA TierRemove ==
  ASSUME ~spoilt, ~spoilt', ~Saving, Stored # <<>>, Stored' = Tail(Stored),
         Recovered' = Recovered
  PROVE  Tier!Next
<1>1. Tier!Remove
  BY DEF Tier!Remove, Saving, Appending, Recovered
<1>2. QED BY <1>1 DEF Tier!Next

\* The append ends, with old metadata or new.
LEMMA TierSaved ==
  ASSUME ~spoilt, ~spoilt', Saving, ~Saving', Stored' = Stored,
         Recovered' \in {Recovered, Stored}
  PROVE  Tier!Next
<1>1. Tier!NotSaved
  BY DEF Tier!NotSaved, Saving, Appending, Recovered
<1>2. QED BY <1>1 DEF Tier!Next

\* A reset brings back what the journal says.
LEMMA TierReset ==
  ASSUME ~spoilt, ~spoilt', ~Saving', Stored' = Recovered',
         Recovered' = Recovered \/ (Saving /\ Recovered' = Stored)
  PROVE  Tier!Next
<1>1. Recovered' = Recovered => Tier!SparesQueued
  BY DEF Tier!SparesQueued, Tier!Occurs, Recovered
<1>2. Tier!Reset
  BY <1>1 DEF Tier!Reset, Saving, Appending, Recovered
<1>3. QED BY <1>2 DEF Tier!Next

\* A hazard of the layout has struck: nothing is promised any more.
LEMMA TierSpoilt == ASSUME spoilt' PROVE Tier!Next
<1>1. Tier!Reconfigure
  BY DEF Tier!Reconfigure
<1>2. QED BY <1>1 DEF Tier!Next

\* A step the tier does not see.
LEMMA TierStutter ==
  ASSUME ~spoilt, ~spoilt', Stored' = Stored, Recovered' = Recovered, Saving' <=> Saving
  PROVE  UNCHANGED Tier!vars
  BY DEF Tier!vars, Saving, Appending, Recovered

\* With nothing in the journal there is no log either.
LEMMA NothingEmpty ==
  ASSUME NEW j, Firm(j), Nothing(j), NEW s, NEW nx \in Nat
  PROVE  /\ Best(j) = NoEntry /\ NoEntry.head = 0 /\ NoEntry.tail = 0 /\ NoEntry.count = 0
         /\ Logged(Best(j), Best(j), s, nx) /\ Queue(Best(j), s) = <<>>
<1>1. Best(j) = NoEntry
  BY BestOfNothing DEF Firm
<1>2. NoEntry.head = 0 /\ NoEntry.tail = 0 /\ NoEntry.count = 0
  BY DEF NoEntry
<1>3. Logged(NoEntry, NoEntry, s, nx) /\ Queue(NoEntry, s) = <<>>
  BY <1>2, LoggedEmpty
<1>4. QED BY <1>1, <1>2, <1>3

\* The tier starts empty.
LEMMA TierInit == ASSUME Init PROVE Tier!Init /\ Firmness /\ Logging /\ Placing
<1>1. /\ ~spoilt /\ ~ready /\ pc = "off" /\ next = 1 /\ active = 0
      /\ journal = [b \in {0, 1} |-> [i \in 0 .. Entries - 1 |-> NoEntry]]
  BY DEF Init
<1>2. Nothing(journal)
  BY <1>1 DEF Nothing, Ok, Places, NoEntry
<1>3. Firm(journal)
  BY <1>1, <1>2, NothingFirm
<1>4. Firmness
  <2>1. ~Running /\ pc \notin Appending /\ pc # "roll"
    BY <1>1 DEF Running, Appending
  <2>2. QED BY <1>1, <1>2, <1>3, <2>1, Zenon DEF Firmness
<1>5. /\ Logged(Best(journal), Best(journal), cells, next)
      /\ Queue(Best(journal), cells) = <<>>
  BY <1>1, <1>2, <1>3, NothingEmpty
<1>6. Front = Best(journal)
  BY <1>1 DEF Front
<1>7. Stored = <<>> /\ Recovered = <<>>
  BY <1>1, <1>5 DEF Stored, Recovered
<1>8. Tier!Init
  BY <1>1, <1>7 DEF Tier!Init, Recovered
<1>9. Logging /\ Placing
  BY <1>1, <1>5, <1>6 DEF Logging, Placing
<1>10. QED BY <1>4, <1>8, <1>9

\* A step that the log and the tier do not see.
LEMMA QuietStep ==
  ASSUME ready \in BOOLEAN, ready' \in BOOLEAN, Logging, ~spoilt, ~spoilt',
         Best(journal') = Best(journal), Front' = Front, cells' = cells, next' = next,
         Saving' <=> Saving
  PROVE  Logging' /\ UNCHANGED Tier!vars
<1>1. Stored = Queue(Front, cells) /\ Stored' = Queue(Front', cells')
  <2>1. Stored = Queue(Front, cells)
    BY Fronts
  <2>2. Stored' = Queue(Front', cells')
    <3>1. CASE ready'
      BY <3>1 DEF Front, Stored
    <3>2. CASE ~ready'
      BY <3>2 DEF Front, Stored
    <3>3. QED BY <3>1, <3>2
  <2>3. QED BY <2>1, <2>2
<1>2. Stored' = Stored /\ Recovered' = Recovered
  BY <1>1 DEF Recovered
<1>3. Logging'
  BY Zenon DEF Logging
<1>4. QED BY <1>2, <1>3, TierStutter

\* metadata_recover.
LEMMA PowerOnLog ==
  ASSUME Upright, ~spoilt, ~spoilt', Flags', PowerOn PROVE Implemented
<1>1. /\ pc' = "idle" => ready' /\ meta' = Best(journal)
      /\ pc' = "reset" => UNCHANGED ready
      /\ pc' \in {"idle", "reset"}
  BY PowerOnFirm DEF Upright
<1>2. pc = "off" /\ cells' = cells /\ journal' = journal /\ next' = next
  BY DEF PowerOn
<1>3. ~ready /\ ready \in BOOLEAN /\ ready' \in BOOLEAN
  BY <1>2 DEF Upright, Authority, Flags
<1>4. Front' = Front
  <2>1. Front = Best(journal)
    BY <1>3, Fronts
  <2>2. Front' = Best(journal)
    BY <1>1, <1>2, <1>3 DEF Front
  <2>3. QED BY <2>1, <2>2
<1>5. ~Saving /\ ~Saving' /\ Placing'
  BY <1>1, <1>2 DEF Saving, Appending, Placing
<1>6. QED BY <1>2, <1>3, <1>4, <1>5, QuietStep DEF Upright, Implemented

\* metadata_reset, with nothing in the journal: no erase of it that fails, or is
\* cut off, makes a difference.
LEMMA EmptyStep ==
  ASSUME ~spoilt, ~spoilt', ~ready, ~ready', ~Saving, ~Saving', next' \in Nat,
         Firm(journal), Nothing(journal), Firm(journal'), Nothing(journal')
  PROVE  Logging' /\ UNCHANGED Tier!vars
<1>1. /\ Queue(Best(journal), cells) = <<>>
      /\ Queue(Best(journal'), cells') = <<>>
      /\ Logged(Best(journal'), Best(journal'), cells', next')
  <2>1. Queue(Best(journal), cells) = <<>>
    <3>1. 0 \in Nat
      OBVIOUS
    <3>2. QED BY <3>1, NothingEmpty
  <2>2. /\ Queue(Best(journal'), cells') = <<>>
        /\ Logged(Best(journal'), Best(journal'), cells', next')
    BY NothingEmpty
  <2>3. QED BY <2>1, <2>2
<1>2. Front' = Best(journal')
  BY DEF Front
<1>3. Logging'
  BY <1>1, <1>2, Zenon DEF Logging
<1>4. Stored = <<>> /\ Stored' = <<>> /\ Recovered = <<>> /\ Recovered' = <<>>
  BY <1>1 DEF Stored, Recovered
<1>5. QED BY <1>3, <1>4, TierStutter

\* An erase of metadata_reset is one of the outcomes.
LEMMA ResetOutcome == ASSUME Sane, ResetErase PROVE journal' \in JournalOutcomes
<1>1. pc = "reset" /\ at \in Nat
  BY DEF ResetErase, Sane, Data
<1>2. journal' = journal \/ (at \in {0, 1} /\ journal' = JournalErased(at, NoEntry))
  BY <1>1 DEF ResetErase
<1>3. journal \in JournalOutcomes
  BY <1>1 DEF JournalOutcomes
<1>4. ASSUME at \in {0, 1} PROVE JournalErased(at, NoEntry) \in JournalOutcomes
  <2>1. PICK w : w = JournalErased(at, NoEntry)
    OBVIOUS
  <2>2. \E b \in {at} \intersect {0, 1}, e \in {BadEntry, NoEntry} : w = JournalErased(b, e)
    BY <1>4, <2>1
  <2>3. w \in {JournalErased(b, e) : b \in {at} \intersect {0, 1}, e \in {BadEntry, NoEntry}}
    BY <2>2
  <2>4. w \in JournalOutcomes
    BY <1>1, <2>3 DEF JournalOutcomes
  <2>5. QED BY <2>1, <2>4
<1>5. QED BY <1>2, <1>3, <1>4

\* metadata_reset: its erases, whether they fail or not.
LEMMA ResetEraseLog ==
  ASSUME Upright, ~spoilt, ~spoilt', ResetErase \/ (pc = "reset" /\ DataFails)
  PROVE  Implemented
<1>1. /\ pc = "reset" /\ journal' \in JournalOutcomes /\ ready' = ready
      /\ pc' = "reset" \/ pc' = "idle"
      /\ next' = next /\ op' = op
  <2>1. CASE ResetErase
    <3>1. journal' \in JournalOutcomes
      BY <2>1, ResetOutcome DEF Upright
    <3>2. QED BY <2>1, <3>1 DEF ResetErase
  <2>2. CASE pc = "reset" /\ DataFails
    BY <2>2 DEF DataFails
  <2>3. QED BY <2>1, <2>2
<1>2. Firmness' /\ Nothing(journal) /\ Nothing(journal')
  BY <1>1, ResetFirm DEF Upright
<1>3. Firm(journal) /\ Firm(journal')
  BY <1>2, Zenon DEF Firmness, Upright
<1>4. ~ready /\ next' \in Nat
  BY <1>1, Geometry DEF Upright, Authority, Sane, Data
<1>5. ~Saving /\ ~Saving' /\ Placing'
  BY <1>1 DEF Saving, Appending, Placing
<1>6. Logging' /\ UNCHANGED Tier!vars
  BY <1>1, <1>2, <1>3, <1>4, <1>5, EmptyStep
<1>7. QED BY <1>5, <1>6 DEF Implemented

\* ... and the append of its first entry begins.
LEMMA ResetAppendLog ==
  ASSUME Upright, ~spoilt, ~spoilt', ResetAppend PROVE Implemented
<1>1. /\ pc = "reset" /\ pc' = "append" /\ op' = op /\ journal' = journal /\ cells' = cells
      /\ next' = next /\ ready' = ready
  BY DEF ResetAppend, putVars
<1>2. op = "reset" /\ ~ready /\ ready \in BOOLEAN
  BY <1>1 DEF Upright, Sane, Control, Authority, Flags
<1>3. Front' = Front
  BY <1>1, <1>2 DEF Front
<1>4. ~Saving /\ ~Saving' /\ Placing'
  BY <1>1, <1>2 DEF Saving, Appending, Placing
<1>5. QED BY <1>1, <1>2, <1>3, <1>4, QuietStep DEF Upright, Implemented

\* qspi_buffer_put_record begins.
LEMMA PutLog ==
  ASSUME Upright, ~spoilt, ~spoilt', NEW s \in Sizes, Put(s) PROVE Implemented
<1>1. /\ pc = "idle" /\ ready /\ pc' = "room" /\ journal' = journal /\ cells' = cells
      /\ next' = next /\ ready' = ready /\ meta' = meta
  BY DEF Put, jVars
<1>2. Front' = Front /\ ready \in BOOLEAN
  BY <1>1 DEF Front, Upright, Flags
<1>3. ~Saving /\ ~Saving' /\ Placing'
  BY <1>1 DEF Saving, Appending, Placing
<1>4. QED BY <1>1, <1>2, <1>3, QuietStep DEF Upright, Implemented

\* The other sector is erased.
LEMMA RollEraseLog ==
  ASSUME Upright, ~spoilt, ~spoilt', RollErase PROVE Implemented
<1>1. /\ pc = "rollErase" /\ pc' = "roll" /\ op' = op /\ cells' = cells
      /\ next' = next /\ ready' = ready /\ meta' = meta /\ journal' = RollErased(NoEntry)
  BY DEF RollErase, putVars
<1>2. journal' \in JournalOutcomes
  BY <1>1 DEF JournalOutcomes
<1>3. Thinner(journal', journal)
  BY RollEraseFirm DEF Upright
<1>4. Best(journal') = Best(journal)
  BY <1>2, <1>3, ThinnerSame DEF Upright
<1>5. Front' = Front /\ ready \in BOOLEAN
  BY <1>1, <1>4 DEF Front, Upright, Flags
<1>6. (Saving' <=> Saving) /\ Placing'
  BY <1>1 DEF Saving, Appending, Placing
<1>7. QED BY <1>1, <1>4, <1>5, <1>6, QuietStep DEF Upright, Implemented

\* An append ends: the journal brings back the metadata in use, or the old ones.
LEMMA SavedStep ==
  ASSUME Logging, ~spoilt, ~spoilt', Saving, ~Saving', ready, ready',
         meta' = meta, cells' = cells, next' = next,
         Best(journal') = Best(journal) \/ Best(journal') = meta
  PROVE  Logging' /\ Tier!Next
<1>1. Front = meta /\ Front' = meta
  BY DEF Front
<1>2. Stored = Queue(meta, cells) /\ Stored' = Queue(meta, cells)
  BY DEF Stored
<1>3. Recovered' = Recovered \/ Recovered' = Stored
  BY <1>2 DEF Recovered
<1>4. Logged(Best(journal), meta, cells, next)
  BY <1>1, Zenon DEF Logging
<1>5. Logged(meta, meta, cells, next)
  BY <1>4, LoggedSaved
<1>6. Logged(Best(journal'), Front', cells', next')
  BY <1>1, <1>4, <1>5
<1>7. Logging'
  BY <1>6, Zenon DEF Logging
<1>8. QED BY <1>2, <1>3, <1>7, TierSaved

\* ... for metadata_reset, with the first metadata.
LEMMA FirstStep ==
  ASSUME ~spoilt, ~spoilt', ~ready, ready', ~Saving, ~Saving', next' \in Nat,
         Firm(journal), Nothing(journal), meta = Entry(1, 0, 0, 0), meta' = meta,
         Best(journal') = Best(journal) \/ Best(journal') = meta
  PROVE  Logging' /\ UNCHANGED Tier!vars
<1>1. Queue(Best(journal), cells) = <<>> /\ Best(journal) = NoEntry
  <2>1. 0 \in Nat
    OBVIOUS
  <2>2. QED BY <2>1, NothingEmpty
<1>2. /\ meta'.head = 0 /\ meta'.tail = 0 /\ meta'.count = 0
      /\ Best(journal').head = 0 /\ Best(journal').tail = 0 /\ Best(journal').count = 0
  BY <1>1 DEF Entry, NoEntry
<1>3. /\ Logged(Best(journal'), meta', cells', next')
      /\ Queue(Best(journal'), cells') = <<>> /\ Queue(meta', cells') = <<>>
  BY <1>2, LoggedEmpty
<1>4. Front' = meta'
  BY DEF Front
<1>5. Logging'
  BY <1>3, <1>4, Zenon DEF Logging
<1>6. Stored = <<>> /\ Stored' = <<>> /\ Recovered = <<>> /\ Recovered' = <<>>
  BY <1>1, <1>3 DEF Stored, Recovered
<1>7. QED BY <1>5, <1>6, TierStutter

\* Both sectors' appends that succeed.
LEMMA AppendLog ==
  ASSUME Upright, ~spoilt, ~spoilt', AppendEntry \/ Roll PROVE Implemented
<1>1. /\ pc \in Appending /\ pc' \in {"idle", "room"} /\ op' = op /\ cells' = cells
      /\ next' = next /\ meta' = meta /\ ready' = (IF op = "reset" THEN TRUE ELSE ready)
      /\ journal' \in JournalOutcomes
  <2>1. CASE AppendEntry
    BY <2>1 DEF AppendEntry, EndAppend, putVars, Appending, JournalOutcomes
  <2>2. CASE Roll
    BY <2>2 DEF Roll, EndAppend, putVars, Appending, JournalOutcomes
  <2>3. QED BY <2>1, <2>2
<1>2. PICK t \in JournalOutcomes : t = journal'
  BY <1>1
<1>3. Best(t) = Best(journal) \/ Best(t) = meta
  BY OutcomeKinds, ThinnerSame, AddsNew DEF Upright
<1>4. ~Saving' /\ Placing'
  BY <1>1 DEF Saving, Appending, Placing
<1>5. CASE op = "reset"
  <2>1. /\ Nothing(journal) /\ ~ready /\ meta = Entry(1, 0, 0, 0) /\ Firm(journal)
    BY <1>1, <1>5, Zenon DEF Upright, Firmness
  <2>2. ~Saving /\ next' \in Nat
    BY <1>1, <1>5, Geometry DEF Saving, Upright, Sane, Data
  <2>3. Logging' /\ UNCHANGED Tier!vars
    BY <1>1, <1>2, <1>3, <1>4, <1>5, <2>1, <2>2, FirstStep
  <2>4. QED BY <1>4, <2>3 DEF Implemented
<1>6. CASE op # "reset"
  <2>1. ready /\ ready' /\ Saving
    BY <1>1, <1>6 DEF Upright, Authority, Saving, Appending
  <2>2. Logging' /\ Tier!Next
    BY <1>1, <1>2, <1>3, <1>4, <2>1, SavedStep DEF Upright
  <2>3. QED BY <1>4, <2>2 DEF Implemented
<1>7. QED BY <1>5, <1>6

\* An append that fails.
LEMMA AppendFailsLog ==
  ASSUME Upright, ~spoilt, ~spoilt', AppendFails PROVE Implemented
<1>1. /\ pc \in Appending /\ pc' \in {"idle", "room"} /\ op' = op /\ cells' = cells
      /\ next' = next /\ meta' = meta /\ ready' = (IF op = "reset" THEN FALSE ELSE ready)
      /\ journal' \in JournalOutcomes
  BY DEF AppendFails, EndAppend, putVars, Appending
<1>2. PICK t \in JournalOutcomes : t = journal'
  BY <1>1
<1>3. Thinner(t, journal)
  BY <1>2, AppendFailsFirm DEF Upright
<1>4. Best(journal') = Best(journal)
  BY <1>2, <1>3, ThinnerSame DEF Upright
<1>5. ~Saving' /\ Placing'
  BY <1>1 DEF Saving, Appending, Placing
<1>6. CASE op = "reset"
  <2>1. ~ready /\ ready' = FALSE /\ ~Saving
    <3>1. ~ready
      BY <1>1, <1>6, Zenon DEF Upright, Firmness
    <3>2. ready' = FALSE /\ ~Saving
      BY <1>1, <1>6 DEF Saving
    <3>3. QED BY <3>1, <3>2
  <2>2. ready \in BOOLEAN /\ ready' \in BOOLEAN /\ Front' = Front
    BY <1>4, <2>1 DEF Front, Upright, Flags
  <2>3. QED BY <1>1, <1>4, <1>5, <2>1, <2>2, QuietStep DEF Upright, Implemented
<1>7. CASE op # "reset"
  <2>1. ready /\ ready' /\ Saving
    BY <1>1, <1>7 DEF Upright, Authority, Saving, Appending
  <2>2. Logging' /\ Tier!Next
    BY <1>1, <1>4, <1>5, <2>1, SavedStep DEF Upright
  <2>3. QED BY <1>5, <2>2 DEF Implemented
<1>8. QED BY <1>6, <1>7

\* The oldest record is consumed, or dropped for a newer one.
LEMMA TakeLog ==
  ASSUME Upright, ~spoilt, ~spoilt', Consume \/ Drop PROVE Implemented
<1>1. /\ pc \notin Appending /\ ready /\ meta.count # 0 /\ meta' = Consumed
      /\ journal' = journal /\ cells' = cells /\ next' = next /\ ready' = ready
      /\ pc' \in {"append", "rollErase"}
  <2>1. CASE Consume
    BY <2>1 DEF Consume, StartAppend, jVars, putVars, Appending
  <2>2. CASE Drop
    <3>1. meta.count # 0
      BY <2>2 DEF Drop, Room
    <3>2. QED BY <2>2, <3>1 DEF Drop, StartAppend, jVars, putVars, Appending, Upright, Authority
  <2>3. QED BY <2>1, <2>2
<1>2. /\ Consumed.tail = After(cells, meta.tail) /\ Consumed.count = meta.count - 1
      /\ Consumed.head = meta.head
  BY DEF Consumed, Upright, Sane, Data, EntryBelow
<1>3. Front = meta /\ Front' = Consumed
  BY <1>1 DEF Front
<1>4. Logged(Best(journal), meta, cells, next)
  BY <1>3, Zenon DEF Upright, Logging
<1>5. /\ Logged(Best(journal), Consumed, cells, next)
      /\ Queue(meta, cells) # <<>> /\ Queue(Consumed, cells) = Tail(Queue(meta, cells))
  <2>1. PICK f : f = Consumed
    OBVIOUS
  <2>2. /\ f.tail = After(cells, meta.tail) /\ f.count = meta.count - 1 /\ f.head = meta.head
    BY <1>2, <2>1
  <2>3. /\ Logged(Best(journal), f, cells, next)
        /\ Queue(meta, cells) # <<>> /\ Queue(f, cells) = Tail(Queue(meta, cells))
    BY <1>1, <1>4, <2>2, LoggedTaken
  <2>4. QED BY <2>1, <2>3
<1>6. Stored = Queue(meta, cells) /\ Stored' = Queue(Consumed, cells) /\ Recovered' = Recovered
  BY <1>1 DEF Stored, Recovered
<1>7. Logged(Best(journal'), Front', cells', next')
  BY <1>1, <1>3, <1>5
<1>8. Logging' /\ Placing' /\ ~Saving
  BY <1>1, <1>7 DEF Logging, Placing, Saving
<1>9. Tier!Next
  BY <1>5, <1>6, <1>8, TierRemove
<1>10. QED BY <1>8, <1>9 DEF Implemented

\* The sector after a cell's is another one.
LEMMA NextDiffers ==
  ASSUME NEW a \in 0 .. Region - 1 PROVE SectorOf(NextSector(a)) # SectorOf(a)
<1>1. PICK z \in 0 .. Sectors - 1, o \in Offsets : z \in Laps /\ a = Addr(z, o) /\ Lap(z) = z
  BY AddrOf
<1>2. z + 1 \in Laps /\ z < z + 1 /\ z + 1 < z + Sectors
  BY Geometry DEF Laps
<1>3. PICK y \in Laps : y = z + 1
  BY <1>2
<1>4. NextSector(a) = Addr(y, 0) /\ 0 \in Offsets
  BY <1>1, <1>2, <1>3, AddrNext, Geometry DEF Offsets
<1>5. SectorOf(NextSector(a)) = Lap(y) /\ SectorOf(a) = Lap(z)
  BY <1>1, <1>4, AddrParts
<1>6. Lap(z) # Lap(y)
  BY <1>1, <1>2, <1>3, LapApart
<1>7. QED BY <1>5, <1>6

\* A put that crosses into the next sector comes from the middle of one.
LEMMA CrossesParts ==
  ASSUME Sane, Crosses, req \in Sizes
  PROVE  meta.head % Size # 0 /\ meta.head \in 0 .. Region - 1 /\ meta.head % Size \in 0 .. Size - 1
<1>1. PICK h \in Nat : h = meta.head /\ h \in 0 .. Region - 1
  BY DEF Sane, Data, EntryBelow
<1>2. PICK m \in Nat : m = h % Size /\ m \in 0 .. Size - 1
  BY SectorParts
<1>3. req \in Nat /\ req <= Size /\ Size \in Nat
  BY Geometry
<1>4. m + req > Size
  BY <1>1, <1>2 DEF Crosses
<1>5. m # 0
  BY <1>3, <1>4
<1>6. QED BY <1>1, <1>2, <1>5

\* The record is given a place.
LEMMA PlaceLog ==
  ASSUME Upright, ~spoilt, ~spoilt', Place PROVE Implemented
<1>1. /\ pc = "room" /\ ready /\ Room /\ at' = Target /\ pc' = (IF Crosses THEN "erase" ELSE "program")
      /\ ~Spoils /\ cells' = cells /\ journal' = journal /\ meta' = meta /\ ready' = ready
      /\ op' = op /\ req' = req /\ next' = next
  BY DEF Place, jVars, Upright, Authority
<1>2. Front' = Front /\ ready \in BOOLEAN /\ ~Saving /\ ~Saving' /\ Front = meta
  BY <1>1 DEF Front, Upright, Flags, Saving, Appending
<1>3. Logging' /\ UNCHANGED Tier!vars
  BY <1>1, <1>2, QuietStep DEF Upright
<1>4. Crosses' = Crosses /\ Target' = Target
  BY <1>1 DEF Crosses, Target
<1>5. ASSUME Crosses
      PROVE  /\ SectorOf(Target) # SectorOf(Best(journal).tail)
             /\ (meta.head % Size) + Magic <= Size /\ LooksBlank(cells, meta.head)
  <2>1. req \in Sizes
    BY <1>1 DEF Upright, Sane, Control, Putting
  <2>2. PICK m \in Nat : m = meta.head % Size /\ m \in 0 .. Size - 1
    BY <1>5, <2>1, CrossesParts DEF Upright
  <2>3. ~(Size - m < Magic) /\ LooksBlank(cells, meta.head)
    BY <1>1, <1>5, <2>2 DEF Spoils
  <2>4. m + Magic <= Size
    BY <2>2, <2>3, Geometry, QspiAssumption
  <2>5. Best(journal) = meta \/ SectorOf(Best(journal).tail) # SectorOf(Target)
    BY <1>1, <1>5 DEF Spoils
  <2>6. ASSUME Best(journal) = meta PROVE SectorOf(Target) # SectorOf(meta.tail)
    <3>1. CASE meta.count # 0
      BY <1>1, <1>5, <3>1 DEF Room
    <3>2. CASE meta.count = 0
      <4>1. Logged(meta, meta, cells, next)
        BY <1>2, <2>6, Zenon DEF Upright, Logging
      <4>2. PICK Z, O, R, d : Track(Z, O, R, d, meta, meta, cells, next)
        BY <4>1, Zenon DEF Logged
      <4>3. meta.tail = meta.head
        BY <3>2, <4>2 DEF Track
      <4>4. meta.head \in 0 .. Region - 1
        BY DEF Upright, Sane, Data, EntryBelow
      <4>5. Target = NextSector(meta.head)
        BY <1>5 DEF Target
      <4>6. QED BY <4>3, <4>4, <4>5, NextDiffers
    <3>3. QED BY <3>1, <3>2
  <2>7. QED BY <2>2, <2>3, <2>4, <2>5, <2>6
<1>6. Placing'
  <2>1. at' = Target' /\ (pc' = "erase" => Crosses')
    BY <1>1, <1>4
  <2>2. Crosses' => /\ SectorOf(at') # SectorOf(Best(journal').tail)
                    /\ (meta'.head % Size) + Magic <= Size /\ LooksBlank(cells', meta'.head)
    BY <1>1, <1>4, <1>5
  <2>3. QED BY <2>1, <2>2 DEF Placing
<1>7. QED BY <1>3, <1>6 DEF Implemented

\* What a flash operation of a put changes.
LEMMA CellsChanged ==
  ASSUME Sane, pc \in {"erase", "program"}, NEW t \in CellOutcomes,
         NEW c \in 0 .. Region - 1, t[c] # cells[c]
  PROVE  SectorOf(c) = SectorOf(at) /\ (pc = "program" => c \in at .. at + req - 1)
<1>1. /\ at \in Nat /\ req \in Sizes /\ (at % Size) + req <= Size /\ DOMAIN cells = 0 .. Region - 1
      /\ Size \in Nat /\ Size >= 2 /\ req \in Nat
  BY Geometry DEF Sane, Data, Control, Putting, Contents
<1>2. CASE pc = "erase"
  <2>1. PICK s \in Nat : s = SectorOf(at)
    BY <1>1, SectorParts
  <2>2. \E w \in {Blank, Junk} : t = Erased(s, w)
    <3>1. t = cells \/ \E w \in {Blank, Junk} : t = Erased(s, w)
      BY <1>2, <2>1 DEF CellOutcomes, ErasedSectors
    <3>2. QED BY <3>1
  <2>3. c \in InSector(s)
    BY <1>1, <2>2 DEF Erased
  <2>4. PICK b \in Nat : b = s * Size
    BY <1>1, <2>1
  <2>5. PICK r \in Nat : c = b + r /\ r \in 0 .. Size - 1
    <3>1. c >= b /\ c <= b + Size - 1
      BY <2>3, <2>4 DEF InSector
    <3>2. c - b \in 0 .. Size - 1 /\ c = b + (c - b) /\ c - b \in Nat
      BY <1>1, <2>4, <3>1
    <3>3. QED BY <3>2
  <2>6. SectorOf(s * Size + r) = s
    BY <2>5, SectorValue
  <2>7. SectorOf(c) = s
    BY <2>4, <2>5, <2>6
  <2>8. QED BY <1>2, <2>1, <2>7
<1>3. CASE pc = "program"
  <2>1. PICK p \in 0 .. req : t = ProgramPrefix(p)
    <3>1. t = cells \/ \E p \in 0 .. req : t = ProgramPrefix(p)
      BY <1>3 DEF CellOutcomes, ErasedSectors
    <3>2. QED BY <3>1
  <2>2. c \in at .. at + p - 1
    BY <1>1, <2>1 DEF ProgramPrefix
  <2>3. c \in at .. at + req - 1
    BY <1>1, <2>2
  <2>4. PICK n \in Nat : n = c - at + 1 /\ n > 0 /\ n <= req /\ c = at + n - 1
    <3>1. PICK a, b, q \in Nat : a = at /\ b = c /\ q = req
      BY <1>1, Geometry
    <3>2. a <= b /\ b <= a + q - 1
      BY <2>3, <3>1
    <3>3. /\ b - a + 1 \in Nat /\ b - a + 1 > 0 /\ b - a + 1 <= q
          /\ b = a + (b - a + 1) - 1
      BY <3>2
    <3>4. PICK n \in Nat : n = b - a + 1 /\ n > 0 /\ n <= q /\ b = a + n - 1
      BY <3>3
    <3>5. QED BY <3>1, <3>4
  <2>5. PICK m \in Nat : m = at % Size
    <3>1. PICK a \in Nat : a = at
      BY <1>1
    <3>2. a % Size \in 0 .. Size - 1
      BY SectorParts
    <3>3. QED BY <1>1, <3>1, <3>2
  <2>6. (at % Size) + n <= Size
    <3>1. m + n <= Size
      BY <1>1, <2>4, <2>5
    <3>2. QED BY <2>5, <3>1
  <2>7. SectorOf(at + n - 1) = SectorOf(at)
    BY <1>1, <2>4, <2>6, OneSector
  <2>8. QED BY <2>3, <2>4, <2>7
<1>4. QED BY <1>2, <1>3

\* Whatever becomes of it, a flash operation of a put leaves the log alone.
LEMMA FlashKept ==
  ASSUME Upright, pc \in {"erase", "program"}, pc = "program" => ~Overprograms,
         NEW t \in CellOutcomes, NEW Z, NEW O, NEW R, NEW d,
         Track(Z, O, R, d, Best(journal), meta, cells, next)
  PROVE  Log(t, d + meta.count, Z, O, R) /\ Untracked(cells, t, at)
<1>1. /\ at = Target /\ (pc = "erase" => Crosses) /\ Sane /\ req \in Sizes
      /\ Crosses => SectorOf(at) # SectorOf(Best(journal).tail)
  BY DEF Upright, Placing, Sane, Control, Putting
<1>2. /\ Untracked(cells, t, at)
      /\ \A c \in 0 .. Region - 1 : t[c] # cells[c] => (pc = "program" => c \in at .. at + req - 1)
  BY <1>1, CellsChanged DEF Untracked
<1>3. CASE Crosses
  <2>1. at = NextSector(meta.head) /\ meta.head % Size # 0
    BY <1>1, <1>3, CrossesParts DEF Target
  <2>2. SectorOf(NextSector(meta.head)) # SectorOf(Best(journal).tail)
    BY <1>1, <1>3, <2>1
  <2>3. Untracked(cells, t, NextSector(meta.head))
    BY <1>2, <2>1
  <2>4. QED BY <1>2, <2>1, <2>2, <2>3, NextUntracked
<1>4. CASE ~Crosses
  <2>1. at = meta.head /\ pc = "program"
    BY <1>1, <1>4 DEF Target
  <2>2. \A c \in at .. at + req - 1 : cells[c] = Blank
    BY <2>1 DEF Overprograms
  <2>3. at \in at .. at + req - 1
    <3>1. at \in Nat /\ req \in Nat /\ req >= 2
      BY <1>1, Geometry DEF Sane, Data
    <3>2. QED BY <3>1
  <2>4. cells[meta.head] = Blank
    BY <2>1, <2>2, <2>3
  <2>5. \A c \in 0 .. Region - 1 : t[c] # cells[c] => cells[c] = Blank
    BY <1>2, <2>1, <2>2
  <2>6. Untracked(cells, t, meta.head)
    BY <1>2, <2>1
  <2>7. QED BY <1>2, <2>4, <2>5, <2>6, HeadUntracked
<1>5. QED BY <1>3, <1>4

\* A log of records so far is one of records to come.
LEMMA LoggedLater ==
  ASSUME NEW old, NEW front, NEW s, NEW nx, Logged(old, front, s, nx)
  PROVE  Logged(old, front, s, nx + 1)
<1>1. PICK Z, O, R, d : Track(Z, O, R, d, old, front, s, nx)
  BY Zenon DEF Logged
<1>2. PICK n \in Nat : n = d + front.count /\ Log(s, n, Z, O, R)
  BY <1>1, TrackParts
<1>3. nx \in Nat /\ nx + 1 \in Nat
  BY <1>1 DEF Track
<1>4. \A i \in 0 .. n - 1 : R[i] < nx + 1
  <2>1. ASSUME NEW i \in 0 .. n - 1 PROVE R[i] < nx + 1
    <3>1. i \in Nat /\ R[i] < nx
      BY <1>1, <1>2 DEF Track
    <3>2. R[i] \in Nat
      BY <1>2, <3>1, LogParts
    <3>3. QED BY <1>3, <3>1, <3>2
  <2>2. QED BY <2>1
<1>5. Track(Z, O, R, d, old, front, s, nx + 1)
  BY <1>1, <1>2, <1>3, <1>4 DEF Track
<1>6. QED BY <1>5, Zenon DEF Logged

\* So the queues stay what they are.
LEMMA FlashLogged ==
  ASSUME Upright, pc \in {"erase", "program"}, pc = "program" => ~Overprograms,
         NEW t \in CellOutcomes
  PROVE  /\ Logged(Best(journal), meta, t, next)
         /\ Logged(Best(journal), meta, t, IF pc = "program" THEN next + 1 ELSE next)
         /\ Queue(meta, t) = Queue(meta, cells)
         /\ Queue(Best(journal), t) = Queue(Best(journal), cells)
<1>1. Logged(Best(journal), meta, cells, next)
  <2>1. Front = meta
    BY DEF Front, Upright, Authority
  <2>2. QED BY <2>1, Zenon DEF Upright, Logging
<1>2. PICK Z, O, R, d : Track(Z, O, R, d, Best(journal), meta, cells, next)
  BY <1>1, Zenon DEF Logged
<1>3. Log(t, d + meta.count, Z, O, R)
  BY <1>2, FlashKept
<1>4. /\ Track(Z, O, R, d, Best(journal), meta, t, next)
      /\ Queue(meta, t) = Queue(meta, cells)
      /\ Queue(Best(journal), t) = Queue(Best(journal), cells)
  BY <1>2, <1>3, TrackKept
<1>5. Logged(Best(journal), meta, t, next)
  BY <1>4, Zenon DEF Logged
<1>6. Logged(Best(journal), meta, t, next + 1)
  BY <1>5, LoggedLater
<1>7. QED BY <1>4, <1>5, <1>6

\* The erase of a put's sector.
LEMMA EraseSectorLog ==
  ASSUME Upright, ~spoilt, ~spoilt', EraseSector PROVE Implemented
<1>1. /\ pc = "erase" /\ pc' = "program" /\ cells' = Erased(SectorOf(at), Blank)
      /\ journal' = journal /\ meta' = meta /\ ready' = ready /\ op' = op /\ req' = req
      /\ at' = at /\ next' = next
  BY DEF EraseSector, jVars, putVars
<1>2. PICK t \in CellOutcomes : t = cells'
  <2>1. PICK s, w : s = SectorOf(at) /\ w = Blank
    OBVIOUS
  <2>2. s \in ErasedSectors /\ w \in {Blank, Junk}
    BY <1>1, <2>1 DEF ErasedSectors
  <2>3. PICK x : x = Erased(s, w)
    OBVIOUS
  <2>4. x \in {Erased(q, c) : q \in ErasedSectors, c \in {Blank, Junk}}
    <3>1. \E q \in ErasedSectors, c \in {Blank, Junk} : x = Erased(q, c)
      BY <2>2, <2>3
    <3>2. QED BY <3>1
  <2>5. x \in CellOutcomes
    BY <2>4 DEF CellOutcomes
  <2>6. QED BY <1>1, <2>1, <2>3, <2>5
<1>3. ready /\ ready' /\ Crosses /\ at = Target /\ (meta.head % Size) + Magic <= Size
      /\ LooksBlank(cells, meta.head) /\ SectorOf(at) # SectorOf(Best(journal).tail)
  BY <1>1 DEF Upright, Authority, Placing
<1>4. /\ Logged(Best(journal), meta, t, next) /\ Queue(meta, t) = Queue(meta, cells)
      /\ Queue(Best(journal), t) = Queue(Best(journal), cells)
  BY <1>1, FlashLogged
<1>5. Front' = meta /\ ~Saving /\ ~Saving'
  BY <1>1, <1>3 DEF Front, Saving, Appending
<1>6. Logging'
  <2>1. Logged(Best(journal'), Front', cells', next')
    BY <1>1, <1>2, <1>4, <1>5
  <2>2. QED BY <2>1, Zenon DEF Logging
<1>7. Stored' = Stored /\ Recovered' = Recovered
  BY <1>1, <1>2, <1>3, <1>4 DEF Stored, Recovered
<1>8. LooksBlank(cells', meta.head)
  <2>1. meta.head \in Nat /\ DOMAIN cells = 0 .. Region - 1 /\ Header \in Nat
    BY QspiAssumption DEF Upright, Sane, Data, EntryBelow, Contents
  <2>2. ASSUME NEW k \in 0 .. Magic - 1, meta.head + k < Region
        PROVE  cells'[meta.head + k] = Blank
    <3>1. cells[meta.head + k] = Blank
      BY <1>3, <2>2 DEF LooksBlank
    <3>2. PICK c \in 0 .. Region - 1 : c = meta.head + k
      BY <2>1, <2>2, Geometry
    <3>3. cells'[c] = IF c \in InSector(SectorOf(at)) THEN Blank ELSE cells[c]
      BY <1>1, <2>1, <3>2 DEF Erased
    <3>4. QED BY <3>1, <3>2, <3>3
  <2>3. QED BY <2>2 DEF LooksBlank
<1>9. Placing'
  <2>1. Crosses' = Crosses /\ Target' = Target
    BY <1>1 DEF Crosses, Target
  <2>2. at' = Target' /\ pc' # "erase" /\ SectorOf(at') # SectorOf(Best(journal').tail)
        /\ (meta'.head % Size) + Magic <= Size /\ LooksBlank(cells', meta'.head)
    BY <1>1, <1>3, <1>8, <2>1
  <2>3. QED BY <2>2 DEF Placing
<1>10. UNCHANGED Tier!vars
  BY <1>5, <1>7, TierStutter
<1>11. QED BY <1>6, <1>9, <1>10 DEF Implemented

\* Where the put writes, seen from the log.
LEMMA PutPlace ==
  ASSUME Upright, pc = "program", ~Overprograms, NEW t \in CellOutcomes,
         NEW Z, NEW O, NEW R, NEW d,
         Track(Z, O, R, d, Best(journal), meta, cells, next),
         NEW n \in Nat, n = d + meta.count
  PROVE  \E y \in Laps, p \in Offsets :
           /\ at = Addr(y, p) /\ p + req <= Size /\ Z[n] <= y /\ y < Z[0] + Sectors
           /\ (y = Z[n] /\ p = O[n]) \/ (y = Z[n] + 1 /\ p = 0 /\ Padded(t, Z[n], O[n]))
<1>1. /\ at = Target /\ Sane /\ req \in Sizes /\ req \in Nat /\ req >= 2 /\ req <= Size
      /\ Crosses => /\ SectorOf(at) # SectorOf(Best(journal).tail)
                    /\ (meta.head % Size) + Magic <= Size /\ LooksBlank(cells, meta.head)
  BY Geometry DEF Upright, Placing, Sane, Control, Putting
<1>2. Untracked(cells, t, at)
  BY FlashKept
<1>3. /\ meta.head = Addr(Z[n], O[n]) /\ Z[n] \in Laps /\ O[n] \in Offsets /\ Z[0] \in Laps
      /\ meta.head % Size = O[n] /\ meta.head \in 0 .. Region - 1
      /\ SectorOf(meta.head) = Lap(Z[n])
  BY TrackParts
<1>4. PICK z \in Laps, o \in Offsets : z = Z[n] /\ o = O[n]
  BY <1>3
<1>5. z \in Nat /\ o \in Nat /\ Size \in Nat /\ Magic \in Nat
  BY <1>4, Geometry, QspiAssumption DEF Laps, Offsets
<1>6. CASE Crosses
  <2>1. at = NextSector(meta.head) /\ meta.head % Size # 0
    BY <1>1, <1>6, CrossesParts DEF Target
  <2>2. SectorOf(NextSector(meta.head)) # SectorOf(Best(journal).tail)
    BY <1>1, <1>6, <2>1
  <2>3. PICK w \in Laps : /\ w = Z[n] + 1 /\ w < Z[0] + Sectors
                          /\ NextSector(meta.head) = Addr(w, 0)
    BY <2>1, <2>2, NextPlace
  <2>4. ASSUME NEW k \in 0 .. Magic - 1 PROVE t[Addr(z, o + k)] = Blank
    <3>1. k \in Nat /\ o + k \in Offsets
      BY <1>1, <1>3, <1>4, <1>5, <1>6 DEF Offsets
    <3>2. PICK q \in Offsets : q = o + k
      BY <3>1
    <3>3. Addr(z, o) + k = Addr(z, q)
      BY <1>5, <3>1, <3>2, AddrPlus
    <3>4. Addr(z, q) \in 0 .. Region - 1 /\ SectorOf(Addr(z, q)) = Lap(z)
      BY AddrParts
    <3>5. meta.head + k = Addr(z, q) /\ meta.head + k < Region
      <4>1. PICK c \in Nat : c = Addr(z, q) /\ c < Region
        BY <3>4, Geometry
      <4>2. QED BY <1>3, <1>4, <3>3, <4>1
    <3>6. cells[meta.head + k] = Blank
      BY <1>1, <1>6, <3>5 DEF LooksBlank
    <3>7. SectorOf(Addr(z, q)) # SectorOf(at)
      BY <1>3, <1>4, <2>1, <3>4, NextDiffers
    <3>8. t[Addr(z, q)] = cells[Addr(z, q)]
      BY <1>2, <3>4, <3>7 DEF Untracked
    <3>9. QED BY <3>2, <3>5, <3>6, <3>8
  <2>5. Padded(t, z, o)
    BY <1>1, <1>3, <1>4, <1>6, <2>1, <2>4 DEF Padded
  <2>6. 0 \in Offsets /\ 0 + req <= Size /\ z <= w
    BY <1>1, <1>4, <1>5, <2>3, Geometry DEF Offsets
  <2>7. QED BY <1>4, <2>1, <2>3, <2>5, <2>6
<1>7. CASE ~Crosses
  <2>1. at = meta.head
    BY <1>1, <1>7 DEF Target
  <2>2. at \in at .. at + req - 1
    BY <1>1 DEF Sane, Data
  <2>3. cells[meta.head] = Blank
    BY <2>1, <2>2 DEF Overprograms
  <2>4. Z[n] < Z[0] + Sectors
    BY <2>3, HeadPlace
  <2>5. o + req <= Size
    BY <1>1, <1>3, <1>4, <1>5, <1>7 DEF Crosses
  <2>6. z <= z
    BY <1>5
  <2>7. QED BY <1>3, <1>4, <2>1, <2>4, <2>5, <2>6
<1>8. QED BY <1>6, <1>7

\* What the program leaves is a record.
LEMMA PutWritten ==
  ASSUME Upright, pc = "program", ~Overprograms,
         NEW y \in Laps, NEW p \in Offsets, at = Addr(y, p), p + req <= Size
  PROVE  Written(ProgramPrefix(req), y, p, req, next)
<1>1. /\ req \in Nat /\ req > Header /\ p \in Nat /\ Size \in Nat /\ at \in Nat
      /\ DOMAIN cells = 0 .. Region - 1
  <2>1. req \in Sizes /\ at \in Nat /\ DOMAIN cells = 0 .. Region - 1
    BY DEF Upright, Sane, Data, Control, Putting, Contents
  <2>2. QED BY <2>1, Geometry, QspiAssumption DEF Offsets
<1>2. ASSUME NEW k \in 0 .. req - 1
      PROVE  ProgramPrefix(req)[Addr(y, p + k)] = Part(next, k, req)
  <2>1. k \in Nat /\ p + k \in Offsets
    BY <1>1, <1>2 DEF Offsets
  <2>2. PICK q \in Offsets : q = p + k
    BY <2>1
  <2>3. Addr(y, p) + k = Addr(y, q)
    BY <1>1, <2>1, <2>2, AddrPlus
  <2>4. PICK c \in 0 .. Region - 1 : c = Addr(y, q)
    BY AddrParts
  <2>5. c = at + k /\ c \in at .. at + req - 1 /\ c - at = k
    <3>1. c = at + k
      BY <2>3, <2>4
    <3>2. QED BY <1>1, <2>1, <3>1
  <2>6. cells[c] = Blank
    BY <2>5 DEF Overprograms
  <2>7. ProgramPrefix(req)[c] = PartOf(k)
    BY <1>1, <2>5, <2>6 DEF ProgramPrefix
  <2>8. QED BY <2>2, <2>4, <2>7 DEF PartOf, Part
<1>3. QED BY <1>1, <1>2 DEF Written

\* The record is queued.
LEMMA ProgramLog ==
  ASSUME Upright, ~spoilt, ~spoilt', Program PROVE Implemented
<1>1. /\ pc = "program" /\ cells' = ProgramPrefix(req) /\ ~Overprograms /\ next' = next + 1
      /\ meta' = [meta EXCEPT !.head = HeadAfter, !.count = @ + 1, !.seq = @ + 1]
      /\ op' = "put" /\ pc' \in {"append", "rollErase"} /\ journal' = journal /\ ready' = ready
      /\ ready
  BY DEF Program, StartAppend, jVars, Upright, Authority
<1>2. PICK t \in CellOutcomes : t = cells'
  <2>1. PICK x : x = ProgramPrefix(req)
    OBVIOUS
  <2>2. req \in 0 .. req
    BY Geometry, <1>1 DEF Upright, Sane, Control, Putting
  <2>3. x \in {ProgramPrefix(p) : p \in 0 .. req}
    BY <2>1, <2>2
  <2>4. x \in CellOutcomes
    BY <1>1, <2>3 DEF CellOutcomes
  <2>5. QED BY <1>1, <2>1, <2>4
<1>3. Logged(Best(journal), meta, cells, next)
  <2>1. Front = meta
    BY <1>1 DEF Front
  <2>2. QED BY <2>1, Zenon DEF Upright, Logging
<1>4. PICK Z, O, R, d : Track(Z, O, R, d, Best(journal), meta, cells, next)
  BY <1>3, Zenon DEF Logged
<1>5. Log(t, d + meta.count, Z, O, R)
  BY <1>1, <1>4, FlashKept
<1>6. /\ Track(Z, O, R, d, Best(journal), meta, t, next)
      /\ Queue(meta, t) = Queue(meta, cells)
      /\ Queue(Best(journal), t) = Queue(Best(journal), cells)
  BY <1>4, <1>5, TrackKept
<1>7. PICK n \in Nat : n = d + meta.count
  BY <1>4, TrackParts
<1>8. PICK y \in Laps, p \in Offsets :
        /\ at = Addr(y, p) /\ p + req <= Size /\ Z[n] <= y /\ y < Z[0] + Sectors
        /\ (y = Z[n] /\ p = O[n]) \/ (y = Z[n] + 1 /\ p = 0 /\ Padded(t, Z[n], O[n]))
  BY <1>1, <1>4, <1>7, PutPlace
<1>9. Written(t, y, p, req, next)
  BY <1>1, <1>2, <1>8, PutWritten
<1>10. PICK m \in Nat : m = req
  BY <1>1, Geometry DEF Upright, Sane, Control, Putting
<1>11. Found(t, Z[n], O[n], y, p, m, next)
  BY <1>8, <1>9, <1>10 DEF Found
<1>12. p # 0 => t[Addr(y, 0)] # Blank
  <2>1. ASSUME p # 0 PROVE t[Addr(y, 0)] # Blank
    <3>1. y = Z[n] /\ p = O[n]
      BY <1>8, <2>1
    <3>2. n \in 0 .. n /\ Log(t, n, Z, O, R)
      BY <1>5, <1>7
    <3>3. O[n] # 0 => t[Addr(Z[n], 0)] # Blank
      BY <3>2 DEF Log
    <3>4. QED BY <2>1, <3>1, <3>3
  <2>2. QED BY <2>1
<1>13. PICK f : f = meta'
  OBVIOUS
<1>14. f.tail = meta.tail /\ f.count = meta.count + 1 /\ f.head = Wrap(Addr(y, p) + m)
  BY <1>1, <1>8, <1>10, <1>13 DEF HeadAfter, Upright, Sane, Data, EntryBelow
<1>15. /\ Logged(Best(journal), f, t, next + 1)
       /\ Queue(f, t) = Append(Queue(meta, t), next)
       /\ \A i \in 1 .. Len(Queue(meta, t)) : Queue(meta, t)[i] # next
  BY <1>6, <1>7, <1>8, <1>11, <1>12, <1>14, TrackMore
<1>16. Stored = Queue(meta, cells) /\ Stored' = Queue(f, t) /\ Recovered' = Recovered
  BY <1>1, <1>2, <1>6, <1>13 DEF Stored, Recovered
<1>17. Front' = f
  BY <1>1, <1>13 DEF Front
<1>18. Logging'
  <2>1. Logged(Best(journal'), Front', cells', next')
    BY <1>1, <1>2, <1>15, <1>17
  <2>2. QED BY <2>1, Zenon DEF Logging
<1>19. ~Saving /\ Saving' /\ Placing'
  BY <1>1 DEF Saving, Appending, Placing
<1>20. next \in 1 .. MaxRec
  BY <1>1, Geometry DEF Upright, Sane, Data, Control, Putting
<1>21. Tier!Next
  <2>1. Stored' = Append(Stored, next) /\ \A i \in 1 .. Len(Stored) : Stored[i] # next
    BY <1>6, <1>15, <1>16
  <2>2. QED BY <1>16, <1>19, <1>20, <2>1, TierAccept
<1>22. QED BY <1>18, <1>19, <1>21 DEF Implemented

\* An erase or a program that fails.
LEMMA DataFailsLog ==
  ASSUME Upright, ~spoilt, ~spoilt', DataFails PROVE Implemented
<1>1. CASE pc = "reset"
  BY <1>1, ResetEraseLog
<1>2. CASE pc \in {"erase", "program"}
  <2>1. /\ pc' = "idle" /\ cells' \in CellOutcomes /\ meta' = meta /\ ready' = ready /\ ready
        /\ next' = (IF pc = "program" THEN next + 1 ELSE next)
        /\ pc = "program" => ~Overprograms
    BY <1>2 DEF DataFails, Upright, Authority
  <2>2. journal' = journal
    BY <1>2 DEF DataFails, JournalOutcomes
  <2>3. PICK t \in CellOutcomes : t = cells'
    BY <2>1
  <2>4. /\ Logged(Best(journal), meta, t, IF pc = "program" THEN next + 1 ELSE next)
        /\ Queue(meta, t) = Queue(meta, cells)
        /\ Queue(Best(journal), t) = Queue(Best(journal), cells)
    BY <1>2, <2>1, FlashLogged
  <2>5. Front' = meta /\ ~Saving /\ ~Saving' /\ Placing'
    BY <1>2, <2>1 DEF Front, Saving, Appending, Placing
  <2>6. Logging'
    <3>1. Logged(Best(journal'), Front', cells', next')
      BY <2>1, <2>2, <2>3, <2>4, <2>5
    <3>2. QED BY <3>1, Zenon DEF Logging
  <2>7. Stored' = Stored /\ Recovered' = Recovered
    BY <2>1, <2>2, <2>3, <2>4 DEF Stored, Recovered
  <2>8. UNCHANGED Tier!vars
    BY <2>5, <2>7, TierStutter
  <2>9. QED BY <2>5, <2>6, <2>8 DEF Implemented
<1>3. QED BY <1>1, <1>2 DEF DataFails

\* A reset: the log begins where the journal says.
LEMMA LostStep ==
  ASSUME ~spoilt, ~spoilt', ~Saving', ~ready',
         Logged(Best(journal'), Best(journal'), cells', next'),
         \/ Queue(Best(journal'), cells') = Queue(Best(journal), cells)
         \/ Saving /\ Queue(Best(journal'), cells') = Stored
  PROVE  Logging' /\ Tier!Next
<1>1. Front' = Best(journal') /\ Stored' = Recovered'
  BY DEF Front, Stored, Recovered
<1>2. Logging'
  <2>1. Logged(Best(journal'), Front', cells', next')
    BY <1>1
  <2>2. QED BY <2>1, Zenon DEF Logging
<1>3. Recovered' = Recovered \/ (Saving /\ Recovered' = Stored)
  BY DEF Recovered
<1>4. QED BY <1>1, <1>2, <1>3, TierReset

\* At any moment.
LEMMA PowerLossLog ==
  ASSUME Upright, ~spoilt, ~spoilt', PowerLoss PROVE Implemented
<1>1. /\ pc # "off" /\ pc' = "off" /\ ~ready' /\ meta' = meta /\ op' = op
      /\ cells' \in CellOutcomes /\ journal' \in JournalOutcomes
      /\ next' = (IF pc = "program" THEN next + 1 ELSE next)
      /\ pc = "program" => ~Overprograms
  BY DEF PowerLoss
<1>2. ~Saving' /\ Placing'
  BY <1>1 DEF Saving, Appending, Placing
<1>3. PICK j \in JournalOutcomes, t \in CellOutcomes : j = journal' /\ t = cells'
  BY <1>1
<1>4. next' \in Nat /\ Firm(journal)
  <2>1. next' \in Nat
    BY <1>1, Geometry DEF Upright, Sane, Data
  <2>2. Firm(journal)
    BY Zenon DEF Upright, Firmness
  <2>3. QED BY <2>1, <2>2
<1>5. Logged(Best(journal), Front, cells, next)
  BY Zenon DEF Upright, Logging
<1>6. Best(j) = Best(journal) \/ (Adds(j) /\ Best(j) = meta)
  BY OutcomeKinds, ThinnerSame, AddsNew DEF Upright
<1>7. CASE pc \in {"erase", "program"} /\ Best(j) = Best(journal)
  <2>1. /\ Logged(Best(journal), meta, t, next')
        /\ Queue(Best(journal), t) = Queue(Best(journal), cells)
    BY <1>1, <1>7, FlashLogged
  <2>2. Logged(Best(journal), Best(journal), t, next')
    BY <2>1, LoggedLost
  <2>3. Logging' /\ Tier!Next
    BY <1>1, <1>2, <1>3, <1>7, <2>1, <2>2, LostStep
  <2>4. QED BY <1>2, <2>3 DEF Implemented
<1>8. CASE pc = "reset" /\ Best(j) = Best(journal)
  <2>1. Nothing(journal)
    <3>1. ~Running
      BY <1>8 DEF Running, Appending
    <3>2. QED BY <1>1, <3>1, Zenon DEF Upright, Firmness
  <2>2. /\ Logged(Best(journal), Best(journal), t, next') /\ Queue(Best(journal), t) = <<>>
        /\ Queue(Best(journal), cells) = <<>>
    BY <1>4, <2>1, NothingEmpty
  <2>3. Logging' /\ Tier!Next
    BY <1>1, <1>2, <1>3, <1>8, <2>2, LostStep
  <2>4. QED BY <1>2, <2>3 DEF Implemented
<1>9. CASE pc \notin {"erase", "program", "reset"} /\ Best(j) = Best(journal)
  <2>1. cells' = cells /\ next' = next
    BY <1>1, <1>9 DEF CellOutcomes, ErasedSectors
  <2>2. Logged(Best(journal), Best(journal), cells, next)
    BY <1>5, LoggedLost
  <2>3. Logging' /\ Tier!Next
    BY <1>1, <1>2, <1>3, <1>9, <2>1, <2>2, LostStep
  <2>4. QED BY <1>2, <2>3 DEF Implemented
<1>10. CASE Adds(j) /\ Best(j) = meta
  <2>1. pc \in Appending
    BY <1>10 DEF Adds, Appending
  <2>2. cells' = cells /\ next' = next
    BY <1>1, <2>1 DEF CellOutcomes, ErasedSectors, Appending
  <2>3. CASE op = "reset"
    <3>1. Nothing(journal) /\ meta = Entry(1, 0, 0, 0)
      BY <2>1, <2>3, Zenon DEF Upright, Firmness
    <3>2. meta.head = 0 /\ meta.tail = 0 /\ meta.count = 0
      BY <3>1 DEF Entry
    <3>3. Logged(meta, meta, cells, next') /\ Queue(meta, cells) = <<>>
      BY <1>4, <3>2, LoggedEmpty
    <3>4. Queue(Best(journal), cells) = <<>>
      BY <1>4, <3>1, NothingEmpty
    <3>5. Logging' /\ Tier!Next
      BY <1>1, <1>2, <1>3, <1>10, <2>2, <3>3, <3>4, LostStep
    <3>6. QED BY <1>2, <3>5 DEF Implemented
  <2>4. CASE op # "reset"
    <3>1. ready /\ Saving
      BY <2>1, <2>4 DEF Upright, Authority, Saving, Appending
    <3>2. Front = meta /\ Stored = Queue(meta, cells)
      BY <3>1 DEF Front, Stored
    <3>3. Logged(Best(journal), meta, cells, next)
      BY <1>5, <3>2
    <3>4. Logged(meta, meta, cells, next)
      BY <3>3, LoggedSaved
    <3>5. Logging' /\ Tier!Next
      BY <1>1, <1>2, <1>3, <1>10, <2>2, <3>1, <3>2, <3>4, LostStep
    <3>6. QED BY <1>2, <3>5 DEF Implemented
  <2>5. QED BY <2>3, <2>4
<1>11. QED BY <1>6, <1>7, <1>8, <1>9, <1>10

\* Once a hazard of the layout has struck, nothing is promised for good.
LEMMA SpoiltStays == ASSUME spoilt \in BOOLEAN, spoilt, [Next]_vars PROVE spoilt'
<1>1. CASE UNCHANGED vars
  BY <1>1 DEF vars
<1>2. CASE PowerOn \/ ResetErase \/ ResetAppend \/ PowerLoss \/ DataFails
  BY <1>2 DEF PowerOn, ResetErase, ResetAppend, PowerLoss, DataFails
<1>3. CASE AppendEntry \/ RollErase \/ Roll \/ AppendFails
  BY <1>3 DEF AppendEntry, RollErase, Roll, AppendFails
<1>4. CASE Consume \/ (\E s \in Sizes : Put(s)) \/ Drop \/ Place \/ EraseSector \/ Program
  BY <1>4 DEF Consume, Put, Drop, Place, EraseSector, Program
<1>5. QED BY <1>1, <1>2, <1>3, <1>4 DEF Next

\* The journal is in order after every step.
LEMMA StepFirm ==
  ASSUME Upright, ~spoilt, ~spoilt', Next PROVE Firmness'
<1> USE DEF Upright
<1>1. CASE PowerOn
  BY <1>1, PowerOnFirm
<1>2. CASE ResetAppend
  BY <1>2, ResetAppendFirm
<1>3. CASE PowerLoss
  BY <1>3, PowerLossFirm
<1>4. CASE AppendEntry
  BY <1>4, AppendFirm
<1>5. CASE RollErase
  BY <1>5, RollEraseFirm
<1>6. CASE Roll
  BY <1>6, RollFirm
<1>7. CASE AppendFails
  BY <1>7, AppendFailsFirm
<1>8. CASE Consume \/ Drop \/ Program
  BY <1>8, StartFirm
<1>9. CASE (\E s \in Sizes : Put(s)) \/ Place \/ EraseSector
  <2>1. /\ Running /\ UNCHANGED <<journal, meta, active, index>>
        /\ ready' /\ pc' \in {"idle", "room", "erase", "program"}
    BY <1>9 DEF Put, Place, EraseSector, jVars, Authority, Running
  <2>2. QED BY <2>1, SameFirm
<1>10. CASE ResetErase \/ (DataFails /\ pc = "reset")
  <2>1. pc = "reset" /\ journal' \in JournalOutcomes /\ (pc' = "reset" \/ (pc' = "idle" /\ ready' = ready))
    <3>1. CASE ResetErase
      BY <3>1, ResetOutcome DEF ResetErase
    <3>2. CASE DataFails /\ pc = "reset"
      BY <3>2 DEF DataFails
    <3>3. QED BY <1>10, <3>1, <3>2
  <2>2. QED BY <2>1, ResetFirm
<1>11. CASE DataFails /\ pc # "reset"
  <2>1. journal' = journal
    BY <1>11 DEF DataFails, JournalOutcomes
  <2>2. /\ Running /\ UNCHANGED <<journal, meta, active, index>>
        /\ ready' /\ pc' \in {"idle", "room", "erase", "program"}
    BY <1>11, <2>1 DEF DataFails, Authority, Running
  <2>3. QED BY <2>2, SameFirm
<1>12. QED BY <1>1, <1>2, <1>3, <1>4, <1>5, <1>6, <1>7, <1>8, <1>9, <1>10, <1>11 DEF Next

\* Every step is one of the tier's.
LEMMA StepImplemented ==
  ASSUME Upright, ~spoilt, ~spoilt', Flags', Next PROVE Implemented
<1>1. CASE PowerOn \/ ResetErase \/ ResetAppend \/ PowerLoss \/ DataFails
  BY <1>1, PowerOnLog, ResetEraseLog, ResetAppendLog, PowerLossLog, DataFailsLog
<1>2. CASE AppendEntry \/ RollErase \/ Roll \/ AppendFails
  BY <1>2, AppendLog, RollEraseLog, AppendFailsLog
<1>3. CASE Consume \/ (\E s \in Sizes : Put(s)) \/ Drop \/ Place \/ EraseSector \/ Program
  BY <1>3, TakeLog, PutLog, PlaceLog, EraseSectorLog, ProgramLog
<1>4. QED BY <1>1, <1>2, <1>3 DEF Next

\* The log, until a hazard of the layout strikes.
Tracked == ~spoilt => Firmness /\ Logging /\ Placing
Whole == Sane /\ Flags /\ Authority /\ JournalInOrder /\ Tracked

\* The invariant is inductive, and every step implements one of the tier's.
LEMMA StepTracked ==
  ASSUME Whole, Flags', [Next]_vars PROVE Tracked' /\ [Tier!Next]_(Tier!vars)
<1>1. CASE spoilt'
  BY <1>1, TierSpoilt DEF Tracked
<1>2. CASE ~spoilt' /\ UNCHANGED vars
  <2>1. ~spoilt /\ Firmness /\ Logging /\ Placing
    BY <1>2 DEF vars, Whole, Tracked
  <2>2. UNCHANGED <<cells, journal, meta, active, index, ready, pc, op, req, at, next>>
    BY <1>2 DEF vars
  <2>3. Firmness'
    BY <2>1, <2>2, Zenon DEF Firmness, Running, Older, Unused, Newest, RollTarget
  <2>4. Logging'
    BY <2>1, <2>2 DEF Logging, Front
  <2>5. Placing'
    BY <2>1, <2>2 DEF Placing, Target, Crosses
  <2>6. Stored' = Stored /\ Recovered' = Recovered /\ (Saving' <=> Saving)
    BY <2>2 DEF Stored, Recovered, Saving
  <2>7. QED BY <1>2, <2>1, <2>3, <2>4, <2>5, <2>6, TierStutter DEF Tracked
<1>3. CASE ~spoilt' /\ Next
  <2>1. ~spoilt
    BY <1>3, SpoiltStays DEF Whole, Flags
  <2>2. Upright
    BY <2>1 DEF Whole, Upright, Tracked
  <2>3. Firmness' /\ Implemented
    BY <1>3, <2>1, <2>2, StepFirm, StepImplemented
  <2>4. QED BY <2>3 DEF Tracked, Implemented
<1>4. QED BY <1>1, <1>2, <1>3

\* qspi_buffer.c is a DurableFifo for every geometry, number of puts and number of
\* failures, until one of the hazards of Spoils, Overprograms and AppendFails
\* strikes: puts queue, consume and drop take the oldest, however the log wraps,
\* and a reset at any moment brings back what the journal recorded last, or what
\* was being recorded.
THEOREM ImplementsDurableFifoCorrect == Spec => ImplementsDurableFifo
<1>1. Init => Authority /\ JournalInOrder
  BY InitOrder
<1>2. Sane /\ Authority /\ [Next]_vars => Authority'
  BY StepAuthority
<1>3. Sane /\ Bounded /\ Authority /\ JournalInOrder /\ [Next]_vars => JournalInOrder'
  BY StepOrder
<1>4. Init => Tier!Init /\ Tracked
  BY TierInit DEF Tracked
<1>5. /\ Sane /\ Flags /\ Flags' /\ Authority /\ JournalInOrder /\ Tracked /\ [Next]_vars
      => Tracked' /\ [Tier!Next]_(Tier!vars)
  BY StepTracked DEF Whole
<1>6. QED BY <1>1, <1>2, <1>3, <1>4, <1>5, SaneHolds, FlagsHold, BoundedHolds, PTL
          DEF Spec, Tier!Spec, ImplementsDurableFifo

=============================================================================
