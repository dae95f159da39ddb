---------------------------- MODULE QspiBuffer ----------------------------
(***************************************************************************)
(* qspi_buffer.c: the persistent tier in a NOR flash.  Records of several  *)
(* sizes follow each other through a ring of sectors; a sector is erased   *)
(* when a record wraps into it.  Head, tail and count are entries of a     *)
(* journal that alternates between two sectors of its own.                 *)
(*                                                                         *)
(* Operations run under QSPI_LOCK; a step lies between two ends of a flash *)
(* program or erase.  Resets come at any moment; a program cut off or      *)
(* failing leaves some of its cells unprogrammed, an erase leaves the      *)
(* sector as it was, blank, or neither.  Programming a cell that is not    *)
(* blank spoils it: bits only go from 1 to 0.                              *)
(*                                                                         *)
(* Addresses are cells from the start of the data region.  A record is the *)
(* number of its put; its first Header cells are its header, of which the  *)
(* first Magic are the magic, the last ones payload and CRC.               *)
(***************************************************************************)
EXTENDS Naturals, FiniteSets

CONSTANTS
  Sectors,   \* QSPI_BUF_DATA_SECTORS
  Size,      \* QSPI_BUF_SECTOR_SIZE
  Header,    \* sizeof(qspi_data_header_t)
  Magic,     \* of these, the magic
  Sizes,     \* sizes of records: one for each kind
  Entries,   \* entries_per_sector of the journal
  MaxRec,    \* bound of the model: puts
  MaxFaults  \* bound of the model: resets and failing flash operations

ASSUME QspiAssumption ==
  /\ Sectors \in Nat /\ Sectors > 1 /\ Size \in Nat /\ Entries \in Nat \ {0}
  /\ Header \in Nat \ {0} /\ Magic \in 1 .. Header /\ MaxRec \in Nat /\ MaxFaults \in Nat
  /\ Sizes # {} /\ \A s \in Sizes : s \in Header + 1 .. Size

VARIABLES
  cells,     \* the data region
  journal,   \* its two sectors of entries
  meta,      \* s_meta_cache
  active,    \* s_meta_active_sector
  index,     \* s_meta_index
  ready,     \* s_is_initialized
  pc,        \* the flash operation under way; "idle", "off", "room"
  op,        \* what the append under way is for
  req,       \* size of the record being put
  at,        \* its place; sector metadata_reset erases next
  next,      \* number of the next put
  faults,    \* history: resets and failures so far
  good,      \* history: sequence number of the newest entry that is sound
  spoilt     \* history: a hazard of the layout has struck, see Spoils

vars == <<cells, journal, meta, active, index, ready, pc, op, req, at, next,
          faults, good, spoilt>>
jVars == <<journal, active, index>>
putVars == <<req, at, next>>

Region == Sectors * Size
SectorOf(a) == a \div Size
InSector(s) == s * Size .. s * Size + Size - 1
Wrap(a) == IF a >= Region THEN 0 ELSE a
NextSector(a) == Wrap((SectorOf(a) + 1) * Size)

(***************************************************************************)
(* Cells: r is the record, k the position in it, n its size.               *)
(***************************************************************************)
Blank == [r |-> 0, k |-> 0, n |-> 0]
Junk  == [r |-> 0, k |-> 1, n |-> 0]
Unreadable == 0

PartOf(k) == [r |-> next, k |-> k, n |-> req]

\* The first p cells of the record are programmed.
ProgramPrefix(p) ==
  [c \in DOMAIN cells |->
     IF c \notin at .. at + p - 1 THEN cells[c]
     ELSE IF cells[c] = Blank THEN PartOf(c - at) ELSE Junk]
Erased(s, what) ==
  [c \in DOMAIN cells |-> IF c \in InSector(s) THEN what ELSE cells[c]]

(***************************************************************************)
(* Reading.  The magic is read across the end of the sector if need be;    *)
(* past the last sector lies the reserved one, taken to be blank.          *)
(***************************************************************************)
LooksBlank(s, a) ==
  \A k \in 0 .. Magic - 1 : a + k < Region => s[a + k] = Blank
\* Where a record at tail t starts: padding is skipped.
Start(s, t) == IF LooksBlank(s, t) THEN NextSector(t) ELSE t

HeaderSound(s, a) ==
  /\ s[a].k = 0 /\ s[a].n # 0
  /\ (a % Size) + s[a].n <= Size
  /\ \A k \in 0 .. Header - 1 : s[a + k] = [s[a] EXCEPT !.k = k]
Sound(s, a) ==
  HeaderSound(s, a)
  /\ \A k \in 0 .. s[a].n - 1 : s[a + k] = [s[a] EXCEPT !.k = k]

\* peek, and the tail after consume: with no header to go by it skips to the
\* next sector.
RecordAt(s, t) ==
  LET a == Start(s, t) IN IF Sound(s, a) THEN s[a].r ELSE Unreadable
After(s, t) ==
  LET a == Start(s, t)
  IN IF HeaderSound(s, a) THEN Wrap(a + s[a].n) ELSE NextSector(t)

Queue(m, s) ==
  LET record == [t \in 0 .. Region - 1 |-> RecordAt(s, t)]
      after == [t \in 0 .. Region - 1 |-> After(s, t)]
      tailAt[i \in 1 .. m.count] == IF i = 1 THEN m.tail ELSE after[tailAt[i - 1]]
  IN [i \in 1 .. m.count |-> record[tailAt[i]]]

(***************************************************************************)
(* The journal.                                                            *)
(***************************************************************************)
Entry(q, h, t, c) == [st |-> "ok", seq |-> q, head |-> h, tail |-> t, count |-> c]
NoEntry == [st |-> "blank", seq |-> 0, head |-> 0, tail |-> 0, count |-> 0]
BadEntry == [NoEntry EXCEPT !.st = "junk"]

\* metadata_recover: the newest valid entry before the first blank one.
Scanned(j, b) ==
  {i \in 0 .. Entries - 1 :
     j[b][i].st = "ok" /\ \A k \in 0 .. i : j[b][k].st # "blank"}
Candidates(j) == UNION {{<<b, i>> : i \in Scanned(j, b)} : b \in {0, 1}}
IsBest(j, p) ==
  p \in Candidates(j)
  /\ \A q \in Candidates(j) : j[q[1]][q[2]].seq <= j[p[1]][p[2]].seq
Best(j) ==
  IF Candidates(j) = {} THEN NoEntry
  ELSE LET p == CHOOSE p \in Candidates(j) : IsBest(j, p) IN j[p[1]][p[2]]

Programmed(e) == IF e.st = "blank" THEN meta ELSE BadEntry

RollIntoActive == active
RollTarget == 1 - active
SlotWritten(e) == [journal EXCEPT ![active][index] = e]
JournalErased(b, e) == [journal EXCEPT ![b] = [i \in 0 .. Entries - 1 |-> e]]
RollErased(e) == JournalErased(RollTarget, e)
RollWritten(e) == [journal EXCEPT ![RollTarget][0] = e]

JournalOutcomes ==
  CASE pc = "append" ->
         {journal, SlotWritten(BadEntry),
          SlotWritten(Programmed(journal[active][index]))}
    [] pc = "rollErase" -> {journal, RollErased(BadEntry), RollErased(NoEntry)}
    [] pc = "roll" -> {journal, RollWritten(BadEntry), RollWritten(meta)}
    [] pc = "reset" ->
         {journal} \union {JournalErased(b, e) : b \in {at} \intersect {0, 1},
                                              e \in {BadEntry, NoEntry}}
    [] OTHER -> {journal}

\* metadata_append begins, with the metadata it is to write.
StartAppend(m, for) ==
  /\ meta' = m /\ op' = for
  /\ pc' = IF index >= Entries THEN "rollErase" ELSE "append"

\* ... and ends: a dropped record goes back to the put it made room for, a
\* metadata_reset decides about s_is_initialized, all others ignore the result.
EndAppend(ok) ==
  /\ pc' = IF op = "drop" THEN "room" ELSE "idle"
  /\ ready' = IF op = "reset" THEN ok ELSE ready
  /\ UNCHANGED <<cells, meta, op, putVars>>

AppendEntry ==
  /\ pc = "append"
  /\ journal' = SlotWritten(Programmed(journal[active][index]))
  /\ index' = index + 1
  /\ EndAppend(TRUE)
  /\ good' = IF journal[active][index].st = "blank" THEN meta.seq ELSE good
  /\ UNCHANGED <<active, spoilt, faults>>

RollErase ==
  /\ pc = "rollErase"
  /\ journal' = RollErased(NoEntry)
  /\ pc' = "roll"
  /\ UNCHANGED <<cells, meta, active, index, ready, op, putVars, good, spoilt, faults>>

Roll ==
  /\ pc = "roll"
  /\ journal' = RollWritten(meta)
  /\ active' = RollTarget /\ index' = 1
  /\ EndAppend(TRUE)
  /\ good' = meta.seq
  /\ UNCHANGED <<spoilt, faults>>

AppendFails ==
  /\ pc \in {"append", "rollErase", "roll"}
  /\ faults < MaxFaults /\ faults' = faults + 1
  /\ journal' \in JournalOutcomes
  /\ EndAppend(FALSE)
  /\ spoilt' = (spoilt \/ Best(journal') = meta)
  /\ UNCHANGED <<active, index, good>>

(***************************************************************************)
(* qspi_buffer_init: metadata_recover, and metadata_reset when there is    *)
(* nothing to recover.                                                     *)
(***************************************************************************)
PowerOn ==
  /\ pc = "off"
  /\ \/ /\ Candidates(journal) = {}
        /\ pc' = "reset" /\ op' = "reset" /\ at' = 0
        /\ good' = 0
        /\ UNCHANGED <<meta, active, index, ready>>
     \/ \E p \in Candidates(journal) :
          /\ IsBest(journal, p)
          /\ meta' = journal[p[1]][p[2]]
          /\ active' = p[1] /\ index' = p[2] + 1
          /\ ready' = TRUE /\ pc' = "idle"
          /\ UNCHANGED <<op, at, good>>
  /\ UNCHANGED <<cells, journal, req, next, spoilt, faults>>

\* The two journal sectors (at = 0, 1) and the first data sector (at = 2).
ResetErase ==
  /\ pc = "reset" /\ at < 3
  /\ journal' = IF at < 2 THEN JournalErased(at, NoEntry) ELSE journal
  /\ cells' = IF at = 2 THEN Erased(0, Blank) ELSE cells
  /\ at' = at + 1
  /\ UNCHANGED <<meta, active, index, ready, pc, op, req, next, good, spoilt, faults>>

ResetAppend ==
  /\ pc = "reset" /\ at = 3
  /\ meta' = Entry(1, 0, 0, 0)
  /\ active' = 0 /\ index' = 0 /\ pc' = "append"
  /\ UNCHANGED <<cells, journal, ready, op, putVars, good, spoilt, faults>>

(***************************************************************************)
(* qspi_buffer_consume, and qspi_buffer_peek at an unreadable record; the  *)
(* put below drops records in the same way.                                *)
(***************************************************************************)
Consumed ==
  [meta EXCEPT !.tail = After(cells, @), !.count = @ - 1, !.seq = @ + 1]

Consume ==
  /\ pc = "idle" /\ ready /\ meta.count # 0
  /\ StartAppend(Consumed, "consume")
  /\ UNCHANGED <<cells, jVars, ready, putVars, good, spoilt, faults>>

(***************************************************************************)
(* qspi_buffer_put_record.                                                 *)
(***************************************************************************)
Crosses == (meta.head % Size) + req > Size
Target == IF Crosses THEN NextSector(meta.head) ELSE meta.head

RoomIgnoringErase ==
  Crosses \/ ~(meta.head < meta.tail /\ meta.head + req > meta.tail)
Room ==
  \/ meta.count = 0
  \/ IF Crosses THEN SectorOf(Target) # SectorOf(meta.tail)
     ELSE ~(SectorOf(meta.head) = SectorOf(meta.tail)
            /\ meta.head < meta.tail /\ meta.head + req > meta.tail)

\* History.  The put programs cells that are not blank: a record or a torn
\* write ended there without its sector being erased since ...
Overprograms == \E c \in at .. at + req - 1 : cells[c] # Blank
\* ... or an append reported as failed has taken effect, and the next one, in
\* the same place, takes that back (AppendFails) ...
\* ... or the put leaves padding too short for a magic or not blank where one is read, or erases the
\* sector in which the older metadata that a reset would recover begin (with no
\* record in them, too: they may stay in the middle of the blank sector, and the
\* log come round to its start without erasing it).
Spoils ==
  /\ Crosses
  /\ \/ Size - (meta.head % Size) < Magic \/ ~LooksBlank(cells, meta.head)
     \/ Best(journal) # meta /\ SectorOf(Best(journal).tail) = SectorOf(Target)

Put(s) ==
  /\ pc = "idle" /\ ready /\ next <= MaxRec
  /\ req' = s /\ pc' = "room"
  /\ UNCHANGED <<cells, jVars, meta, ready, op, at, next, good, spoilt, faults>>

Drop ==
  /\ pc = "room" /\ ~Room
  /\ StartAppend(Consumed, "drop")
  /\ UNCHANGED <<cells, jVars, ready, putVars, good, spoilt, faults>>

Place ==
  /\ pc = "room" /\ Room
  /\ at' = Target
  /\ pc' = IF Crosses THEN "erase" ELSE "program"
  /\ spoilt' = (spoilt \/ Spoils)
  /\ UNCHANGED <<cells, jVars, meta, ready, op, req, next, good, faults>>

EraseSector ==
  /\ pc = "erase"
  /\ cells' = Erased(SectorOf(at), Blank)
  /\ pc' = "program"
  /\ UNCHANGED <<jVars, meta, ready, op, putVars, good, spoilt, faults>>

HeadAfterNoWrap == at + req
HeadAfter == Wrap(at + req)
Program ==
  /\ pc = "program"
  /\ cells' = ProgramPrefix(req)
  /\ StartAppend([meta EXCEPT !.head = HeadAfter, !.count = @ + 1, !.seq = @ + 1],
                 "put")
  /\ next' = next + 1
  /\ spoilt' = (spoilt \/ Overprograms)
  /\ UNCHANGED <<jVars, ready, req, at, good, faults>>

\* The data sector being erased, if any.
ErasedSectors ==
  CASE pc = "erase" -> {SectorOf(at)}
    [] pc = "reset" -> IF at = 2 THEN {0} ELSE {}
    [] OTHER -> {}
CellOutcomes ==
  {cells} \union {Erased(s, c) : s \in ErasedSectors, c \in {Blank, Junk}}
          \union {ProgramPrefix(p) : p \in IF pc = "program" THEN 0 .. req ELSE {}}

\* An erase or a program that fails ends put or metadata_reset.
DataFails ==
  /\ pc \in {"erase", "program", "reset"}
  /\ faults < MaxFaults /\ faults' = faults + 1
  /\ pc = "reset" => at < 3
  /\ cells' \in CellOutcomes /\ journal' \in JournalOutcomes
  /\ pc' = "idle"
  /\ next' = IF pc = "program" THEN next + 1 ELSE next
  /\ spoilt' = (spoilt \/ (pc = "program" /\ Overprograms))
  /\ UNCHANGED <<meta, active, index, ready, op, req, at, good>>

PowerLoss ==
  /\ pc # "off"
  /\ faults < MaxFaults /\ faults' = faults + 1
  /\ cells' \in CellOutcomes /\ journal' \in JournalOutcomes
  /\ pc' = "off" /\ ready' = FALSE
  /\ next' = IF pc = "program" THEN next + 1 ELSE next
  /\ spoilt' = (spoilt \/ (pc = "program" /\ Overprograms))
  /\ UNCHANGED <<meta, active, index, op, req, at, good>>

(***************************************************************************)
(* Specification: a blank device.                                          *)
(***************************************************************************)
Init ==
  /\ cells = [c \in 0 .. Region - 1 |-> Blank]
  /\ journal = [b \in {0, 1} |-> [i \in 0 .. Entries - 1 |-> NoEntry]]
  /\ meta = NoEntry /\ active = 0 /\ index = 0
  /\ ready = FALSE /\ pc = "off" /\ op = "none"
  /\ req = 0 /\ at = 0 /\ next = 1
  /\ faults = 0 /\ good = 0 /\ spoilt = FALSE

Next ==
  \/ PowerOn \/ ResetErase \/ ResetAppend \/ PowerLoss
  \/ AppendEntry \/ RollErase \/ Roll \/ AppendFails
  \/ Consume \/ \E s \in Sizes : Put(s)
  \/ Drop \/ Place \/ EraseSector \/ Program \/ DataFails

Spec == Init /\ [][Next]_vars

(***************************************************************************)
(* Properties.                                                             *)
(***************************************************************************)
IsEntry(e) ==
  /\ e.st \in {"ok", "blank", "junk"} /\ e.seq \in Nat
  /\ e.head \in 0 .. Region - 1 /\ e.tail \in 0 .. Region - 1
  /\ e.count \in Nat /\ e.count < next

\* Types; head and tail stay inside the data region whatever fails, no metadata
\* counts more records than were put, and the record being put fits the sector
\* it goes to.
TypeOK ==
  /\ \A c \in 0 .. Region - 1 : cells[c].r \in 0 .. MaxRec
  /\ \A b \in {0, 1}, i \in 0 .. Entries - 1 : IsEntry(journal[b][i])
  /\ IsEntry(meta) /\ active \in {0, 1} /\ index \in 0 .. Entries
  /\ ready \in BOOLEAN /\ spoilt \in BOOLEAN /\ good \in Nat
  /\ faults \in 0 .. MaxFaults
  /\ pc \in {"off", "idle", "room", "erase", "program", "append", "rollErase",
            "roll", "reset"}
  /\ op \in {"none", "reset", "consume", "put", "drop"}
  /\ req \in Sizes \union {0} /\ at \in 0 .. Region - 1 /\ next \in 1 .. MaxRec + 1
  /\ pc = "program" => SectorOf(at) = SectorOf(at + req - 1)

\* "Metadata Journal Ping-Pong (wear leveling & power-safe rollover)"
\* (qspi_buffer.h:14): whatever moment a reset comes at, in the middle of an
\* append or of the change to the other sector too, the scan finds the newest
\* entry that was ever programmed on blank cells, or a later one.
JournalKeepsNewest == \A j \in JournalOutcomes : Best(j).seq >= good

\* Until one of the hazards of the layout strikes, the log is a DurableFifo: a
\* queue in the order of the puts whose records, however the sectors wrap and
\* whole sectors are dropped, are never overwritten or skipped, and that a
\* reset at any moment brings back as the journal last recorded it.
Stored == IF ready THEN Queue(meta, cells) ELSE Queue(Best(journal), cells)
Tier == INSTANCE DurableFifo WITH
  Records <- 1 .. MaxRec,
  stored <- IF spoilt THEN <<>> ELSE Stored,
  kept <- IF spoilt THEN <<>> ELSE Queue(Best(journal), cells),
  saving <- ~spoilt /\ pc \in {"append", "rollErase", "roll"} /\ op # "reset",
  trusted <- ~spoilt
ImplementsDurableFifo == Tier!Spec
=============================================================================
