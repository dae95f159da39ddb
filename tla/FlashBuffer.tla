---------------------------- MODULE FlashBuffer ----------------------------
(***************************************************************************)
(* flash_buffer.c: the persistent tier in the Em_EEPROM rows, with resets  *)
(* at any moment, failing row writes, and builds that change the capacity. *)
(*                                                                         *)
(* Every operation runs under FLASH_LOCK, so they are sequential; a step   *)
(* is what lies between two ends of a row write or erase.  A record is the *)
(* number of its put, Unreadable a row without a valid record (blank, torn *)
(* or damaged).  A row being written holds its old contents, the new ones, *)
(* or neither until the write returns.  peek changes nothing when the      *)
(* record is valid, and is an action only when it is not.                  *)
(***************************************************************************)
EXTENDS Naturals, Sequences

CONSTANTS
  Rows,    \* FLASH_BUF_MAX_DATA_ROWS
  Caps,    \* the capacities of the builds: min(flash_max_records, Rows)
  MaxRec   \* bound of the model: puts

ASSUME FlashAssumption ==
  /\ Rows \in Nat \ {0} /\ MaxRec \in Nat
  /\ Caps \subseteq 1 .. Rows /\ Caps # {}

VARIABLES
  slots,       \* data rows 0 .. Rows-1
  meta,        \* metadata row
  ram,         \* s_meta
  ready,       \* s_initialised
  cap,         \* capacity of the build that runs
  dropOldest,  \* g_config.buffer.drop_oldest of the build that runs
  pc,          \* the write under way; "idle", "off"
  at,          \* erase_all: the row being erased
  next,        \* number of the next put
  behind,      \* history: the metadata row is older than s_meta
  resized      \* history: the capacity has changed

vars == <<slots, meta, ram, ready, cap, dropOldest, pc, at, next, behind,
          resized>>
build == <<cap, dropOldest, resized>>

Unreadable == 0
Slots == 0 .. Rows - 1

Ring(h, t, c) == [valid |-> TRUE, head |-> h, tail |-> t, count |-> c]
Fresh == Ring(0, 0, 0)
Torn == [valid |-> FALSE, head |-> 0, tail |-> 0, count |-> 0]

IncNoWrap(i) == i + 1
Inc(i) == (i + 1) % cap
Full == ram.count >= cap

\* The queue that metadata m describes in rows s, oldest first.
Queue(m, s) ==
  IF m.valid THEN [i \in 1 .. m.count |-> s[(m.tail + i - 1) % cap]] ELSE <<>>

(***************************************************************************)
(* Row writes: meta_write and flash_write_row, and what they may leave.    *)
(***************************************************************************)
MetaWrites == {"putMeta", "meta", "clamp", "fresh", "freshErased"}
MetaOutcomes == IF pc \in MetaWrites THEN {meta, Torn, ram} ELSE {meta}
SlotOutcomes ==
  IF pc = "row"
  THEN {[slots EXCEPT ![ram.head] = r] :
          r \in {slots[ram.head], Unreadable, next}}
  ELSE {slots}

\* A failed write of fresh metadata leaves s_initialised as it was; every
\* other caller ignores the result.
MetaWritten ==
  /\ pc \in MetaWrites
  /\ meta' = ram
  /\ ready' = TRUE /\ pc' = "idle" /\ behind' = FALSE
  /\ UNCHANGED <<slots, ram, build, at, next>>

MetaFails ==
  /\ pc \in MetaWrites
  /\ meta' \in MetaOutcomes
  /\ ready' = (ready \/ pc = "clamp")
  /\ pc' = "idle" /\ behind' = TRUE
  /\ UNCHANGED <<slots, ram, build, at, next>>

(***************************************************************************)
(* flash_buffer_init.                                                      *)
(***************************************************************************)
ClampedTail(m, c) == Ring(IF m.head >= c THEN 0 ELSE m.head, m.tail,
                          IF m.count > c THEN c ELSE m.count)
Clamped(m, c) == Ring(IF m.head >= c THEN 0 ELSE m.head,
                      IF m.tail >= c THEN 0 ELSE m.tail,
                      IF m.count > c THEN c ELSE m.count)

PowerOn(c, d) ==
  /\ pc = "off"
  /\ cap' = c /\ dropOldest' = d
  /\ resized' = (resized \/ c # cap)
  /\ behind' = FALSE
  /\ IF meta.valid
     THEN /\ ram' = Clamped(meta, c)
          /\ pc' = IF ram' = meta THEN "idle" ELSE "clamp"
          /\ ready' = (ram' = meta)
     ELSE ram' = Fresh /\ pc' = "fresh" /\ ready' = FALSE
  /\ UNCHANGED <<slots, meta, at, next>>

PowerLoss ==
  /\ pc # "off"
  /\ meta' \in MetaOutcomes /\ slots' \in SlotOutcomes
  /\ pc' = "off" /\ ready' = FALSE
  /\ next' = IF pc = "row" THEN next + 1 ELSE next
  /\ UNCHANGED <<ram, build, at, behind>>

(***************************************************************************)
(* flash_buffer_put_record: the oldest record goes, in RAM only, before    *)
(* the row is written.                                                     *)
(***************************************************************************)
Dropped == [ram EXCEPT !.tail = Inc(@), !.count = @ - 1]

PutRefused ==
  /\ pc = "idle" /\ ready /\ next <= MaxRec
  /\ Full /\ ~dropOldest
  /\ next' = next + 1
  /\ UNCHANGED <<slots, meta, ram, ready, build, pc, at, behind>>

Put ==
  /\ pc = "idle" /\ ready /\ next <= MaxRec
  /\ Full => dropOldest
  /\ ram' = IF Full THEN Dropped ELSE ram
  /\ pc' = "row"
  /\ UNCHANGED <<slots, meta, ready, build, at, next, behind>>

PutAfterHead == slots' = [slots EXCEPT ![Inc(ram.head)] = next]
PutAtHead == slots' = [slots EXCEPT ![ram.head] = next]

PutWrittenUnsaved ==
  /\ pc = "row"
  /\ PutAtHead
  /\ ram' = [ram EXCEPT !.head = Inc(@), !.count = @ + 1]
  /\ pc' = "idle" /\ next' = next + 1
  /\ UNCHANGED <<meta, ready, build, at, behind>>
PutWritten ==
  /\ pc = "row"
  /\ PutAtHead
  /\ ram' = [ram EXCEPT !.head = Inc(@), !.count = @ + 1]
  /\ pc' = "putMeta" /\ next' = next + 1
  /\ UNCHANGED <<meta, ready, build, at, behind>>

PutFails ==
  /\ pc = "row"
  /\ slots' \in SlotOutcomes
  /\ pc' = "idle" /\ next' = next + 1
  /\ UNCHANGED <<meta, ram, ready, build, at, behind>>

(***************************************************************************)
(* flash_buffer_consume, and flash_buffer_peek at an unreadable row.       *)
(***************************************************************************)
Consume ==
  /\ pc = "idle" /\ ready /\ ram.count # 0
  /\ ram' = Dropped
  /\ pc' = "meta"
  /\ UNCHANGED <<slots, meta, ready, build, at, next, behind>>

PeekDiscards ==
  /\ pc = "idle" /\ ready /\ ram.count # 0
  /\ slots[ram.tail] = Unreadable
  /\ ram' = Dropped
  /\ pc' = "meta"
  /\ UNCHANGED <<slots, meta, ready, build, at, next, behind>>

(***************************************************************************)
(* flash_buffer_erase_all: the metadata row first, then the data rows,     *)
(* then fresh metadata.  An erase that fails ends it half-way.             *)
(***************************************************************************)
EraseAll ==
  /\ pc = "idle"
  /\ pc' = "erase" /\ at' = 0
  /\ UNCHANGED <<slots, meta, ram, ready, build, next, behind>>

EraseMetaRow == at = 0 /\ meta' = Torn /\ slots' = slots
EraseDataRow ==
  at > 0 /\ meta' = meta /\ slots' = [slots EXCEPT ![at - 1] = Unreadable]

EraseRow ==
  /\ pc = "erase" /\ at <= Rows
  /\ EraseMetaRow \/ EraseDataRow
  /\ at' = at + 1
  /\ behind' = TRUE
  /\ UNCHANGED <<ram, ready, build, pc, next>>

EraseFails ==
  /\ pc = "erase" /\ at <= Rows
  /\ EraseMetaRow \/ EraseDataRow \/ UNCHANGED <<slots, meta>>
  /\ pc' = "idle"
  /\ behind' = TRUE
  /\ UNCHANGED <<ram, ready, build, at, next>>

EraseDone ==
  /\ pc = "erase" /\ at > Rows
  /\ ram' = Fresh
  /\ pc' = "freshErased"
  /\ UNCHANGED <<slots, meta, ready, build, at, next, behind>>

(***************************************************************************)
(* Specification: a device whose rows have never been written.             *)
(***************************************************************************)
Init ==
  /\ slots = [s \in Slots |-> Unreadable] /\ meta = Torn
  /\ ram = Torn /\ ready = FALSE
  /\ cap \in Caps /\ dropOldest \in BOOLEAN
  /\ pc = "off" /\ at = 0 /\ next = 1
  /\ behind = FALSE /\ resized = FALSE

Next ==
  \/ \E c \in Caps, d \in BOOLEAN : PowerOn(c, d)
  \/ PowerLoss \/ MetaWritten \/ MetaFails
  \/ PutRefused \/ Put \/ PutWritten \/ PutFails
  \/ Consume \/ PeekDiscards
  \/ EraseAll \/ EraseRow \/ EraseFails \/ EraseDone

Spec == Init /\ [][Next]_vars

(***************************************************************************)
(* Properties.                                                             *)
(***************************************************************************)
Rings == [valid : BOOLEAN, head : Slots, tail : Slots, count : 0 .. Rows]

\* Types; metadata that was never written or is torn is not valid.
TypeOK ==
  /\ slots \in [Slots -> 0 .. MaxRec]
  /\ meta \in Rings /\ ram \in Rings
  /\ ready \in BOOLEAN /\ cap \in Caps /\ dropOldest \in BOOLEAN
  /\ pc \in MetaWrites \union {"off", "idle", "row", "erase"}
  /\ at \in 0 .. Rows + 1 /\ next \in 1 .. MaxRec + 1
  /\ behind \in BOOLEAN /\ resized \in BOOLEAN

\* "Clamping prevents OOB access" (flash_buffer.c:287): with whatever metadata
\* an earlier build left, torn writes and failed ones in between, the index an
\* operation uses is inside the configured region and the depth fits it.
IndicesInRange ==
  ready => ram.head < cap /\ ram.tail < cap /\ ram.count <= cap

\* The queue as peek and consume see it, and as a reset would bring it back.
Stored == IF ready THEN Queue(ram, slots) ELSE Queue(meta, slots)
Kept == Queue(meta, slots)

IsAcked(r) ==
  /\ r # Unreadable /\ r < next
  /\ pc = "putMeta" => r # next - 1
  /\ \E i \in 1 .. ram.count : Queue(ram, slots)[i] = r

\* "Records survive power-cycle and reboot" (flash_buffer.h:6): a reset at any
\* moment brings back every record whose put has returned and that has not
\* been consumed or dropped, once, in its place, with at most two other places
\* before it (one just consumed, one dropped for a put that failed) - unless
\* metadata had failed to be written, or is torn by the reset.
AckedSurvives ==
  ready /\ ~resized /\ ~behind /\ pc # "erase" =>
    \A m \in MetaOutcomes, s \in SlotOutcomes :
      \/ pc \in {"putMeta", "meta"} /\ ~m.valid
      \/ LET back == Queue(m, s)
             queue == Queue(ram, slots)
         IN \E d \in 0 .. 2 :
              /\ \A i \in 1 .. ram.count : IsAcked(queue[i]) =>
                   i + d <= Len(back) /\ back[i + d] = queue[i]
              /\ \A i \in 1 .. Len(back) : IsAcked(back[i]) =>
                   i > d /\ i - d <= ram.count /\ queue[i - d] = back[i]
              /\ Len(back) <= ram.count + d

\* The tier is a DurableFifo until its capacity changes.
Tier == INSTANCE DurableFifo WITH
  Records <- 1 .. MaxRec,
  stored <- IF resized THEN <<>> ELSE Stored,
  kept <- IF resized THEN <<>> ELSE Kept,
  saving <- ~resized /\ pc \in {"putMeta", "meta"},
  trusted <- ~resized
ImplementsDurableFifo == Tier!Spec
=============================================================================
