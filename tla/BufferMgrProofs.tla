-------------------------- MODULE BufferMgrProofs --------------------------
(***************************************************************************)
(* Theorems about BufferMgr for every capacity, batch size, backlog and    *)
(* number of records: types, the migration, the order of the tiers, what a *)
(* flush holds in its hands while the other task goes on, the metrics, and *)
(* what is published, in which order and how often.                        *)
(***************************************************************************)
EXTENDS BufferMgr, Integers, SequenceTheorems, TLAPS

(***************************************************************************)
(* Ring arithmetic.  Slot is expanded here only.                           *)
(***************************************************************************)
\* The slot of an offset that is at most one lap from the tail.
LEMMA SlotValue ==
  ASSUME NEW t \in 0 .. RamCap - 1, NEW k \in 0 .. RamCap
  PROVE  /\ Slot(t, k) = IF t + k < RamCap THEN t + k ELSE t + k - RamCap
         /\ Slot(t, k) \in 0 .. RamCap - 1
<1> USE BufferAssumption DEF Slot
<1>1. CASE t + k < RamCap
  BY <1>1
<1>2. CASE t + k >= RamCap
  BY <1>2
<1>3. QED BY <1>1, <1>2

\* s_tail and s_head advance by one, or wrap to slot 0.
LEMMA IncValue ==
  ASSUME NEW i \in 0 .. RamCap - 1
  PROVE  /\ Inc(i) = IF i = RamCap - 1 THEN 0 ELSE i + 1
         /\ Inc(i) \in 0 .. RamCap - 1
<1>1. 1 \in 0 .. RamCap
  BY BufferAssumption
<1>2. /\ Slot(i, 1) = IF i + 1 < RamCap THEN i + 1 ELSE i + 1 - RamCap
      /\ Slot(i, 1) \in 0 .. RamCap - 1
  BY <1>1, SlotValue
<1>3. QED BY <1>2, BufferAssumption DEF Inc

\* After the tail has moved on by one, the ring is read one offset later.
LEMMA SlotAfterInc ==
  ASSUME NEW t \in 0 .. RamCap - 1, NEW k \in 0 .. RamCap - 1
  PROVE  Slot(Inc(t), k) = Slot(t, k + 1)
<1>1. /\ Inc(t) = IF t = RamCap - 1 THEN 0 ELSE t + 1
      /\ Inc(t) \in 0 .. RamCap - 1
  BY IncValue
<1>2. k \in 0 .. RamCap /\ k + 1 \in 0 .. RamCap
  BY BufferAssumption
<1>3. Slot(Inc(t), k)
        = IF Inc(t) + k < RamCap THEN Inc(t) + k ELSE Inc(t) + k - RamCap
  BY <1>1, <1>2, SlotValue
<1>4. Slot(t, k + 1)
        = IF t + (k + 1) < RamCap THEN t + (k + 1) ELSE t + (k + 1) - RamCap
  BY <1>2, SlotValue
<1>5. QED BY <1>1, <1>3, <1>4, BufferAssumption

\* Different offsets within one lap are different slots.
LEMMA SlotInjective ==
  ASSUME NEW t \in 0 .. RamCap - 1,
         NEW j \in 0 .. RamCap - 1, NEW k \in 0 .. RamCap - 1, j # k
  PROVE  Slot(t, j) # Slot(t, k)
<1>1. j \in 0 .. RamCap /\ k \in 0 .. RamCap
  BY BufferAssumption
<1>2. Slot(t, j) = IF t + j < RamCap THEN t + j ELSE t + j - RamCap
  BY <1>1, SlotValue
<1>3. Slot(t, k) = IF t + k < RamCap THEN t + k ELSE t + k - RamCap
  BY <1>1, SlotValue
<1>4. QED BY <1>2, <1>3, BufferAssumption

\* No offset, and a whole lap, are the tail itself.
LEMMA SlotOfLap ==
  ASSUME NEW t \in 0 .. RamCap - 1
  PROVE  Slot(t, 0) = t /\ Slot(t, RamCap) = t
<1>1. 0 \in 0 .. RamCap /\ RamCap \in 0 .. RamCap
  BY BufferAssumption
<1>2. Slot(t, 0) = IF t + 0 < RamCap THEN t + 0 ELSE t + 0 - RamCap
  BY <1>1, SlotValue
<1>3. Slot(t, RamCap) = IF t + RamCap < RamCap THEN t + RamCap ELSE t + RamCap - RamCap
  BY <1>1, SlotValue
<1>4. QED BY <1>2, <1>3, BufferAssumption

(***************************************************************************)
(* Type correctness.                                                       *)
(***************************************************************************)
\* A ring as the spill leaves it to InsertRam: tail t, count c.
Insertable(t, c) ==
  t \in 0 .. RamCap - 1 /\ c \in 0 .. RamCap /\ head = Slot(t, c)

\* Inserting keeps the ring's shape, whatever the spill did to its tail.
LEMMA InsertType ==
  ASSUME RingOK, CountersOK, NEW r \in 0 .. MaxRec, NEW t, NEW c,
         NEW b \in BOOLEAN, Insertable(t, c), InsertRam(r, t, c, b)
  PROVE  RingOK' /\ enqueued' \in Nat /\ dropped' \in Nat /\ lost' \subseteq 0 .. MaxRec
<1>1. Inc(head) \in 0 .. RamCap - 1 /\ Inc(t) \in 0 .. RamCap - 1
  BY IncValue DEF RingOK, Insertable
<1>2. CASE c < RamCap
  <2>1. c \in 0 .. RamCap - 1 /\ c + 1 \in 0 .. RamCap
    BY <1>2, BufferAssumption DEF Insertable
  <2>2. Inc(head) = Slot(t, c + 1)
    <3>1. Inc(head) = IF head = RamCap - 1 THEN 0 ELSE head + 1
      BY IncValue DEF RingOK
    <3>2. Slot(t, c) = IF t + c < RamCap THEN t + c ELSE t + c - RamCap
      BY SlotValue DEF Insertable
    <3>3. Slot(t, c + 1)
            = IF t + (c + 1) < RamCap THEN t + (c + 1) ELSE t + (c + 1) - RamCap
      BY <2>1, SlotValue DEF Insertable
    <3>4. QED BY <2>1, <3>1, <3>2, <3>3, BufferAssumption DEF Insertable
  <2>3. /\ ring' = [ring EXCEPT ![head] = r]
        /\ head' = Inc(head) /\ tail' = t /\ count' = c + 1
        /\ enqueued' = (IF b THEN enqueued ELSE enqueued + 1)
        /\ dropped' = dropped /\ lost' = lost
    BY <1>2, <2>1, BufferAssumption DEF InsertRam
  <2>4. RingOK'
    BY <1>1, <2>1, <2>2, <2>3 DEF RingOK, Insertable
  <2>5. QED BY <2>3, <2>4 DEF CountersOK
<1>3. CASE c >= RamCap
  <2>1. c = RamCap /\ head = t
    BY <1>3, SlotOfLap, BufferAssumption DEF Insertable
  <2>2. Inc(t) = Slot(Inc(t), RamCap) /\ t = Slot(t, RamCap)
    BY <1>1, SlotOfLap DEF Insertable
  <2>3. CASE DropOldest
    <3>1. /\ ring' = [ring EXCEPT ![head] = r]
          /\ head' = Inc(head) /\ tail' = Inc(t) /\ count' = c
          /\ enqueued' = (IF b THEN enqueued ELSE enqueued + 1)
          /\ dropped' = dropped + 1 /\ lost' = lost \union {ring[t]}
      BY <1>3, <2>1, <2>3, BufferAssumption DEF InsertRam
    <3>2. RingOK'
      BY <1>1, <2>1, <2>2, <3>1, BufferAssumption DEF RingOK
    <3>3. ring[t] \in 0 .. MaxRec
      BY DEF RingOK, Insertable
    <3>4. enqueued' \in Nat /\ dropped' \in Nat
      BY <3>1 DEF CountersOK
    <3>5. lost' \subseteq 0 .. MaxRec
      BY <3>1, <3>3 DEF CountersOK
    <3>6. QED BY <3>2, <3>4, <3>5
  <2>4. CASE ~DropOldest
    <3>1. /\ ring' = ring /\ head' = head /\ tail' = t /\ count' = c
          /\ enqueued' = enqueued
          /\ dropped' = dropped + 1 /\ lost' = lost \union {r}
      BY <1>3, <2>1, <2>4, BufferAssumption DEF InsertRam
    <3>2. RingOK'
      BY <2>1, <2>2, <3>1, BufferAssumption DEF RingOK, Insertable
    <3>3. QED BY <3>1, <3>2 DEF CountersOK
  <2>5. QED BY <2>3, <2>4
<1>4. QED BY <1>2, <1>3, BufferAssumption DEF Insertable

\* Migrating the oldest record of a full ring leaves room for the new one.
LEMMA AfterMigration ==
  ASSUME RingOK, count = RamCap
  PROVE  Insertable(Inc(tail), count - 1)
<1>1. RamCap - 1 \in 0 .. RamCap - 1 /\ (RamCap - 1) + 1 = RamCap
  BY BufferAssumption
<1>2. Slot(Inc(tail), RamCap - 1) = Slot(tail, (RamCap - 1) + 1)
  BY <1>1, SlotAfterInc DEF RingOK
<1>3. Inc(tail) \in 0 .. RamCap - 1
  BY IncValue DEF RingOK
<1>4. QED BY <1>1, <1>2, <1>3, BufferAssumption DEF RingOK, Insertable

\* buffer_mgr_consume keeps the shape: the tail follows the count.
LEMMA ConsumeType ==
  ASSUME RingOK, CountersOK, ConsumeRam, UNCHANGED <<ring, head>>
  PROVE  RingOK' /\ dequeued' \in Nat
<1>1. CASE RamReadable
  <2>1. count - 1 \in 0 .. RamCap - 1 /\ count' = count - 1 /\ tail' = Inc(tail)
    BY <1>1, BufferAssumption DEF ConsumeRam, RamReadable, RingOK
  <2>2. Slot(Inc(tail), count - 1) = Slot(tail, (count - 1) + 1)
    BY <2>1, SlotAfterInc DEF RingOK
  <2>3. (count - 1) + 1 = count
    BY DEF RingOK
  <2>4. Inc(tail) \in 0 .. RamCap - 1
    BY IncValue DEF RingOK
  <2>5. RingOK'
    BY <2>1, <2>2, <2>3, <2>4, BufferAssumption DEF RingOK
  <2>6. QED BY <1>1, <2>5 DEF ConsumeRam, CountersOK
<1>2. CASE ~RamReadable
  BY <1>2 DEF ConsumeRam, CountersOK, RingOK
<1>3. QED BY <1>1, <1>2

\* The persistent tier after its oldest record has gone.
LEMMA PersTail ==
  ASSUME PersOK, pers # <<>>
  PROVE  /\ Head(pers) \in 0 .. MaxRec
         /\ Tail(pers) \in Seq(0 .. MaxRec) /\ Len(Tail(pers)) = Len(pers) - 1
         /\ Len(Tail(pers)) <= PersCap
         /\ Len(pers) \in Nat \ {0}
         /\ Head(pers) = pers[1]
         /\ \A i \in 1 .. Len(pers) - 1 : Tail(pers)[i] = pers[i + 1]
<1>1. Len(pers) \in Nat \ {0}
  BY EmptySeq DEF PersOK
<1>2. /\ Head(pers) \in 0 .. MaxRec
      /\ Tail(pers) \in Seq(0 .. MaxRec) /\ Len(Tail(pers)) = Len(pers) - 1
      /\ \A i \in 1 .. Len(Tail(pers)) : Tail(pers)[i] = pers[i + 1]
  BY HeadTailProperties DEF PersOK
<1>3. QED BY <1>1, <1>2, BufferAssumption DEF PersOK

LEMMA InitType == Init => TypeOK
<1> SUFFICES ASSUME Init PROVE TypeOK
  OBVIOUS
<1>1. RingOK
  <2>1. Slot(0, 0) = 0 /\ 0 \in 0 .. RamCap - 1 /\ 0 \in 0 .. RamCap
    BY SlotOfLap, BufferAssumption
  <2>2. QED BY <2>1, BufferAssumption DEF Init, RingOK
<1>2. PersOK
  <2> DEFINE n == IF Persistent THEN Backlog ELSE 0
  <2>1. n \in 0 .. PersCap /\ n \in Nat /\ n <= MaxRec
    BY BufferAssumption
  <2>2. pers = [i \in 1 .. n |-> i]
    BY DEF Init
  <2>3. \A i \in 1 .. n : i \in 0 .. MaxRec
    BY <2>1, BufferAssumption
  <2> HIDE DEF n
  <2>4. pers \in Seq(0 .. MaxRec) /\ Len(pers) = n
    BY <2>1, <2>2, <2>3
  <2>5. QED BY <2>1, <2>4, BufferAssumption DEF PersOK
<1>3. TasksOK
  <2>1. /\ 0 \in 0 .. MaxRec /\ 0 \in 0 .. Batch
        /\ Backlog + 1 \in Backlog + 1 .. MaxRec + 1
    BY BufferAssumption
  <2>2. QED BY <2>1 DEF Init, TasksOK
<1>4. CountersOK
  BY BufferAssumption DEF Init, CountersOK, Recs
<1>5. QED BY <1>1, <1>2, <1>3, <1>4 DEF TypeOK

(***************************************************************************)
(* The inductive strengthening of TypeOK.  A migration shrinks the count   *)
(* by one, which is safe because MigrationPinsOldest keeps the ring full;  *)
(* a flush counts a record only after it found room for it in its batch.   *)
(***************************************************************************)
FlushInBatch ==
  fpc \in {"publishPers", "consumePers", "publishRam", "consumeRam"} =>
    flushed < Batch

Basic == TypeOK /\ MigrationPinsOldest /\ FlushInBatch

\* The part of a put that follows the spill is an insertion into a ring with
\* the right shape, with or without the migrated record.
LEMMA FinishInserts ==
  ASSUME RingOK, TasksOK, MigrationPinsOldest, PutFinish
  PROVE  \E t \in 0 .. RamCap - 1, c \in 0 .. RamCap, b \in BOOLEAN :
           /\ Insertable(t, c) /\ InsertRam(next - 1, t, c, b)
           /\ (spilled /\ t = Inc(tail) /\ c = count - 1 /\ b)
              \/ (~spilled /\ t = tail /\ c = count /\ ~b)
<1>1. count = RamCap
  BY DEF MigrationPinsOldest, PutFinish
<1>2. CASE spilled
  <2>1. Insertable(Inc(tail), count - 1)
    BY <1>1, AfterMigration
  <2>2. InsertRam(next - 1, Inc(tail), count - 1, TRUE)
    BY <1>2 DEF PutFinish
  <2>3. Inc(tail) \in 0 .. RamCap - 1 /\ count - 1 \in 0 .. RamCap
    BY <2>1 DEF Insertable
  <2>4. QED BY <1>2, <2>1, <2>2, <2>3
<1>3. CASE ~spilled
  <2>1. InsertRam(next - 1, tail, count, FALSE)
    BY <1>3 DEF PutFinish
  <2>2. Insertable(tail, count)
    BY DEF RingOK, Insertable
  <2>3. QED BY <1>3, <2>1, <2>2 DEF RingOK
<1>4. QED BY <1>2, <1>3 DEF TasksOK

\* What the spill puts into the persistent tier fits, and only what it gives
\* up leaves it.
LEMMA SpillType ==
  ASSUME PersOK, TasksOK, CountersOK, SpillPersist
  PROVE  PersOK' /\ CountersOK' /\ spilled' \in BOOLEAN
<1> USE DEF Kept, GivenUp, PersistentFull
<1>1. Len(pers) \in Nat /\ PersCap \in Nat /\ PersCap >= 1
  BY BufferAssumption DEF PersOK
<1>2. PersistentFull => pers # <<>>
  BY <1>1 DEF PersOK
<1>3. /\ Kept \in Seq(0 .. MaxRec) /\ Len(Kept) \in Nat /\ Len(Kept) <= PersCap
      /\ ~PersistentFull \/ DropOldest => Len(Kept) < PersCap
      /\ GivenUp \subseteq 0 .. MaxRec
  <2>1. CASE PersistentFull /\ DropOldest
    <3>1. /\ Head(pers) \in 0 .. MaxRec
          /\ Tail(pers) \in Seq(0 .. MaxRec) /\ Len(Tail(pers)) = Len(pers) - 1
      BY <1>2, <2>1, PersTail
    <3>2. Len(pers) <= PersCap
      BY DEF PersOK
    <3>3. Kept = Tail(pers) /\ GivenUp = {Head(pers)}
      BY <2>1
    <3> HIDE DEF Kept, GivenUp
    <3>4. QED BY <1>1, <1>2, <2>1, <3>1, <3>2, <3>3, EmptySeq
  <2>2. CASE ~(PersistentFull /\ DropOldest)
    BY <1>1, <2>2 DEF PersOK
  <2>3. QED BY <2>1, <2>2
<1>4. PICK ok \in BOOLEAN :
        /\ ok => ~PersistentFull \/ DropOldest
        /\ pers' = IF ok THEN Append(Kept, cand) ELSE Kept
        /\ enqueued' = IF ok THEN enqueued + 1 ELSE enqueued
        /\ spilled' = SpillResult(ok)
  BY DEF SpillPersist
<1> HIDE DEF Kept, GivenUp, PersistentFull
<1>5. PersOK'
  <2>1. CASE ok
    <3>1. pers' = Append(Kept, cand) /\ cand \in 0 .. MaxRec
      BY <1>4, <2>1 DEF TasksOK
    <3>2. pers' \in Seq(0 .. MaxRec) /\ Len(pers') = Len(Kept) + 1
      BY <1>3, <3>1, AppendProperties
    <3>3. QED BY <1>1, <1>3, <1>4, <2>1, <3>2 DEF PersOK
  <2>2. CASE ~ok
    BY <1>3, <1>4, <2>2 DEF PersOK
  <2>3. QED BY <2>1, <2>2
<1>6. CountersOK'
  <2>1. enqueued' \in Nat
    BY <1>4 DEF CountersOK
  <2>2. dropped' \in Nat /\ dequeued' = dequeued /\ sent' = sent
    BY DEF SpillPersist, CountersOK
  <2>3. lost' \subseteq 0 .. MaxRec
    BY <1>3 DEF SpillPersist, CountersOK
  <2>4. QED BY <2>1, <2>2, <2>3 DEF CountersOK
<1>7. QED BY <1>4, <1>5, <1>6 DEF SpillResult

\* The steps of buffer_task and of the start-up hook keep Basic.
LEMMA WriterBasic ==
  ASSUME Basic, Writer \/ LateInit
  PROVE  Basic'
<1>1. /\ RingOK /\ PersOK /\ TasksOK /\ CountersOK
      /\ MigrationPinsOldest /\ FlushInBatch
  BY DEF Basic, TypeOK
<1>2. CASE PutSpill
  <2>1. count = RamCap /\ ring[tail] \in 0 .. MaxRec
    BY <1>1, <1>2, BufferAssumption DEF PutSpill, RingOK
  <2>2. next' \in Backlog + 1 .. MaxRec + 1
    BY <1>1, <1>2, BufferAssumption DEF PutSpill, TasksOK
  <2>3. RingOK' /\ PersOK' /\ CountersOK'
    BY <1>1, <1>2 DEF PutSpill, RingOK, PersOK, CountersOK, ramVars, metrics
  <2>4. TasksOK'
    BY <1>1, <1>2, <2>1, <2>2
       DEF PutSpill, SpillCandidate, TasksOK, initVars, flushVars
  <2>5. MigrationPinsOldest' /\ FlushInBatch'
    BY <1>1, <1>2, <2>1
       DEF PutSpill, SpillCandidate, MigrationPinsOldest, FlushInBatch,
           ramVars, flushVars
  <2>6. QED BY <2>3, <2>4, <2>5 DEF Basic, TypeOK
<1>3. CASE PutDirect
  <2>1. next \in 0 .. MaxRec /\ next' \in Backlog + 1 .. MaxRec + 1
    BY <1>1, <1>3, BufferAssumption DEF PutDirect, TasksOK
  <2>2. Insertable(tail, count) /\ InsertRam(next, tail, count, FALSE)
    BY <1>1, <1>3 DEF PutDirect, RingOK, Insertable
  <2>3. RingOK' /\ enqueued' \in Nat /\ dropped' \in Nat /\ lost' \subseteq 0 .. MaxRec
    BY <1>1, <2>1, <2>2, InsertType
  <2>4. PersOK' /\ CountersOK'
    BY <1>1, <1>3, <2>3 DEF PutDirect, PersOK, CountersOK
  <2>5. TasksOK'
    BY <1>1, <1>3, <2>1 DEF PutDirect, TasksOK, initVars, flushVars
  <2>6. MigrationPinsOldest' /\ FlushInBatch'
    BY <1>1, <1>3
       DEF PutDirect, MigrationPinsOldest, FlushInBatch, flushVars
  <2>7. QED BY <2>3, <2>4, <2>5, <2>6 DEF Basic, TypeOK
<1>4. CASE SpillPersist
  <2>1. PersOK' /\ CountersOK' /\ spilled' \in BOOLEAN
    BY <1>1, <1>4, SpillType
  <2>2. RingOK'
    BY <1>1, <1>4 DEF SpillPersist, RingOK, ramVars
  <2>3. TasksOK'
    BY <1>1, <1>4, <2>1 DEF SpillPersist, TasksOK, initVars, flushVars
  <2>4. MigrationPinsOldest' /\ FlushInBatch'
    BY <1>1, <1>4
       DEF SpillPersist, MigrationPinsOldest, FlushInBatch, ramVars, flushVars
  <2>5. QED BY <2>1, <2>2, <2>3, <2>4 DEF Basic, TypeOK
<1>5. CASE PutFinish
  <2>1. PICK t \in 0 .. RamCap - 1, c \in 0 .. RamCap, b \in BOOLEAN :
          Insertable(t, c) /\ InsertRam(next - 1, t, c, b)
    BY <1>1, <1>5, FinishInserts
  <2>2. next - 1 \in 0 .. MaxRec /\ 0 \in 0 .. MaxRec
    BY <1>1, BufferAssumption DEF TasksOK
  <2>3. RingOK' /\ enqueued' \in Nat /\ dropped' \in Nat /\ lost' \subseteq 0 .. MaxRec
    BY <1>1, <2>1, <2>2, InsertType
  <2>4. PersOK' /\ CountersOK'
    BY <1>1, <1>5, <2>3 DEF PutFinish, PersOK, CountersOK
  <2>5. TasksOK'
    BY <1>1, <1>5, <2>2 DEF PutFinish, TasksOK, initVars, flushVars
  <2>6. MigrationPinsOldest' /\ FlushInBatch'
    BY <1>1, <1>5
       DEF PutFinish, MigrationPinsOldest, FlushInBatch, flushVars
  <2>7. QED BY <2>3, <2>4, <2>5, <2>6 DEF Basic, TypeOK
<1>6. CASE LateInit
  <2>1. RingOK' /\ PersOK' /\ CountersOK'
    BY <1>1, <1>6 DEF LateInit, RingOK, PersOK, CountersOK, ramVars, metrics
  <2>2. TasksOK'
    BY <1>1, <1>6 DEF LateInit, TasksOK, writeVars, flushVars
  <2>3. MigrationPinsOldest' /\ FlushInBatch'
    BY <1>1, <1>6
       DEF LateInit, MigrationPinsOldest, FlushInBatch,
           ramVars, writeVars, flushVars
  <2>4. QED BY <2>1, <2>2, <2>3 DEF Basic, TypeOK
<1>7. QED BY <1>2, <1>3, <1>4, <1>5, <1>6 DEF Writer

\* A publish counts one more delivery of the record.
LEMMA PublishCounts ==
  ASSUME sent \in [Recs -> Nat], sent' = [sent EXCEPT ![rec] = @ + 1]
  PROVE  sent' \in [Recs -> Nat]
<1>1. \A r \in Recs : sent[r] \in Nat /\ sent[r] + 1 \in Nat
  OBVIOUS
<1>2. \A r \in Recs : sent'[r] = IF r = rec THEN sent[r] + 1 ELSE sent[r]
  OBVIOUS
<1>3. \A r \in Recs : sent'[r] \in Nat
  BY <1>1, <1>2
<1>4. sent' = [r \in Recs |-> sent'[r]]
  OBVIOUS
<1>5. QED BY <1>3, <1>4

\* The steps of mqtt_gw_task keep Basic.
LEMMA FlusherBasic ==
  ASSUME Basic, Flusher
  PROVE  Basic'
<1>1. /\ RingOK /\ PersOK /\ TasksOK /\ CountersOK
      /\ MigrationPinsOldest /\ FlushInBatch
  BY DEF Basic, TypeOK
<1> USE DEF initVars, writeVars, metrics
<1>2. CASE FlushBegin
  <2>1. RingOK' /\ PersOK' /\ CountersOK'
    BY <1>1, <1>2 DEF FlushBegin, RingOK, PersOK, CountersOK, ramVars
  <2>2. TasksOK'
    BY <1>1, <1>2, BufferAssumption DEF FlushBegin, TasksOK
  <2>3. MigrationPinsOldest' /\ FlushInBatch'
    BY <1>1, <1>2 DEF FlushBegin, MigrationPinsOldest, FlushInBatch, ramVars
  <2>4. QED BY <2>1, <2>2, <2>3 DEF Basic, TypeOK
<1>3. CASE PersPeek
  <2>1. RingOK' /\ PersOK' /\ CountersOK'
    BY <1>1, <1>3 DEF PersPeek, RingOK, PersOK, CountersOK, ramVars
  <2>2. Head(pers) \in 0 .. MaxRec
    BY <1>1, <1>3, PersTail DEF PersPeek
  <2>3. TasksOK'
    BY <1>1, <1>3, <2>2 DEF PersPeek, TasksOK, HeldAcrossPublish
  <2>4. MigrationPinsOldest' /\ FlushInBatch'
    BY <1>1, <1>3 DEF PersPeek, MigrationPinsOldest, FlushInBatch, ramVars
  <2>5. QED BY <2>1, <2>3, <2>4 DEF Basic, TypeOK
<1>4. CASE PersNothing
  <2>1. RingOK' /\ PersOK' /\ CountersOK'
    BY <1>1, <1>4 DEF PersNothing, RingOK, PersOK, CountersOK, ramVars
  <2>2. TasksOK'
    BY <1>1, <1>4, BufferAssumption DEF PersNothing, TasksOK
  <2>3. MigrationPinsOldest' /\ FlushInBatch'
    BY <1>1, <1>4 DEF PersNothing, MigrationPinsOldest, FlushInBatch, ramVars
  <2>4. QED BY <2>1, <2>2, <2>3 DEF Basic, TypeOK
<1>5. CASE PersCorrupt
  <2>1. /\ Head(pers) \in 0 .. MaxRec /\ Tail(pers) \in Seq(0 .. MaxRec)
        /\ Len(Tail(pers)) <= PersCap
    BY <1>1, <1>5, PersTail DEF PersCorrupt
  <2>2. RingOK' /\ PersOK'
    BY <1>1, <1>5, <2>1 DEF PersCorrupt, RingOK, PersOK, ramVars
  <2>3. CountersOK'
    <3>1. /\ enqueued' \in Nat /\ dequeued' \in Nat /\ dropped' \in Nat
          /\ sent' = sent
      BY <1>1, <1>5 DEF PersCorrupt, CountersOK
    <3>2. lost' \subseteq 0 .. MaxRec
      BY <1>1, <1>5, <2>1 DEF PersCorrupt, CountersOK
    <3>3. QED BY <1>1, <3>1, <3>2 DEF CountersOK
  <2>4. TasksOK'
    BY <1>1, <1>5 DEF PersCorrupt, TasksOK
  <2>5. MigrationPinsOldest' /\ FlushInBatch'
    BY <1>1, <1>5 DEF PersCorrupt, MigrationPinsOldest, FlushInBatch, ramVars
  <2>6. QED BY <2>2, <2>3, <2>4, <2>5 DEF Basic, TypeOK
<1>6. CASE PersDiscard
  <2>1. /\ Head(pers) \in 0 .. MaxRec /\ Tail(pers) \in Seq(0 .. MaxRec)
        /\ Len(Tail(pers)) <= PersCap
    BY <1>1, <1>6, PersTail DEF PersDiscard
  <2>2. RingOK' /\ PersOK'
    BY <1>1, <1>6, <2>1 DEF PersDiscard, RingOK, PersOK, ramVars
  <2>3. CountersOK'
    <3>1. /\ enqueued' \in Nat /\ dequeued' \in Nat /\ dropped' \in Nat
          /\ sent' = sent
      BY <1>1, <1>6 DEF PersDiscard, CountersOK
    <3>2. lost' \subseteq 0 .. MaxRec
      BY <1>1, <1>6, <2>1 DEF PersDiscard, CountersOK
    <3>3. QED BY <1>1, <3>1, <3>2 DEF CountersOK
  <2>4. TasksOK'
    BY <1>1, <1>6 DEF PersDiscard, TasksOK, flushVars
  <2>5. MigrationPinsOldest' /\ FlushInBatch'
    BY <1>1, <1>6 DEF PersDiscard, MigrationPinsOldest, FlushInBatch, ramVars, flushVars
  <2>6. QED BY <2>2, <2>3, <2>4, <2>5 DEF Basic, TypeOK
<1>7. CASE PersPublish
  <2>1. RingOK' /\ PersOK'
    BY <1>1, <1>7 DEF PersPublish, RingOK, PersOK, ramVars
  <2>2. sent' \in [Recs -> Nat]
    BY <1>1, <1>7, PublishCounts DEF PersPublish, CountersOK
  <2>3. CountersOK'
    BY <1>1, <1>7, <2>2 DEF PersPublish, CountersOK
  <2>4. TasksOK'
    BY <1>1, <1>7 DEF PersPublish, TasksOK
  <2>5. MigrationPinsOldest' /\ FlushInBatch'
    BY <1>1, <1>7 DEF PersPublish, MigrationPinsOldest, FlushInBatch, ramVars
  <2>6. QED BY <2>1, <2>2, <2>3, <2>4, <2>5 DEF Basic, TypeOK
<1>8. CASE PersPublishFail
  <2>1. RingOK' /\ PersOK' /\ CountersOK'
    BY <1>1, <1>8 DEF PersPublishFail, RingOK, PersOK, CountersOK, ramVars
  <2>2. TasksOK'
    BY <1>1, <1>8, BufferAssumption DEF PersPublishFail, TasksOK
  <2>3. MigrationPinsOldest' /\ FlushInBatch'
    BY <1>1, <1>8 DEF PersPublishFail, MigrationPinsOldest, FlushInBatch, ramVars
  <2>4. QED BY <2>1, <2>2, <2>3 DEF Basic, TypeOK
<1>9. CASE PersConsume
  <2>1. RingOK'
    BY <1>1, <1>9 DEF PersConsume, RingOK, ramVars
  <2>2. PersOK'
    BY <1>1, <1>9, PersTail DEF PersConsume, PersOK
  <2>3. CountersOK'
    BY <1>1, <1>9 DEF PersConsume, CountersOK
  <2>4. TasksOK'
    BY <1>1, <1>9, BufferAssumption DEF PersConsume, TasksOK, FlushInBatch
  <2>5. MigrationPinsOldest' /\ FlushInBatch'
    BY <1>1, <1>9 DEF PersConsume, MigrationPinsOldest, FlushInBatch, ramVars
  <2>6. QED BY <2>1, <2>2, <2>3, <2>4, <2>5 DEF Basic, TypeOK
<1>10. CASE RamPeek
  <2>1. RingOK' /\ PersOK' /\ CountersOK'
    BY <1>1, <1>10 DEF RamPeek, RingOK, PersOK, CountersOK, ramVars
  <2>2. ring[tail] \in 0 .. MaxRec
    BY <1>1, <1>10 DEF RingOK
  <2>3. TasksOK'
    BY <1>1, <1>10, <2>2 DEF RamPeek, TasksOK, HeldAcrossPublish
  <2>4. MigrationPinsOldest' /\ FlushInBatch'
    BY <1>1, <1>10 DEF RamPeek, MigrationPinsOldest, FlushInBatch, ramVars
  <2>5. QED BY <2>1, <2>3, <2>4 DEF Basic, TypeOK
<1>11. CASE FlushEnd
  <2>1. RingOK' /\ PersOK' /\ CountersOK'
    BY <1>1, <1>11 DEF FlushEnd, RingOK, PersOK, CountersOK, ramVars
  <2>2. TasksOK'
    BY <1>1, <1>11, BufferAssumption DEF FlushEnd, TasksOK
  <2>3. MigrationPinsOldest' /\ FlushInBatch'
    BY <1>1, <1>11 DEF FlushEnd, MigrationPinsOldest, FlushInBatch, ramVars
  <2>4. QED BY <2>1, <2>2, <2>3 DEF Basic, TypeOK
<1>12. CASE RamPublish
  <2>1. RingOK' /\ PersOK'
    BY <1>1, <1>12 DEF RamPublish, RingOK, PersOK, ramVars
  <2>2. sent' \in [Recs -> Nat]
    BY <1>1, <1>12, PublishCounts DEF RamPublish, CountersOK
  <2>3. CountersOK'
    BY <1>1, <1>12, <2>2 DEF RamPublish, CountersOK
  <2>4. TasksOK'
    BY <1>1, <1>12 DEF RamPublish, TasksOK
  <2>5. MigrationPinsOldest' /\ FlushInBatch'
    BY <1>1, <1>12 DEF RamPublish, MigrationPinsOldest, FlushInBatch, ramVars
  <2>6. QED BY <2>1, <2>2, <2>3, <2>4, <2>5 DEF Basic, TypeOK
<1>13. CASE RamPublishFail
  <2>1. RingOK' /\ PersOK' /\ CountersOK'
    BY <1>1, <1>13 DEF RamPublishFail, RingOK, PersOK, CountersOK, ramVars
  <2>2. TasksOK'
    BY <1>1, <1>13, BufferAssumption DEF RamPublishFail, TasksOK
  <2>3. MigrationPinsOldest' /\ FlushInBatch'
    BY <1>1, <1>13 DEF RamPublishFail, MigrationPinsOldest, FlushInBatch, ramVars
  <2>4. QED BY <2>1, <2>2, <2>3 DEF Basic, TypeOK
<1>14. CASE RamConsume
  <2>1. RingOK' /\ dequeued' \in Nat
    BY <1>1, <1>14, ConsumeType DEF RamConsume
  <2>2. PersOK' /\ CountersOK'
    BY <1>1, <1>14, <2>1 DEF RamConsume, PersOK, CountersOK, TasksOK
  <2>3. TasksOK'
    BY <1>1, <1>14, BufferAssumption DEF RamConsume, TasksOK, FlushInBatch
  <2>4. MigrationPinsOldest'
    BY <1>1, <1>14
       DEF RamConsume, ConsumeRam, RamReadable, MigrationPinsOldest
  <2>5. FlushInBatch'
    BY <1>1, <1>14 DEF RamConsume, FlushInBatch
  <2>6. QED BY <2>1, <2>2, <2>3, <2>4, <2>5 DEF Basic, TypeOK
<1>15. CASE RamDiscard
  <2>1. RingOK' /\ dequeued' \in Nat
    BY <1>1, <1>15, ConsumeType DEF RamDiscard
  <2>2. PersOK' /\ CountersOK'
    BY <1>1, <1>15, <2>1 DEF RamDiscard, PersOK, CountersOK, TasksOK
  <2>3. TasksOK'
    BY <1>1, <1>15, BufferAssumption DEF RamDiscard, TasksOK, FlushInBatch
  <2>4. MigrationPinsOldest'
    BY <1>1, <1>15
       DEF RamDiscard, ConsumeRam, RamReadable, MigrationPinsOldest
  <2>5. FlushInBatch'
    BY <1>1, <1>15 DEF RamDiscard, FlushInBatch
  <2>6. QED BY <2>1, <2>2, <2>3, <2>4, <2>5 DEF Basic, TypeOK
<1>16. QED
  BY <1>2, <1>3, <1>4, <1>5, <1>6, <1>7, <1>8, <1>9, <1>10, <1>11, <1>12,
     <1>13, <1>14, <1>15 DEF Flusher

\* Basic is inductive.
LEMMA BasicInductive ==
  ASSUME Basic, [Next]_vars
  PROVE  Basic'
<1>1. CASE Writer \/ LateInit
  BY <1>1, WriterBasic
<1>2. CASE Flusher
  BY <1>2, FlusherBasic
<1>3. CASE UNCHANGED vars
  BY <1>3 DEF vars, ramVars, initVars, writeVars, flushVars, metrics, Basic,
              TypeOK, RingOK, PersOK, TasksOK, CountersOK,
              MigrationPinsOldest, FlushInBatch
<1>4. QED BY <1>1, <1>2, <1>3 DEF Next

THEOREM BasicCorrect == Spec => []Basic
<1>1. Init => Basic
  BY InitType DEF Init, Basic, MigrationPinsOldest, FlushInBatch
<1>2. QED BY <1>1, BasicInductive, PTL DEF Spec

\* Every index, counter and program counter of the two-tier buffer stays in
\* range, and head is always count slots after tail.
THEOREM TypeCorrect == Spec => []TypeOK
<1>1. Basic => TypeOK
  BY DEF Basic
<1>2. QED BY <1>1, BasicCorrect, PTL

\* The record being migrated stays the oldest one of a full ring until the
\* writer is back in its critical section.
THEOREM MigrationCorrect == Spec => []MigrationPinsOldest
<1>1. Basic => MigrationPinsOldest
  BY DEF Basic
<1>2. QED BY <1>1, BasicCorrect, PTL

-----------------------------------------------------------------------------
(***************************************************************************)
(* What a step does to the ring, seen from its oldest record: s records    *)
(* leave at the old end, and at most one, r, enters at the new end.        *)
(***************************************************************************)
RamStep(s, r) ==
  /\ s \in {0, 1} /\ s <= count
  /\ count' \in {count - s, count - s + 1}
  /\ \A k \in 0 .. count - s - 1 : RamAt(k)' = RamAt(k + s)
  /\ \A k \in 0 .. count' - 1 : k >= count - s => RamAt(k)' = r

\* An insertion into a ring with room writes the slot after the newest record.
LEMMA InsertWithRoom ==
  ASSUME RingOK, NEW r \in 0 .. MaxRec, NEW t, NEW c, NEW b \in BOOLEAN,
         Insertable(t, c), InsertRam(r, t, c, b), c < RamCap
  PROVE  /\ count' = c + 1 /\ tail' = t
         /\ \A k \in 0 .. c - 1 : RamAt(k)' = ring[Slot(t, k)]
         /\ \A k : k = c => RamAt(k)' = r
<1>1. c \in 0 .. RamCap - 1 /\ t \in 0 .. RamCap - 1 /\ head = Slot(t, c)
  BY BufferAssumption DEF Insertable
<1>2. ring' = [ring EXCEPT ![head] = r] /\ tail' = t /\ count' = c + 1
  BY <1>1, BufferAssumption DEF InsertRam
<1>3. head \in DOMAIN ring
  BY DEF RingOK
<1>4. \A k : k = c => RamAt(k)' = r
  BY <1>1, <1>2, <1>3 DEF RamAt
<1>5. ASSUME NEW k \in 0 .. c - 1
      PROVE  RamAt(k)' = ring[Slot(t, k)]
  <2>1. k \in 0 .. RamCap - 1 /\ k # c
    BY <1>1, BufferAssumption
  <2>2. Slot(t, k) # head
    BY <1>1, <2>1, SlotInjective
  <2>3. Slot(t, k) \in DOMAIN ring
    <3>1. k \in 0 .. RamCap
      BY <2>1, BufferAssumption
    <3>2. Slot(t, k) \in 0 .. RamCap - 1
      BY <1>1, <3>1, SlotValue
    <3>3. QED BY <3>2 DEF RingOK
  <2>4. QED BY <1>2, <2>2, <2>3 DEF RamAt
<1>6. QED BY <1>2, <1>4, <1>5

\* Overwriting the oldest record of a full ring.
LEMMA InsertOverOldest ==
  ASSUME RingOK, NEW r \in 0 .. MaxRec,
         count = RamCap, ring' = [ring EXCEPT ![head] = r], tail' = Inc(tail)
  PROVE  /\ \A k \in 0 .. count - 2 : RamAt(k)' = RamAt(k + 1)
         /\ \A k : k = count - 1 => RamAt(k)' = r
<1>1. head = tail /\ tail \in 0 .. RamCap - 1
  BY SlotOfLap DEF RingOK
<1>2. ASSUME NEW k \in 0 .. count - 2
      PROVE  RamAt(k)' = RamAt(k + 1)
  <2>1. /\ k \in 0 .. RamCap - 1 /\ k + 1 \in 0 .. RamCap - 1
        /\ k + 1 \in 0 .. RamCap /\ 0 \in 0 .. RamCap - 1 /\ k + 1 # 0
    BY BufferAssumption DEF RingOK
  <2>2. Slot(Inc(tail), k) = Slot(tail, k + 1)
    BY <1>1, <2>1, SlotAfterInc
  <2>3. Slot(tail, k + 1) \in 0 .. RamCap - 1
    BY <1>1, <2>1, SlotValue
  <2>4. Slot(tail, k + 1) # head
    <3>1. Slot(tail, k + 1) # Slot(tail, 0)
      BY <1>1, <2>1, SlotInjective
    <3>2. QED BY <1>1, <3>1, SlotOfLap
  <2>5. QED BY <2>2, <2>3, <2>4 DEF RamAt, RingOK
<1>3. ASSUME NEW k, k = count - 1
      PROVE  RamAt(k)' = r
  <2>1. count - 1 \in 0 .. RamCap - 1 /\ (count - 1) + 1 = RamCap
    BY BufferAssumption
  <2>2. Slot(Inc(tail), count - 1) = Slot(tail, (count - 1) + 1)
    BY <1>1, <2>1, SlotAfterInc
  <2>3. Slot(Inc(tail), count - 1) = head
    BY <1>1, <2>1, <2>2, SlotOfLap
  <2>4. QED BY <1>1, <1>3, <2>3 DEF RamAt, RingOK
<1>4. QED BY <1>2, <1>3

\* A put without a spill.
LEMMA InsertStep ==
  ASSUME RingOK, NEW r \in 0 .. MaxRec, NEW b \in BOOLEAN,
         InsertRam(r, tail, count, b)
  PROVE  \E s \in {0, 1} :
           /\ RamStep(s, r)
           /\ lost \subseteq lost' /\ (s = 1 => RamAt(0) \in lost')
<1>1. Insertable(tail, count) /\ count \in 0 .. RamCap /\ tail \in 0 .. RamCap - 1
  BY DEF RingOK, Insertable
<1>2. CASE count < RamCap
  <2>1. /\ count' = count + 1
        /\ \A k \in 0 .. count - 1 : RamAt(k)' = ring[Slot(tail, k)]
        /\ \A k : k = count => RamAt(k)' = r
    BY <1>1, <1>2, InsertWithRoom
  <2>2. \A k \in 0 .. count - 1 : RamAt(k)' = RamAt(k + 0)
    <3>1. \A k \in 0 .. count - 1 : k + 0 = k
      BY <1>1
    <3>2. QED BY <2>1, <3>1 DEF RamAt
  <2>3. count - 0 = count
    BY <1>1
  <2>4. RamStep(0, r)
    BY <1>1, <2>1, <2>2, <2>3 DEF RamStep
  <2>5. lost' = lost
    BY <1>1, <1>2, BufferAssumption DEF InsertRam
  <2>6. QED BY <2>4, <2>5
<1>3. CASE count = RamCap /\ DropOldest
  <2>1. /\ ring' = [ring EXCEPT ![head] = r] /\ tail' = Inc(tail)
        /\ count' = count /\ lost' = lost \union {ring[tail]}
    BY <1>1, <1>3, BufferAssumption DEF InsertRam
  <2>2. /\ \A k \in 0 .. count - 2 : RamAt(k)' = RamAt(k + 1)
        /\ \A k : k = count - 1 => RamAt(k)' = r
    BY <1>3, <2>1, InsertOverOldest
  <2>3. count - 1 - 1 = count - 2 /\ 1 <= count /\ count = count - 1 + 1
    BY <1>3, BufferAssumption
  <2>4. RamStep(1, r)
    BY <1>1, <2>1, <2>2, <2>3 DEF RamStep
  <2>5. RamAt(0) = ring[tail]
    BY <1>1, SlotOfLap DEF RamAt
  <2>6. QED BY <2>1, <2>4, <2>5
<1>4. CASE count = RamCap /\ ~DropOldest
  <2>1. /\ ring' = ring /\ tail' = tail
        /\ count' = count /\ lost' = lost \union {r}
    BY <1>1, <1>4, BufferAssumption DEF InsertRam
  <2>2. \A k \in 0 .. count - 1 : RamAt(k)' = RamAt(k + 0)
    <3>1. \A k \in 0 .. count - 1 : k + 0 = k
      BY <1>1
    <3>2. QED BY <2>1, <3>1 DEF RamAt
  <2>3. count - 0 = count /\ count # count + 1
    BY <1>1
  <2>4. RamStep(0, r)
    BY <1>1, <2>1, <2>2, <2>3 DEF RamStep
  <2>5. QED BY <2>1, <2>4
<1>5. QED BY <1>1, <1>2, <1>3, <1>4, BufferAssumption

\* The end of a migration: the oldest record leaves, the new one enters.
LEMMA MigrateStep ==
  ASSUME RingOK, count = RamCap, NEW r \in 0 .. MaxRec, NEW b \in BOOLEAN,
         InsertRam(r, Inc(tail), count - 1, b)
  PROVE  RamStep(1, r) /\ lost' = lost /\ count' = count
<1>1. Insertable(Inc(tail), count - 1)
  BY AfterMigration
<1>2. count - 1 < RamCap /\ (count - 1) + 1 = count /\ count \in Nat \ {0}
  BY BufferAssumption
<1>3. /\ count' = (count - 1) + 1
      /\ \A k \in 0 .. (count - 1) - 1 : RamAt(k)' = ring[Slot(Inc(tail), k)]
      /\ \A k : k = count - 1 => RamAt(k)' = r
  BY <1>1, <1>2, InsertWithRoom
<1>4. ASSUME NEW k \in 0 .. (count - 1) - 1
      PROVE  RamAt(k)' = RamAt(k + 1)
  <2>1. k \in 0 .. RamCap - 1
    BY BufferAssumption
  <2>2. Slot(Inc(tail), k) = Slot(tail, k + 1)
    BY <2>1, SlotAfterInc DEF RingOK
  <2>3. QED BY <1>3, <2>2 DEF RamAt
<1>5. RamStep(1, r)
  BY <1>2, <1>3, <1>4 DEF RamStep
<1>6. lost' = lost
  BY <1>2, BufferAssumption DEF InsertRam
<1>7. QED BY <1>2, <1>3, <1>5, <1>6

\* A consume takes one record from the old end, or none.
LEMMA ConsumeStep ==
  ASSUME RingOK, ConsumeRam, UNCHANGED ring
  PROVE  \E s \in {0, 1} : RamStep(s, 0) /\ count' = count - s
<1>1. CASE RamReadable
  <2>1. /\ count \in Nat /\ 1 <= count /\ count <= RamCap
        /\ count' = count - 1 /\ tail' = Inc(tail)
    BY <1>1, BufferAssumption DEF ConsumeRam, RamReadable, RingOK
  <2>2. ASSUME NEW k \in 0 .. count - 1 - 1
        PROVE  RamAt(k)' = RamAt(k + 1)
    <3>1. k \in 0 .. RamCap - 1
      BY <2>1, BufferAssumption
    <3>2. Slot(Inc(tail), k) = Slot(tail, k + 1)
      BY <3>1, SlotAfterInc DEF RingOK
    <3>3. QED BY <2>1, <3>2 DEF RamAt
  <2>3. RamStep(1, 0)
    BY <2>1, <2>2 DEF RamStep
  <2>4. QED BY <2>1, <2>3
<1>2. CASE ~RamReadable
  <2>1. tail' = tail /\ count' = count /\ count \in Nat
    BY <1>2, BufferAssumption DEF ConsumeRam, RingOK
  <2>2. \A k \in 0 .. count - 1 : RamAt(k)' = RamAt(k + 0)
    <3>1. \A k \in 0 .. count - 1 : k + 0 = k
      BY <2>1
    <3>2. QED BY <2>1, <3>1 DEF RamAt
  <2>3. RamStep(0, 0) /\ count - 0 = count
    BY <2>1, <2>2 DEF RamStep
  <2>4. QED BY <2>1, <2>3
<1>3. QED BY <1>1, <1>2

(***************************************************************************)
(* The inductive strengthening of TierOrder.  No resident record is newer  *)
(* than the ones that have arrived, so a new one goes behind all of them;  *)
(* a spilled record is in both tiers only until the put that spilled it    *)
(* finishes.                                                               *)
(***************************************************************************)
Incoming == IF wpc = "idle" THEN next ELSE next - 1

RamArrived  == \A k \in 0 .. count - 1 : RamAt(k) < Incoming
PersArrived == \A i \in 1 .. Len(pers) : pers[i] < Incoming
SpillState  == spilled => wpc = "spilled"

Order == TierOrder /\ RamArrived /\ PersArrived /\ SpillState

LEMMA RamTypes ==
  ASSUME RingOK
  PROVE  count \in Nat /\ \A k \in 0 .. count - 1 : RamAt(k) \in 0 .. MaxRec
<1>1. count \in 0 .. RamCap /\ count \in Nat
  BY BufferAssumption DEF RingOK
<1>2. ASSUME NEW k \in 0 .. count - 1
      PROVE  RamAt(k) \in 0 .. MaxRec
  <2>1. k \in 0 .. RamCap
    BY <1>1, BufferAssumption
  <2>2. Slot(tail, k) \in 0 .. RamCap - 1
    BY <2>1, SlotValue DEF RingOK
  <2>3. QED BY <2>2 DEF RamAt, RingOK
<1>3. QED BY <1>1, <1>2

LEMMA PersTypes ==
  ASSUME PersOK
  PROVE  Len(pers) \in Nat /\ \A i \in 1 .. Len(pers) : pers[i] \in 0 .. MaxRec
BY ElementOfSeq, LenProperties DEF PersOK

\* A task that leaves the ring alone leaves what it holds alone.
LEMMA RamFrame ==
  ASSUME UNCHANGED <<ring, tail, count>>
  PROVE  count' = count /\ \A k : RamAt(k)' = RamAt(k)
BY DEF RamAt

\* A step of the ring keeps the tiers in order, if what enters is newer than
\* everything resident and a spilled record leaves.
LEMMA RamMove ==
  ASSUME RingOK, PersOK, Order, NEW s \in {0, 1}, NEW r \in 0 .. MaxRec,
         RamStep(s, r), pers' = pers, spilled => s = 1,
         count' = count - s \/ r = Incoming, Incoming \in Nat
  PROVE  /\ TierOrder'
         /\ \A k \in 0 .. count' - 1 :
              /\ RamAt(k)' \in Nat
              /\ RamAt(k)' < Incoming \/ (count' # count - s /\ RamAt(k)' = Incoming)
<1>1. count \in Nat /\ \A k \in 0 .. count - 1 : RamAt(k) \in 0 .. MaxRec
  BY RamTypes
<1>2. Len(pers) \in Nat /\ \A i \in 1 .. Len(pers) : pers[i] \in 0 .. MaxRec
  BY PersTypes
<1>3. \A i \in 1 .. Len(pers), k \in 0 .. count - 1 :
        (spilled => k > 0) => pers[i] < RamAt(k)
  BY <1>1 DEF Order, TierOrder, PersBeforeRam
<1>4. \A k \in 0 .. count' - 1 :
        \/ k \in 0 .. count - s - 1 /\ k + s \in 0 .. count - 1 /\ RamAt(k)' = RamAt(k + s)
        \/ k = count - s /\ count' # count - s /\ RamAt(k)' = Incoming
  <2> SUFFICES ASSUME NEW k \in 0 .. count' - 1
               PROVE  \/ /\ k \in 0 .. count - s - 1 /\ k + s \in 0 .. count - 1
                         /\ RamAt(k)' = RamAt(k + s)
                      \/ k = count - s /\ count' # count - s /\ RamAt(k)' = Incoming
    OBVIOUS
  <2>1. s <= count /\ (count' = count - s \/ count' = count - s + 1)
    BY DEF RamStep
  <2>2. CASE k >= count - s
    <3>1. k = count - s /\ count' # count - s
      BY <1>1, <2>1, <2>2
    <3>2. RamAt(k)' = Incoming
      BY <2>2, <3>1 DEF RamStep
    <3>3. QED BY <3>1, <3>2
  <2>3. CASE k < count - s
    <3>1. k \in 0 .. count - s - 1 /\ k + s \in 0 .. count - 1
      BY <1>1, <2>1, <2>3
    <3>2. QED BY <3>1 DEF RamStep
  <2>4. QED BY <1>1, <2>2, <2>3
<1>5. RamOrdered'
  <2> SUFFICES ASSUME NEW i \in 0 .. count' - 1, NEW j \in 0 .. count' - 1, i < j
               PROVE  RamAt(i)' < RamAt(j)'
    BY DEF RamOrdered
  <2>1. i \in 0 .. count - s - 1 /\ i + s \in 0 .. count - 1 /\ RamAt(i)' = RamAt(i + s)
    <3>1. count' = count - s \/ count' = count - s + 1
      BY DEF RamStep
    <3>2. i # count - s
      BY <1>1, <3>1
    <3>3. QED BY <1>4, <3>2
  <2>2. CASE j \in 0 .. count - s - 1 /\ j + s \in 0 .. count - 1 /\ RamAt(j)' = RamAt(j + s)
    BY <2>1, <2>2 DEF Order, TierOrder, RamOrdered
  <2>3. CASE RamAt(j)' = Incoming
    BY <2>1, <2>3 DEF Order, RamArrived
  <2>4. QED BY <1>4, <2>2, <2>3
<1>6. PersBeforeRam'
  <2> SUFFICES ASSUME NEW i \in 1 .. Len(pers), NEW k \in 0 .. count' - 1
               PROVE  pers[i] < RamAt(k)'
    BY DEF PersBeforeRam
  <2>1. CASE k + s \in 0 .. count - 1 /\ RamAt(k)' = RamAt(k + s)
    <3>1. spilled => k + s > 0
      BY <1>4
    <3>2. QED BY <1>3, <2>1, <3>1
  <2>2. CASE RamAt(k)' = Incoming
    BY <2>2 DEF Order, PersArrived
  <2>3. QED BY <1>4, <2>1, <2>2
<1>7. PersOrdered'
  BY DEF Order, TierOrder, PersOrdered
<1>8. ASSUME NEW k \in 0 .. count' - 1
      PROVE  /\ RamAt(k)' \in Nat
             /\ RamAt(k)' < Incoming \/ (count' # count - s /\ RamAt(k)' = Incoming)
  BY <1>1, <1>4 DEF Order, RamArrived
<1>9. QED BY <1>5, <1>6, <1>7, <1>8 DEF TierOrder

\* Taking the oldest record from the persistent tier keeps the order.
LEMMA PersMove ==
  ASSUME RingOK, PersOK, Order, pers # <<>>, pers' = Tail(pers),
         UNCHANGED <<ring, tail, count, spilled, wpc, next>>
  PROVE  Order'
<1>1. count' = count /\ \A k : RamAt(k)' = RamAt(k)
  BY RamFrame
<1>2. /\ Len(pers) \in Nat \ {0} /\ Len(pers') = Len(pers) - 1
      /\ \A i \in 1 .. Len(pers) - 1 : pers'[i] = pers[i + 1]
  BY PersTail
<1>3. \A i \in 1 .. Len(pers') : /\ i + 1 \in 1 .. Len(pers)
                                 /\ pers'[i] = pers[i + 1]
                                 /\ i = Len(pers') <=> i + 1 = Len(pers)
  BY <1>2
<1>4. PersOrdered'
  BY <1>2, <1>3 DEF Order, TierOrder, PersOrdered
<1>5. RamOrdered'
  BY <1>1 DEF Order, TierOrder, RamOrdered
<1>6. PersBeforeRam'
  BY <1>1, <1>3 DEF Order, TierOrder, PersBeforeRam
<1>7. RamArrived' /\ PersArrived' /\ SpillState'
  BY <1>1, <1>3 DEF Order, RamArrived, PersArrived, SpillState, Incoming
<1>8. QED BY <1>4, <1>5, <1>6, <1>7 DEF Order, TierOrder

\* A step that changes neither tier keeps the order.
LEMMA StillOrder ==
  ASSUME Order, UNCHANGED <<ring, tail, count, pers, spilled>>,
         Incoming' = Incoming, SpillState'
  PROVE  Order'
<1>1. count' = count /\ \A k : RamAt(k)' = RamAt(k)
  BY RamFrame
<1>2. TierOrder'
  BY <1>1 DEF Order, TierOrder, PersOrdered, RamOrdered, PersBeforeRam
<1>3. RamArrived' /\ PersArrived'
  BY <1>1 DEF Order, RamArrived, PersArrived
<1>4. QED BY <1>2, <1>3 DEF Order

\* The record written to the persistent tier is the oldest one in RAM: newer
\* than what is there, and older than what stays in RAM.
LEMMA SpillOrder ==
  ASSUME RingOK, PersOK, TasksOK, MigrationPinsOldest, Order, SpillPersist
  PROVE  Order'
<1>1. count' = count /\ \A k : RamAt(k)' = RamAt(k)
  BY RamFrame DEF SpillPersist, ramVars
<1>2. RamAt(0) = cand /\ 0 \in 0 .. count - 1 /\ count \in Nat
  <2>1. ring[tail] = cand /\ count = RamCap
    BY DEF MigrationPinsOldest, SpillPersist
  <2>2. QED BY <2>1, SlotOfLap, BufferAssumption DEF RamAt, RingOK
<1>3. /\ Len(pers) \in Nat /\ \A i \in 1 .. Len(pers) : pers[i] \in 0 .. MaxRec
      /\ \A k \in 0 .. count - 1 : RamAt(k) \in 0 .. MaxRec
  BY PersTypes, RamTypes
<1>4. ~spilled /\ Incoming' = Incoming /\ SpillState'
  BY DEF Order, SpillState, SpillPersist, Incoming
<1>5. \E d \in {0, 1} :
        /\ Kept \in Seq(0 .. MaxRec) /\ Len(Kept) = Len(pers) - d /\ d <= Len(pers)
        /\ \A i \in 1 .. Len(Kept) : Kept[i] = pers[i + d]
  <2>1. CASE PersistentFull /\ DropOldest
    <3>1. pers # <<>>
      BY <2>1, BufferAssumption DEF PersistentFull
    <3>2. /\ Tail(pers) \in Seq(0 .. MaxRec) /\ Len(Tail(pers)) = Len(pers) - 1
          /\ Len(pers) \in Nat \ {0}
          /\ \A i \in 1 .. Len(pers) - 1 : Tail(pers)[i] = pers[i + 1]
      BY <3>1, PersTail
    <3>3. Kept = Tail(pers)
      BY <2>1 DEF Kept
    <3>4. 1 \in {0, 1} /\ 1 <= Len(pers) /\ Len(Kept) = Len(pers) - 1
      BY <3>2, <3>3
    <3>5. \A i \in 1 .. Len(Kept) : Kept[i] = pers[i + 1]
      BY <3>2, <3>3, <3>4
    <3>6. QED BY <3>2, <3>3, <3>4, <3>5
  <2>2. CASE ~(PersistentFull /\ DropOldest)
    <3>1. Kept = pers
      BY <2>2 DEF Kept
    <3>2. \A i \in 1 .. Len(pers) : i + 0 = i
      BY <1>3
    <3>3. QED BY <1>3, <3>1, <3>2 DEF PersOK
  <2>3. QED BY <2>1, <2>2
<1>6. PICK d \in {0, 1} :
        /\ Kept \in Seq(0 .. MaxRec) /\ Len(Kept) = Len(pers) - d /\ d <= Len(pers)
        /\ \A i \in 1 .. Len(Kept) : Kept[i] = pers[i + d]
  BY <1>5
<1>7. \A i \in 1 .. Len(Kept) :
        /\ Kept[i] \in 0 .. MaxRec /\ Kept[i] < Incoming
        /\ \A k \in 0 .. count - 1 : Kept[i] < RamAt(k)
        /\ \A j \in 1 .. Len(Kept) : i < j => Kept[i] < Kept[j]
  <2> SUFFICES ASSUME NEW i \in 1 .. Len(Kept)
               PROVE  /\ Kept[i] \in 0 .. MaxRec /\ Kept[i] < Incoming
                      /\ \A k \in 0 .. count - 1 : Kept[i] < RamAt(k)
                      /\ \A j \in 1 .. Len(Kept) : i < j => Kept[i] < Kept[j]
    OBVIOUS
  <2>1. i + d \in 1 .. Len(pers) /\ Kept[i] = pers[i + d]
    BY <1>3, <1>6
  <2>2. Kept[i] \in 0 .. MaxRec /\ Kept[i] < Incoming
    BY <1>3, <2>1 DEF Order, PersArrived
  <2>3. \A k \in 0 .. count - 1 : Kept[i] < RamAt(k)
    BY <1>4, <2>1 DEF Order, TierOrder, PersBeforeRam
  <2>4. ASSUME NEW j \in 1 .. Len(Kept), i < j
        PROVE  Kept[i] < Kept[j]
    <3>1. j + d \in 1 .. Len(pers) /\ Kept[j] = pers[j + d] /\ i + d < j + d
      BY <1>3, <1>6, <2>4
    <3>2. QED BY <2>1, <3>1 DEF Order, TierOrder, PersOrdered
  <2>5. QED BY <2>2, <2>3, <2>4
<1>8. PICK ok \in BOOLEAN :
        /\ pers' = IF ok THEN Append(Kept, cand) ELSE Kept
        /\ spilled' = ok
  BY DEF SpillPersist, SpillResult
<1>9. \A i \in 1 .. Len(pers') :
        \/ i \in 1 .. Len(Kept) /\ pers'[i] = Kept[i]
        \/ i = Len(pers') /\ i = Len(Kept) + 1 /\ pers'[i] = cand /\ spilled'
  <2>1. CASE ok
    <3>1. pers' = Append(Kept, cand) /\ cand \in 0 .. MaxRec
      BY <1>8, <2>1 DEF TasksOK
    <3>2. /\ Len(pers') = Len(Kept) + 1
          /\ \A i \in 1 .. Len(Kept) : pers'[i] = Kept[i]
          /\ pers'[Len(Kept) + 1] = cand
      BY <1>6, <3>1, AppendProperties
    <3>3. Len(Kept) \in Nat
      BY <1>3, <1>6
    <3>4. QED BY <1>8, <2>1, <3>2, <3>3
  <2>2. CASE ~ok
    BY <1>8, <2>2
  <2>3. QED BY <2>1, <2>2
<1>10. Len(Kept) \in Nat /\ cand < Incoming /\ cand \in 0 .. MaxRec
  BY <1>2, <1>3, <1>6 DEF Order, RamArrived
<1>11. PersOrdered'
  <2> SUFFICES ASSUME NEW i \in 1 .. Len(pers'), NEW j \in 1 .. Len(pers'), i < j
               PROVE  pers'[i] < pers'[j]
    BY DEF PersOrdered
  <2>1. i \in 1 .. Len(Kept) /\ pers'[i] = Kept[i]
    BY <1>9, <1>10
  <2>2. CASE j \in 1 .. Len(Kept) /\ pers'[j] = Kept[j]
    BY <1>7, <2>1, <2>2
  <2>3. CASE pers'[j] = cand
    BY <1>2, <1>7, <2>1, <2>3
  <2>4. QED BY <1>9, <2>2, <2>3
<1>12. RamOrdered'
  BY <1>1 DEF Order, TierOrder, RamOrdered
<1>13. PersBeforeRam'
  <2> SUFFICES ASSUME NEW i \in 1 .. Len(pers'), NEW k \in 0 .. count - 1
               PROVE  \/ pers'[i] < RamAt(k)
                      \/ k = 0 /\ spilled' /\ i = Len(pers') /\ pers'[i] = RamAt(k)
    BY <1>1 DEF PersBeforeRam
  <2>1. CASE i \in 1 .. Len(Kept) /\ pers'[i] = Kept[i]
    BY <1>7, <2>1
  <2>2. CASE i = Len(pers') /\ pers'[i] = cand /\ spilled'
    <3>1. k # 0 => RamAt(0) < RamAt(k)
      BY <1>2 DEF Order, TierOrder, RamOrdered
    <3>2. QED BY <1>2, <2>2, <3>1
  <2>3. QED BY <1>9, <2>1, <2>2
<1>14. RamArrived' /\ PersArrived'
  <2>1. RamArrived'
    BY <1>1, <1>4 DEF Order, RamArrived
  <2>2. PersArrived'
    BY <1>4, <1>7, <1>9, <1>10 DEF PersArrived
  <2>3. QED BY <2>1, <2>2
<1>15. QED BY <1>4, <1>11, <1>12, <1>13, <1>14 DEF Order, TierOrder

\* Every step keeps the order.
LEMMA OrderInductive ==
  ASSUME Basic, Order, [Next]_vars
  PROVE  Order'
<1>1. /\ RingOK /\ PersOK /\ TasksOK /\ MigrationPinsOldest /\ SpillState
      /\ next \in Nat /\ Incoming \in Nat /\ count \in Nat
  BY BufferAssumption, RamTypes
     DEF Basic, TypeOK, TasksOK, Order, Incoming
<1>2. CASE PutSpill
  <2>1. Incoming' = Incoming /\ SpillState' /\ UNCHANGED <<ring, tail, count, pers, spilled>>
    BY <1>1, <1>2 DEF PutSpill, Incoming, SpillState, ramVars
  <2>2. QED BY <2>1, StillOrder
<1>3. CASE PutDirect
  <2>1. /\ Incoming = next /\ Incoming' = Incoming + 1 /\ next \in 0 .. MaxRec
        /\ ~spilled /\ ~spilled' /\ pers' = pers
    BY <1>1, <1>3 DEF PutDirect, Incoming, SpillState, TasksOK
  <2>2. PICK s \in {0, 1} : RamStep(s, next)
    BY <1>1, <1>3, <2>1, InsertStep DEF PutDirect
  <2>3. /\ TierOrder'
        /\ \A k \in 0 .. count' - 1 :
             /\ RamAt(k)' \in Nat
             /\ RamAt(k)' < Incoming \/ (count' # count - s /\ RamAt(k)' = Incoming)
    BY <1>1, <2>1, <2>2, RamMove
  <2>4. RamArrived'
    BY <1>1, <2>1, <2>3 DEF RamArrived
  <2>5. PersArrived' /\ SpillState'
    BY <1>1, <2>1, PersTypes DEF Order, PersArrived, SpillState
  <2>6. QED BY <2>3, <2>4, <2>5 DEF Order
<1>4. CASE SpillPersist
  BY <1>1, <1>4, SpillOrder
<1>5. CASE PutFinish
  <2>1. /\ Incoming = next - 1 /\ Incoming' = Incoming + 1 /\ Incoming \in 0 .. MaxRec
        /\ count = RamCap /\ ~spilled' /\ pers' = pers
    BY <1>1, <1>5, BufferAssumption
       DEF PutFinish, Incoming, TasksOK, MigrationPinsOldest
  <2>2. PICK s \in {0, 1} : RamStep(s, Incoming) /\ (spilled => s = 1)
    <3>1. CASE spilled
      <4>1. InsertRam(Incoming, Inc(tail), count - 1, TRUE)
        BY <1>5, <2>1, <3>1 DEF PutFinish
      <4>2. RamStep(1, Incoming)
        BY <1>1, <2>1, <4>1, MigrateStep
      <4>3. QED BY <4>2
    <3>2. CASE ~spilled
      <4>1. InsertRam(Incoming, tail, count, FALSE)
        BY <1>5, <2>1, <3>2 DEF PutFinish
      <4>2. \E s \in {0, 1} : RamStep(s, Incoming)
        BY <1>1, <2>1, <4>1, InsertStep
      <4>3. QED BY <3>2, <4>2
    <3>3. QED BY <3>1, <3>2
  <2>3. /\ TierOrder'
        /\ \A k \in 0 .. count' - 1 :
             /\ RamAt(k)' \in Nat
             /\ RamAt(k)' < Incoming \/ (count' # count - s /\ RamAt(k)' = Incoming)
    BY <1>1, <2>1, <2>2, RamMove
  <2>4. RamArrived'
    BY <1>1, <2>1, <2>3 DEF RamArrived
  <2>5. PersArrived' /\ SpillState'
    BY <1>1, <2>1, PersTypes DEF Order, PersArrived, SpillState
  <2>6. QED BY <2>3, <2>4, <2>5 DEF Order
<1>6. CASE RamConsume \/ RamDiscard
  <2>1. /\ ConsumeRam /\ ring' = ring /\ pers' = pers
        /\ spilled' = spilled /\ wpc' = wpc /\ next' = next
    BY <1>6 DEF RamConsume, RamDiscard, writeVars
  <2>2. Incoming' = Incoming /\ SpillState'
    BY <1>1, <2>1 DEF Incoming, SpillState
  <2>3. CASE RamReadable
    <3>1. ~spilled /\ 0 \in 0 .. MaxRec
      BY <1>1, <2>3, BufferAssumption
         DEF RamReadable, MigrationPinsOldest, SpillState
    <3>2. PICK s \in {0, 1} : RamStep(s, 0) /\ count' = count - s
      BY <1>1, <2>1, ConsumeStep
    <3>3. /\ TierOrder'
          /\ \A k \in 0 .. count' - 1 :
               /\ RamAt(k)' \in Nat
               /\ RamAt(k)' < Incoming \/ (count' # count - s /\ RamAt(k)' = Incoming)
      BY <1>1, <2>1, <3>1, <3>2, RamMove
    <3>4. RamArrived' /\ PersArrived'
      BY <2>1, <2>2, <3>2, <3>3 DEF Order, RamArrived, PersArrived
    <3>5. QED BY <2>2, <3>3, <3>4 DEF Order
  <2>4. CASE ~RamReadable
    BY <2>1, <2>2, <2>4, StillOrder DEF ConsumeRam
  <2>5. QED BY <2>3, <2>4
<1>7. CASE PersCorrupt \/ PersDiscard \/ PersConsume
  <2>1. UNCHANGED <<ring, tail, count, spilled, wpc, next>>
    BY <1>7 DEF PersCorrupt, PersDiscard, PersConsume, ramVars, writeVars
  <2>2. CASE pers # <<>>
    <3>1. pers' = Tail(pers)
      BY <1>7, <2>2 DEF PersCorrupt, PersDiscard, PersConsume
    <3>2. QED BY <1>1, <2>1, <2>2, <3>1, PersMove
  <2>3. CASE pers = <<>>
    <3>1. pers' = pers
      BY <1>7, <2>3 DEF PersCorrupt, PersDiscard, PersConsume
    <3>2. Incoming' = Incoming /\ SpillState'
      BY <1>1, <2>1 DEF Incoming, SpillState
    <3>3. QED BY <2>1, <3>1, <3>2, StillOrder
  <2>4. QED BY <2>2, <2>3
<1>8. CASE \/ LateInit \/ FlushBegin \/ PersPeek \/ PersNothing \/ PersPublish
           \/ PersPublishFail \/ RamPeek \/ FlushEnd \/ RamPublish
           \/ RamPublishFail \/ UNCHANGED vars
  <2>1. UNCHANGED <<ring, tail, count, pers, spilled, wpc, next>>
    BY <1>8 DEF LateInit, FlushBegin, PersPeek, PersNothing, PersPublish,
                PersPublishFail, RamPeek, FlushEnd, RamPublish, RamPublishFail,
                vars, ramVars, writeVars
  <2>2. Incoming' = Incoming /\ SpillState'
    BY <1>1, <2>1 DEF Incoming, SpillState
  <2>3. QED BY <2>1, <2>2, StillOrder
<1>9. QED
  BY <1>2, <1>3, <1>4, <1>5, <1>6, <1>7, <1>8 DEF Next, Writer, Flusher

LEMMA InitOrder == Init => Order
<1> SUFFICES ASSUME Init PROVE Order
  OBVIOUS
<1>1. count = 0 /\ ~spilled /\ Incoming = Backlog + 1 /\ Backlog \in Nat
  BY BufferAssumption DEF Init, Incoming
<1>2. \A i \in 1 .. Len(pers) : pers[i] = i /\ i \in 1 .. Backlog
  <2> DEFINE n == IF Persistent THEN Backlog ELSE 0
  <2>1. n \in Nat /\ n <= Backlog /\ pers = [i \in 1 .. n |-> i]
    BY <1>1 DEF Init
  <2> HIDE DEF n
  <2>2. Len(pers) = n
    BY <2>1
  <2>3. QED BY <1>1, <2>1, <2>2
<1>3. TierOrder
  BY <1>1, <1>2 DEF TierOrder, PersOrdered, RamOrdered, PersBeforeRam
<1>4. RamArrived /\ PersArrived /\ SpillState
  BY <1>1, <1>2 DEF RamArrived, PersArrived, SpillState
<1>5. QED BY <1>3, <1>4 DEF Order

THEOREM OrderInvariant == Spec => []Order
<1>1. Init => Order
  BY InitOrder
<1>2. Basic /\ Order /\ [Next]_vars => Order'
  BY OrderInductive
<1>3. QED BY <1>1, <1>2, BasicCorrect, PTL DEF Spec

\* Both tiers hold their records in order of arrival, and what is in
\* persistent storage is older than what is in RAM.
THEOREM TierOrderCorrect == Spec => []TierOrder
<1>1. Order => TierOrder
  BY DEF Order
<1>2. QED BY <1>1, OrderInvariant, PTL

(***************************************************************************)
(* Phase 1: the lock is what keeps the peeked record at the head.          *)
(***************************************************************************)
LockHeld == fpc \in {"publishPers", "consumePers"} => lock = "flush"

Held == LockHeld /\ PersConsumeMatchesPublish

LEMMA HeldInductive ==
  ASSUME Held, [Next]_vars
  PROVE  Held'
<1> USE DEF Held, LockHeld, PersConsumeMatchesPublish
<1>1. CASE PersPeek
  BY <1>1 DEF PersPeek, HeldAcrossPublish
<1>2. CASE PersPublish
  BY <1>2 DEF PersPublish
<1>3. CASE SpillPersist
  <2>1. fpc \notin {"publishPers", "consumePers"}
    BY <1>3 DEF SpillPersist
  <2>2. QED BY <1>3, <2>1 DEF SpillPersist, flushVars
<1>4. CASE \/ PersCorrupt \/ PersDiscard \/ PersConsume \/ PersPublishFail
           \/ FlushBegin \/ PersNothing \/ RamPeek \/ FlushEnd \/ RamPublish
           \/ RamPublishFail \/ RamConsume \/ RamDiscard
  <2>1. fpc' \notin {"publishPers", "consumePers"}
    BY <1>4 DEF PersCorrupt, PersDiscard, PersConsume, PersPublishFail,
                FlushBegin, PersNothing, RamPeek, FlushEnd, RamPublish,
                RamPublishFail, RamConsume, RamDiscard, flushVars
  <2>2. QED BY <2>1
<1>5. CASE PutSpill \/ PutDirect \/ PutFinish \/ LateInit \/ UNCHANGED vars
  <2>1. UNCHANGED <<fpc, lock, pers, rec>>
    BY <1>5 DEF PutSpill, PutDirect, PutFinish, LateInit, vars, flushVars
  <2>2. QED BY <2>1
<1>6. QED
  BY <1>1, <1>2, <1>3, <1>4, <1>5 DEF Next, Writer, Flusher

\* The lock and the head of the tier, whatever the writer does meanwhile.
THEOREM HeldInvariant == Spec => []Held
<1>1. Init => Held
  BY DEF Init, Held, LockHeld, PersConsumeMatchesPublish
<1>2. QED BY <1>1, HeldInductive, PTL DEF Spec

\* What phase 1 consumes is what it published, for every tier size and batch.
THEOREM PersConsumeCorrect == Spec => []PersConsumeMatchesPublish
<1>1. Held => PersConsumeMatchesPublish
  BY DEF Held
<1>2. QED BY <1>1, HeldInvariant, PTL

(***************************************************************************)
(* Phase 2: the record may leave the ring under the flush.  If it is being *)
(* migrated, its copy is in persistent storage before it leaves: phase 1,  *)
(* which could consume that copy, is over.                                 *)
(***************************************************************************)
RamFlushing == fpc \in {"publishRam", "consumeRam", "discardRam"}

FlushedRecord ==
  RamFlushing =>
    /\ rec \in 0 .. MaxRec /\ rec < Incoming
    /\ spilled => InPers(cand)

Flushed == FlushedRecord /\ RamRecordAccounted

\* A step that takes at most the oldest record from RAM, and accounts for it,
\* keeps the flushed record accounted for.
LEMMA FlushedMove ==
  ASSUME RingOK, TasksOK, Flushed, RamFlushing, NEW s \in {0, 1}, NEW r \in 0 .. MaxRec,
         RamStep(s, r), r = Incoming, pers' = pers, lost \subseteq lost',
         s = 1 => RamAt(0) \in lost' \/ InPers(RamAt(0)), rec' = rec
  PROVE  RamRecordAccounted'
<1>1. /\ count \in Nat /\ \A k \in 0 .. count - 1 : RamAt(k) \in 0 .. MaxRec
      /\ s <= count /\ (count' = count - s \/ count' = count - s + 1)
  BY RamTypes DEF RamStep
<1>2. /\ \A k \in 0 .. count - s - 1 : RamAt(k)' = RamAt(k + s)
      /\ \A k \in 0 .. count' - 1 : k >= count - s => RamAt(k)' = r
  BY DEF RamStep
<1>3. InPers(rec)' <=> InPers(rec)
  BY DEF InPers
<1>4. InRam(rec)' \/ InPers(rec)' \/ rec \in lost'
  <2>1. CASE InPers(rec) \/ rec \in lost
    BY <1>3, <2>1
  <2>2. CASE InRam(rec)
    <3>1. PICK k \in 0 .. count - 1 : RamAt(k) = rec
      BY <2>2 DEF InRam
    <3>2. CASE k = 0 /\ s = 1
      BY <1>3, <3>1, <3>2
    <3>3. CASE k >= s
      <4>1. /\ k - s \in 0 .. count - s - 1 /\ k - s \in 0 .. count' - 1
            /\ (k - s) + s = k
        BY <1>1, <3>1, <3>3
      <4>2. RamAt(k - s)' = rec'
        <5>1. \A j \in 0 .. count - s - 1 : j + s = k => RamAt(j)' = rec
          BY <1>2, <3>1
        <5>2. QED BY <4>1, <5>1
      <4>3. QED BY <4>1, <4>2 DEF InRam
    <3>4. QED BY <1>1, <3>1, <3>2, <3>3
  <2>3. QED BY <2>1, <2>2 DEF Flushed, RamRecordAccounted, RamFlushing
<1>5. ASSUME NEW k \in 0 .. count' - 1
      PROVE  RamAt(k)' >= rec
  <2>1. CASE k >= count - s
    BY <1>2, <2>1, BufferAssumption DEF Flushed, FlushedRecord
  <2>2. CASE k < count - s
    <3>1. k \in 0 .. count - s - 1 /\ k + s \in 0 .. count - 1
      BY <1>1, <2>2
    <3>2. RamAt(k + s) >= rec
      BY <3>1 DEF Flushed, RamRecordAccounted, RamFlushing
    <3>3. QED BY <1>2, <3>1, <3>2
  <2>3. QED BY <1>1, <2>1, <2>2
<1>6. QED BY <1>4, <1>5 DEF RamRecordAccounted

\* A step that touches neither tier, nor what the flush holds.
LEMMA FlushedFrame ==
  ASSUME Flushed, RamFlushing' => RamFlushing,
         UNCHANGED <<ring, tail, count, pers, lost, rec, spilled>>,
         spilled => cand' = cand, Incoming' = Incoming
  PROVE  Flushed'
<1>1. count' = count /\ \A k : RamAt(k)' = RamAt(k)
  BY RamFrame
<1>2. /\ InPers(rec)' = InPers(rec) /\ InRam(rec)' = InRam(rec)
      /\ spilled => InPers(cand)' = InPers(cand)
  BY <1>1 DEF InPers, InRam
<1>3. FlushedRecord'
  BY <1>2 DEF Flushed, FlushedRecord
<1>4. RamRecordAccounted'
  BY <1>1, <1>2 DEF Flushed, RamRecordAccounted, RamFlushing
<1>5. QED BY <1>3, <1>4 DEF Flushed

\* The spill moves the flushed record on, or leaves it where it is.
LEMMA FlushedSpill ==
  ASSUME PersOK, TasksOK, Flushed, RamFlushing, SpillPersist
  PROVE  Flushed'
<1>1. /\ UNCHANGED <<ring, tail, count, rec, fpc, cand, next>>
      /\ lost' = lost \union GivenUp /\ Incoming' = Incoming
  BY DEF SpillPersist, ramVars, flushVars, Incoming
<1>2. count' = count /\ \A k : RamAt(k)' = RamAt(k)
  BY <1>1, RamFrame
<1>3. PICK ok \in BOOLEAN :
        /\ pers' = IF ok THEN Append(Kept, cand) ELSE Kept
        /\ spilled' = ok
  BY DEF SpillPersist, SpillResult
<1>4. /\ Kept \in Seq(0 .. MaxRec)
      /\ \A i \in 1 .. Len(pers) : \/ pers[i] \in GivenUp
                                   \/ \E j \in 1 .. Len(Kept) : Kept[j] = pers[i]
  <2>1. CASE PersistentFull /\ DropOldest
    <3>1. pers # <<>>
      BY <2>1, BufferAssumption DEF PersistentFull
    <3>2. /\ Tail(pers) \in Seq(0 .. MaxRec) /\ Len(Tail(pers)) = Len(pers) - 1
          /\ Len(pers) \in Nat \ {0} /\ Head(pers) = pers[1]
          /\ \A i \in 1 .. Len(pers) - 1 : Tail(pers)[i] = pers[i + 1]
      BY <3>1, PersTail
    <3>3. Kept = Tail(pers) /\ GivenUp = {Head(pers)}
      BY <2>1 DEF Kept, GivenUp
    <3>4. ASSUME NEW i \in 1 .. Len(pers), i # 1
          PROVE  \E j \in 1 .. Len(Kept) : Kept[j] = pers[i]
      <4>1. i - 1 \in 1 .. Len(Kept) /\ i - 1 \in 1 .. Len(pers) - 1 /\ (i - 1) + 1 = i
        BY <3>2, <3>3, <3>4
      <4>2. Kept[i - 1] = pers[i]
        BY <3>2, <3>3, <4>1
      <4>3. QED BY <4>1, <4>2
    <3>5. QED BY <3>2, <3>3, <3>4
  <2>2. CASE ~(PersistentFull /\ DropOldest)
    BY <2>2 DEF Kept, PersOK
  <2>3. QED BY <2>1, <2>2
<1>5. /\ \A i \in 1 .. Len(Kept) : i \in 1 .. Len(pers') /\ pers'[i] = Kept[i]
      /\ ok => Len(pers') \in 1 .. Len(pers') /\ pers'[Len(pers')] = cand
  <2>1. CASE ok
    <3>1. /\ pers' = Append(Kept, cand) /\ cand \in 0 .. MaxRec
          /\ Len(Kept) \in Nat
      BY <1>3, <1>4, <2>1, LenProperties DEF TasksOK
    <3>2. /\ Len(pers') = Len(Kept) + 1
          /\ \A i \in 1 .. Len(Kept) : pers'[i] = Kept[i]
          /\ pers'[Len(Kept) + 1] = cand
      BY <1>4, <3>1, AppendProperties
    <3>3. QED BY <3>1, <3>2
  <2>2. CASE ~ok
    BY <1>3, <2>2
  <2>3. QED BY <2>1, <2>2
<1>6. InPers(rec) => InPers(rec)' \/ rec \in lost'
  <2>1. SUFFICES ASSUME NEW i \in 1 .. Len(pers), pers[i] = rec
                 PROVE  InPers(rec)' \/ rec \in lost'
    BY DEF InPers
  <2>2. CASE rec \in GivenUp
    BY <1>1, <2>2
  <2>3. CASE \E j \in 1 .. Len(Kept) : Kept[j] = rec
    BY <1>1, <1>5, <2>3 DEF InPers
  <2>4. QED BY <1>4, <2>1, <2>2, <2>3
<1>7. FlushedRecord'
  <2>1. spilled' => InPers(cand)'
    BY <1>1, <1>3, <1>5 DEF InPers
  <2>2. QED BY <1>1, <2>1 DEF Flushed, FlushedRecord, RamFlushing
<1>8. RamRecordAccounted'
  <2>1. InRam(rec)' = InRam(rec)
    BY <1>1, <1>2 DEF InRam
  <2>2. QED BY <1>1, <1>2, <1>6, <2>1 DEF Flushed, RamRecordAccounted, RamFlushing
<1>9. QED BY <1>7, <1>8 DEF Flushed

LEMMA FlushedInductive ==
  ASSUME Basic, Order, Flushed, [Next]_vars
  PROVE  Flushed'
<1>1. /\ RingOK /\ PersOK /\ TasksOK /\ MigrationPinsOldest /\ SpillState
      /\ next \in Nat /\ Incoming \in Nat /\ count \in Nat
  BY BufferAssumption, RamTypes
     DEF Basic, TypeOK, TasksOK, Order, Incoming
<1>2. CASE ~RamFlushing'
  BY <1>2 DEF Flushed, FlushedRecord, RamRecordAccounted, RamFlushing
<1>3. CASE PutSpill
  BY <1>1, <1>3, FlushedFrame
     DEF PutSpill, SpillState, Incoming, RamFlushing, ramVars, flushVars
<1>4. CASE PutDirect /\ RamFlushing'
  <2>1. /\ Incoming = next /\ Incoming' = Incoming + 1 /\ next \in 0 .. MaxRec
        /\ ~spilled' /\ pers' = pers /\ rec' = rec /\ RamFlushing
    BY <1>1, <1>4
       DEF PutDirect, Incoming, SpillState, TasksOK, RamFlushing, flushVars
  <2>2. PICK s \in {0, 1} : /\ RamStep(s, next)
                            /\ lost \subseteq lost' /\ (s = 1 => RamAt(0) \in lost')
    BY <1>1, <1>4, <2>1, InsertStep DEF PutDirect
  <2>3. RamRecordAccounted'
    BY <1>1, <2>1, <2>2, FlushedMove
  <2>4. FlushedRecord'
    BY <1>1, <2>1, BufferAssumption DEF Flushed, FlushedRecord
  <2>5. QED BY <2>3, <2>4 DEF Flushed
<1>5. CASE SpillPersist /\ RamFlushing'
  <2>1. RamFlushing
    BY <1>5 DEF SpillPersist, RamFlushing, flushVars
  <2>2. QED BY <1>1, <1>5, <2>1, FlushedSpill
<1>6. CASE PutFinish /\ RamFlushing'
  <2>1. /\ Incoming = next - 1 /\ Incoming' = Incoming + 1 /\ Incoming \in 0 .. MaxRec
        /\ count = RamCap /\ ~spilled' /\ pers' = pers /\ rec' = rec /\ RamFlushing
    BY <1>1, <1>6, BufferAssumption
       DEF PutFinish, Incoming, TasksOK, MigrationPinsOldest, RamFlushing, flushVars
  <2>2. PICK s \in {0, 1} :
          /\ RamStep(s, Incoming) /\ lost \subseteq lost'
          /\ s = 1 => RamAt(0) \in lost' \/ InPers(RamAt(0))
    <3>1. CASE spilled
      <4>1. InsertRam(Incoming, Inc(tail), count - 1, TRUE)
        BY <1>6, <2>1, <3>1 DEF PutFinish
      <4>2. RamStep(1, Incoming) /\ lost' = lost
        BY <1>1, <2>1, <4>1, MigrateStep
      <4>3. RamAt(0) = cand
        BY <1>1, <1>6, SlotOfLap DEF PutFinish, MigrationPinsOldest, RamAt, RingOK
      <4>4. InPers(RamAt(0))
        BY <2>1, <3>1, <4>3 DEF Flushed, FlushedRecord
      <4>5. QED BY <4>2, <4>4
    <3>2. CASE ~spilled
      <4>1. InsertRam(Incoming, tail, count, FALSE)
        BY <1>6, <2>1, <3>2 DEF PutFinish
      <4>2. QED BY <1>1, <2>1, <4>1, InsertStep
    <3>3. QED BY <3>1, <3>2
  <2>3. RamRecordAccounted'
    BY <1>1, <2>1, <2>2, FlushedMove
  <2>4. FlushedRecord'
    BY <1>1, <2>1, BufferAssumption DEF Flushed, FlushedRecord
  <2>5. QED BY <2>3, <2>4 DEF Flushed
<1>7. CASE RamPeek /\ RamFlushing'
  <2>1. /\ UNCHANGED <<ring, tail, count, wpc, spilled, next>>
        /\ 0 \in 0 .. count - 1 /\ ~spilled /\ rec' = RamAt(0)
    <3>1. count \in Nat \ {0} /\ ~spilled
      BY <1>1, <1>7 DEF RamPeek, RamReadable, MigrationPinsOldest, SpillState
    <3>2. ring[tail] = RamAt(0)
      BY <1>1, SlotOfLap DEF RamAt, RingOK
    <3>3. QED BY <1>7, <3>1, <3>2 DEF RamPeek, ramVars, writeVars
  <2>2. count' = count /\ (\A k : RamAt(k)' = RamAt(k)) /\ Incoming' = Incoming
    BY <2>1, RamFrame DEF Incoming
  <2>3. \A k \in 0 .. count - 1 : RamAt(k) \in 0 .. MaxRec /\ RamAt(k) >= RamAt(0)
    <3>1. \A k \in 0 .. count - 1 : RamAt(k) \in 0 .. MaxRec
      BY <1>1, RamTypes
    <3>2. \A k \in 0 .. count - 1 : k # 0 => RamAt(0) < RamAt(k)
      BY <1>1, <2>1 DEF Order, TierOrder, RamOrdered
    <3>3. QED BY <1>1, <2>1, <3>1, <3>2, BufferAssumption
  <2>4. RamRecordAccounted'
    BY <2>1, <2>2, <2>3 DEF RamRecordAccounted, InRam
  <2>5. FlushedRecord'
    BY <2>1, <2>2, <2>3 DEF FlushedRecord, Order, RamArrived
  <2>6. QED BY <2>4, <2>5 DEF Flushed
<1>8. CASE RamPublish
  BY <1>1, <1>8, FlushedFrame
     DEF RamPublish, Incoming, RamFlushing, ramVars, writeVars
<1>9. CASE LateInit \/ UNCHANGED vars
  BY <1>1, <1>9, FlushedFrame
     DEF LateInit, vars, Incoming, RamFlushing, ramVars, writeVars, flushVars
<1>10. CASE PersDiscard
  BY <1>2, <1>10 DEF PersDiscard, RamFlushing, flushVars
<1>11. CASE \/ FlushBegin \/ PersPeek \/ PersNothing \/ PersCorrupt
            \/ PersPublish \/ PersPublishFail \/ PersConsume \/ FlushEnd
            \/ RamPublishFail \/ RamConsume \/ RamDiscard
  <2>1. ~RamFlushing'
    BY <1>11 DEF FlushBegin, PersPeek, PersNothing, PersCorrupt, PersPublish,
                 PersPublishFail, PersConsume, FlushEnd, RamPublishFail,
                 RamConsume, RamDiscard, RamFlushing
  <2>2. QED BY <1>2, <2>1
<1>12. QED
  BY <1>2, <1>3, <1>4, <1>5, <1>6, <1>7, <1>8, <1>9, <1>10, <1>11
     DEF Next, Writer, Flusher

\* The record in hand is accounted for, the copy a migration made included.
THEOREM FlushedInvariant == Spec => []Flushed
<1>1. Init => Flushed
  BY DEF Init, Flushed, FlushedRecord, RamRecordAccounted, RamFlushing
<1>2. Basic /\ Order /\ Flushed /\ [Next]_vars => Flushed'
  BY FlushedInductive
<1>3. QED BY <1>1, <1>2, BasicCorrect, OrderInvariant, PTL DEF Spec

\* The record a flush is publishing from RAM is never forgotten: it is in one
\* of the tiers or was dropped and counted, and nothing older stays in RAM.
THEOREM RamRecordAccountedCorrect == Spec => []RamRecordAccounted
<1>1. Flushed => RamRecordAccounted
  BY DEF Flushed
<1>2. QED BY <1>1, FlushedInvariant, PTL

(***************************************************************************)
(* The metrics.  Every step that moves a record moves its counter with it. *)
(***************************************************************************)
Balance ==
  MetricsBalance /\ (DropOldest /\ BadRecs = {} => fpc # "discardRam")

\* What the balance says, as an equation between numbers.
Balanced == enqueued + (IF Persistent THEN Backlog ELSE 0)
              = count + Len(pers) + dequeued + dropped

LEMMA InsertBalance ==
  ASSUME RingOK, CountersOK, DropOldest, NEW r, NEW t, NEW c \in 0 .. RamCap,
         NEW b \in BOOLEAN, InsertRam(r, t, c, b)
  PROVE  \E o, d \in {0, 1} :
           /\ count' = c + 1 - d /\ dropped' = dropped + d
           /\ enqueued' = enqueued + o /\ (b <=> o = 0)
<1>1. c \in Nat /\ RamCap \in Nat /\ enqueued \in Nat /\ dropped \in Nat
  BY BufferAssumption DEF CountersOK
<1>2. enqueued' = (IF b THEN enqueued ELSE enqueued + 1)
  BY BufferAssumption DEF InsertRam
<1>3. \/ count' = c + 1 /\ dropped' = dropped
      \/ count' = c /\ dropped' = dropped + 1
  BY BufferAssumption DEF InsertRam
<1>4. \E o \in {0, 1} : enqueued' = enqueued + o /\ (b <=> o = 0)
  BY <1>1, <1>2
<1>5. \E d \in {0, 1} : count' = c + 1 - d /\ dropped' = dropped + d
  <2>1. CASE count' = c + 1 /\ dropped' = dropped
    <3>1. count' = c + 1 - 0 /\ dropped' = dropped + 0
      BY <1>1, <2>1
    <3>2. QED BY <3>1
  <2>2. CASE count' = c /\ dropped' = dropped + 1
    <3>1. count' = c + 1 - 1
      BY <1>1, <2>2
    <3>2. QED BY <2>2, <3>1
  <2>3. QED BY <1>3, <2>1, <2>2
<1>6. QED BY <1>4, <1>5

LEMMA BalanceInductive ==
  ASSUME Basic, Balance, [Next]_vars
  PROVE  Balance'
<1> SUFFICES ASSUME DropOldest, BadRecs = {}
             PROVE  Balanced' /\ fpc' # "discardRam"
  BY DEF Balance, MetricsBalance, Balanced, Depth
<1>1. /\ RingOK /\ PersOK /\ TasksOK /\ CountersOK /\ MigrationPinsOldest
      /\ Balanced /\ fpc # "discardRam"
  BY DEF Basic, TypeOK, Balance, MetricsBalance, Balanced, Depth
<1>2. /\ count \in Nat /\ count \in 0 .. RamCap /\ enqueued \in Nat
      /\ dequeued \in Nat /\ dropped \in Nat /\ Backlog \in Nat /\ Len(pers) \in Nat
  BY <1>1, RamTypes, PersTypes, BufferAssumption DEF RingOK, CountersOK
<1>3. pers # <<>> => Len(pers) \in Nat \ {0} /\ Len(Tail(pers)) = Len(pers) - 1
  BY <1>1, PersTail
<1>4. CASE PutDirect
  <2>1. PICK o, d \in {0, 1} :
          /\ count' = count + 1 - d /\ dropped' = dropped + d
          /\ enqueued' = enqueued + o /\ (FALSE <=> o = 0)
    BY <1>1, <1>2, <1>4, InsertBalance DEF PutDirect
  <2>2. pers' = pers /\ dequeued' = dequeued /\ fpc' = fpc
    BY <1>4 DEF PutDirect, flushVars
  <2>3. o = 1
    BY <2>1
  <2>4. QED BY <1>1, <1>2, <2>1, <2>2, <2>3 DEF Balanced
<1>5. CASE PutFinish
  <2>1. pers' = pers /\ dequeued' = dequeued /\ fpc' = fpc /\ count = RamCap
    BY <1>1, <1>5 DEF PutFinish, flushVars, MigrationPinsOldest
  <2>2. CASE spilled
    <3>1. InsertRam(next - 1, Inc(tail), count - 1, TRUE)
      BY <1>5, <2>2 DEF PutFinish
    <3>2. count - 1 \in 0 .. RamCap
      BY <2>1, BufferAssumption
    <3>3. PICK o, d \in {0, 1} :
            /\ count' = (count - 1) + 1 - d /\ dropped' = dropped + d
            /\ enqueued' = enqueued + o /\ (TRUE <=> o = 0)
      BY <1>1, <3>1, <3>2, InsertBalance
    <3>4. o = 0
      BY <3>3
    <3>5. QED BY <1>1, <1>2, <2>1, <3>3, <3>4 DEF Balanced
  <2>3. CASE ~spilled
    <3>1. InsertRam(next - 1, tail, count, FALSE)
      BY <1>5, <2>3 DEF PutFinish
    <3>2. PICK o, d \in {0, 1} :
            /\ count' = count + 1 - d /\ dropped' = dropped + d
            /\ enqueued' = enqueued + o /\ (FALSE <=> o = 0)
      BY <1>1, <1>2, <3>1, InsertBalance
    <3>3. o = 1
      BY <3>2
    <3>4. QED BY <1>1, <1>2, <2>1, <3>2, <3>3 DEF Balanced
  <2>4. QED BY <1>1, <2>2, <2>3 DEF TasksOK
<1>6. CASE SpillPersist
  <2>1. /\ count' = count /\ dequeued' = dequeued /\ fpc' = fpc
        /\ dropped' = IF PersistentFull THEN dropped + 1 ELSE dropped
    BY <1>6 DEF SpillPersist, ramVars, flushVars
  <2>2. /\ Kept \in Seq(0 .. MaxRec)
        /\ Len(Kept) = IF PersistentFull THEN Len(pers) - 1 ELSE Len(pers)
    <3>1. CASE PersistentFull
      <4>1. pers # <<>>
        BY <3>1, BufferAssumption DEF PersistentFull
      <4>2. QED BY <1>1, <3>1, <4>1, PersTail DEF Kept
    <3>2. CASE ~PersistentFull
      BY <1>1, <3>2 DEF Kept, PersOK
    <3>3. QED BY <3>1, <3>2
  <2>3. PICK ok \in BOOLEAN :
          /\ pers' = IF ok THEN Append(Kept, cand) ELSE Kept
          /\ enqueued' = IF ok THEN enqueued + 1 ELSE enqueued
    BY <1>6 DEF SpillPersist
  <2>4. Len(pers') = IF ok THEN Len(Kept) + 1 ELSE Len(Kept)
    BY <1>1, <2>2, <2>3, AppendProperties DEF TasksOK
  <2>5. CASE ok
    <3>1. enqueued' = enqueued + 1 /\ Len(pers') = Len(Kept) + 1
      BY <2>3, <2>4, <2>5
    <3>2. QED BY <1>1, <1>2, <2>1, <2>2, <3>1 DEF Balanced
  <2>6. CASE ~ok
    <3>1. enqueued' = enqueued /\ Len(pers') = Len(Kept)
      BY <2>3, <2>4, <2>6
    <3>2. QED BY <1>1, <1>2, <2>1, <2>2, <3>1 DEF Balanced
  <2>7. QED BY <2>5, <2>6
<1>7. CASE PersCorrupt \/ PersDiscard
  <2>1. /\ count' = count /\ enqueued' = enqueued /\ fpc' # "discardRam"
        /\ pers # <<>> /\ pers' = Tail(pers)
    BY <1>1, <1>7 DEF PersCorrupt, PersDiscard, ramVars, flushVars
  <2>2. dropped' = dropped + 1 /\ dequeued' = dequeued
    BY <1>7 DEF PersCorrupt, PersDiscard
  <2>3. QED BY <1>1, <1>2, <1>3, <2>1, <2>2 DEF Balanced
<1>8. CASE PersConsume
  <2>1. /\ count' = count /\ enqueued' = enqueued /\ dropped' = dropped
        /\ fpc' # "discardRam"
    BY <1>8 DEF PersConsume, ramVars
  <2>2. CASE pers # <<>>
    <3>1. pers' = Tail(pers) /\ dequeued' = dequeued + 1
      BY <1>8, <2>2 DEF PersConsume
    <3>2. QED BY <1>1, <1>2, <1>3, <2>1, <2>2, <3>1 DEF Balanced
  <2>3. CASE pers = <<>>
    BY <1>1, <1>8, <2>1, <2>3 DEF PersConsume, Balanced
  <2>4. QED BY <2>2, <2>3
<1>9. CASE RamConsume
  <2>1. /\ pers' = pers /\ enqueued' = enqueued /\ dropped' = dropped
        /\ fpc' # "discardRam" /\ ConsumeRam
    BY <1>9 DEF RamConsume
  <2>2. CASE RamReadable
    <3>1. count' = count - 1 /\ dequeued' = dequeued + 1
      BY <2>1, <2>2 DEF ConsumeRam
    <3>2. QED BY <1>1, <1>2, <2>1, <3>1 DEF Balanced
  <2>3. CASE ~RamReadable
    BY <1>1, <2>1, <2>3 DEF ConsumeRam, Balanced
  <2>4. QED BY <2>2, <2>3
<1>10. CASE RamDiscard
  BY <1>1, <1>10 DEF RamDiscard
<1>11. CASE \/ PutSpill \/ LateInit \/ FlushBegin \/ PersPeek \/ PersNothing
            \/ PersPublish \/ PersPublishFail \/ RamPeek \/ FlushEnd
            \/ RamPublish \/ RamPublishFail \/ UNCHANGED vars
  <2>1. UNCHANGED <<count, pers, enqueued, dequeued, dropped>>
    BY <1>11 DEF PutSpill, LateInit, FlushBegin, PersPeek, PersNothing,
                 PersPublish, PersPublishFail, RamPeek, FlushEnd, RamPublish,
                 RamPublishFail, vars, ramVars, metrics
  <2>2. fpc' # "discardRam"
    BY <1>1, <1>11 DEF PutSpill, LateInit, FlushBegin, PersPeek, PersNothing,
                       PersPublish, PersPublishFail, RamPeek, FlushEnd,
                       RamPublish, RamPublishFail, vars, flushVars
  <2>3. QED BY <1>1, <2>1, <2>2 DEF Balanced
<1>12. QED
  BY <1>4, <1>5, <1>6, <1>7, <1>8, <1>9, <1>10, <1>11
     DEF Next, Writer, Flusher

LEMMA InitBalance == Init => Balance
<1> SUFFICES ASSUME Init PROVE Balance
  OBVIOUS
<1> DEFINE n == IF Persistent THEN Backlog ELSE 0
<1>1. n \in Nat /\ pers = [i \in 1 .. n |-> i] /\ fpc = "idle"
  BY BufferAssumption DEF Init
<1>2. count = 0 /\ enqueued = 0 /\ dequeued = 0 /\ dropped = 0
  BY DEF Init
<1> HIDE DEF n
<1>3. Len(pers) = n
  BY <1>1
<1>4. 0 + n = 0 + n + 0 + 0
  BY <1>1
<1>5. QED BY <1>1, <1>2, <1>3, <1>4 DEF Balance, MetricsBalance, Depth, n

\* With drop_oldest and encodable records, the metrics add up at every step.
THEOREM MetricsBalanceCorrect == Spec => []MetricsBalance
<1>1. Init => Balance
  BY InitBalance
<1>2. Basic /\ Balance /\ [Next]_vars => Balance'
  BY BalanceInductive
<1>3. Balance => MetricsBalance
  BY DEF Balance
<1>4. QED BY <1>1, <1>2, <1>3, BasicCorrect, PTL DEF Spec

-----------------------------------------------------------------------------
(***************************************************************************)
(* Publishing.  What has been published is older than what arrives; what   *)
(* waits in RAM, or is about to be published from there, and has not been  *)
(* published is older than nothing that has.                               *)
(***************************************************************************)
SentArrived == \A n \in Recs : sent[n] > 0 => n < Incoming

NothingNewerSent ==
  \A r, n \in Recs : r < n /\ sent[r] = 0 /\ sent[n] > 0 =>
    ~InRam(r) /\ ~(fpc = "publishRam" /\ rec = r)

Published == SentArrived /\ NothingNewerSent

\* All that a step adds to RAM is the record that arrives.
LEMMA NewInRam ==
  ASSUME Basic, Order, [Next]_vars
  PROVE  /\ Incoming \in Nat /\ Incoming' \in {Incoming, Incoming + 1}
         /\ \A r : InRam(r)' => InRam(r) \/ (r = Incoming /\ Incoming' = Incoming + 1)
<1>1. /\ RingOK /\ TasksOK /\ MigrationPinsOldest /\ SpillState
      /\ next \in Nat /\ Incoming \in Nat /\ count \in Nat
  BY BufferAssumption, RamTypes
     DEF Basic, TypeOK, TasksOK, Order, Incoming
<1>2. ASSUME NEW s \in {0, 1}, NEW q, RamStep(s, q),
             q = Incoming \/ count' = count - s
      PROVE  \A r : InRam(r)' => InRam(r) \/ r = Incoming
  <2> SUFFICES ASSUME NEW r, NEW k \in 0 .. count' - 1, RamAt(k)' = r
               PROVE  InRam(r) \/ r = Incoming
    BY DEF InRam
  <2>1. s <= count /\ (count' = count - s \/ count' = count - s + 1)
    BY <1>2 DEF RamStep
  <2>2. CASE k >= count - s
    <3>1. count' # count - s
      BY <1>1, <2>2
    <3>2. RamAt(k)' = q
      BY <1>2, <2>2 DEF RamStep
    <3>3. QED BY <1>2, <3>1, <3>2
  <2>3. CASE k < count - s
    <3>1. k \in 0 .. count - s - 1 /\ k + s \in 0 .. count - 1
      BY <1>1, <2>1, <2>3
    <3>2. RamAt(k + s) = r
      BY <1>2, <3>1 DEF RamStep
    <3>3. QED BY <3>1, <3>2 DEF InRam
  <2>4. QED BY <1>1, <2>1, <2>2, <2>3
<1>3. CASE PutDirect
  <2>1. Incoming = next /\ Incoming' = Incoming + 1 /\ next \in 0 .. MaxRec
    BY <1>1, <1>3 DEF PutDirect, Incoming, TasksOK
  <2>2. PICK s \in {0, 1} : RamStep(s, next)
    BY <1>1, <1>3, <2>1, InsertStep DEF PutDirect
  <2>3. QED BY <1>1, <1>2, <2>1, <2>2
<1>4. CASE PutFinish
  <2>1. /\ Incoming = next - 1 /\ Incoming' = Incoming + 1 /\ Incoming \in 0 .. MaxRec
        /\ count = RamCap
    BY <1>1, <1>4, BufferAssumption DEF PutFinish, Incoming, TasksOK, MigrationPinsOldest
  <2>2. PICK s \in {0, 1} : RamStep(s, Incoming)
    BY <1>1, <1>4, <2>1, InsertStep, MigrateStep DEF PutFinish
  <2>3. QED BY <1>1, <1>2, <2>1, <2>2
<1>5. CASE RamConsume \/ RamDiscard
  <2>1. ConsumeRam /\ ring' = ring /\ Incoming' = Incoming
    BY <1>5 DEF RamConsume, RamDiscard, writeVars, Incoming
  <2>2. PICK s \in {0, 1} : RamStep(s, 0) /\ count' = count - s
    BY <1>1, <2>1, ConsumeStep
  <2>3. \A k \in 0 .. count' - 1 : k + s \in 0 .. count - 1 /\ RamAt(k)' = RamAt(k + s)
    BY <1>1, <2>2 DEF RamStep
  <2>4. QED BY <1>1, <2>1, <2>3 DEF InRam
<1>6. CASE \/ PutSpill \/ SpillPersist \/ PersCorrupt \/ PersDiscard \/ PersConsume
           \/ LateInit \/ FlushBegin \/ PersPeek \/ PersNothing \/ PersPublish
           \/ PersPublishFail \/ RamPeek \/ FlushEnd \/ RamPublish
           \/ RamPublishFail \/ UNCHANGED vars
  <2>1. UNCHANGED <<ring, tail, count>> /\ Incoming' = Incoming
    <3>1. CASE PutSpill
      BY <1>1, <3>1 DEF PutSpill, ramVars, Incoming
    <3>2. CASE SpillPersist
      BY <3>2 DEF SpillPersist, ramVars, Incoming
    <3>3. CASE ~PutSpill /\ ~SpillPersist
      BY <1>6, <3>3
         DEF PersCorrupt, PersDiscard, PersConsume,
             LateInit, FlushBegin, PersPeek, PersNothing, PersPublish,
             PersPublishFail, RamPeek, FlushEnd, RamPublish, RamPublishFail,
             vars, ramVars, writeVars, Incoming
    <3>4. QED BY <3>1, <3>2, <3>3
  <2>2. count' = count /\ \A k : RamAt(k)' = RamAt(k)
    BY <2>1, RamFrame
  <2>3. QED BY <1>1, <2>1, <2>2 DEF InRam
<1>7. QED
  BY <1>3, <1>4, <1>5, <1>6 DEF Next, Writer, Flusher

\* Only the flusher publishes, one record at a time.
LEMMA OnlyPublishSends ==
  ASSUME [Next]_vars
  PROVE  sent' = sent \/ PersPublish \/ RamPublish
BY DEF Next, Writer, Flusher, vars, PutSpill, PutDirect, SpillPersist, PutFinish,
       LateInit, FlushBegin, PersPeek, PersNothing, PersCorrupt, PersDiscard,
       PersPublishFail, PersConsume, RamPeek, FlushEnd, RamPublishFail,
       RamConsume, RamDiscard

\* What it publishes: the oldest record of persistent storage in phase 1, and a
\* record that has arrived, and than which nothing in RAM is older, in both.
LEMMA PublishOldest ==
  ASSUME Basic, Order, Held, Flushed, PersPublish \/ RamPublish
  PROVE  /\ rec \in 0 .. MaxRec /\ rec < Incoming
         /\ \A r \in Recs : InRam(r) => rec <= r
<1>1. /\ RingOK /\ PersOK /\ TasksOK
      /\ \A k \in 0 .. count - 1 : RamAt(k) \in 0 .. MaxRec
      /\ \A i \in 1 .. Len(pers) : pers[i] \in 0 .. MaxRec
  BY RamTypes, PersTypes DEF Basic, TypeOK
<1>2. CASE PersPublish
  <2>1. pers # <<>> /\ Head(pers) = rec
    BY <1>2 DEF PersPublish, Held, PersConsumeMatchesPublish
  <2>2. 1 \in 1 .. Len(pers) /\ pers[1] = rec
    BY <1>1, <2>1, PersTail
  <2>3. \A k \in 0 .. count - 1 : rec <= RamAt(k)
    BY <1>1, <2>2, BufferAssumption DEF Order, TierOrder, PersBeforeRam
  <2>4. QED BY <1>1, <2>2, <2>3 DEF Order, PersArrived, InRam
<1>3. CASE RamPublish
  <2>1. RamFlushing
    BY <1>3 DEF RamPublish, RamFlushing
  <2>2. rec \in 0 .. MaxRec /\ rec < Incoming
    BY <2>1 DEF Flushed, FlushedRecord
  <2>3. \A k \in 0 .. count - 1 : RamAt(k) >= rec
    BY <2>1 DEF Flushed, RamRecordAccounted, RamFlushing
  <2>4. QED BY <1>1, <2>2, <2>3, BufferAssumption DEF InRam
<1>4. QED BY <1>2, <1>3

\* A record that is published is older than what waits behind it, so that
\* nothing newer than a waiting record is ever published.
LEMMA PublishedInductive ==
  ASSUME Basic, Order, Held, Flushed, Published, [Next]_vars
  PROVE  Published'
<1>1. /\ sent \in [Recs -> Nat] /\ Recs \subseteq Nat
      /\ Incoming \in Nat /\ Incoming' \in {Incoming, Incoming + 1}
      /\ \A r : InRam(r)' => InRam(r) \/ (r = Incoming /\ Incoming' = Incoming + 1)
  BY NewInRam, BufferAssumption DEF Basic, TypeOK, CountersOK, Recs
<1>2. CASE sent' = sent
  <2>1. SentArrived'
    BY <1>1, <1>2 DEF Published, SentArrived
  <2>2. fpc' = "publishRam" =>
          (fpc = "publishRam" /\ rec' = rec) \/ (\E k \in 0 .. count - 1 : rec' = RamAt(k))
    <3>1. CASE RamPeek
      <4>1. count \in Nat \ {0} /\ ring[tail] = RamAt(0)
        BY <3>1, RamTypes, SlotOfLap
           DEF RamPeek, RamReadable, Basic, TypeOK, RingOK, RamAt
      <4>2. QED BY <3>1, <4>1 DEF RamPeek
    <3>2. CASE ~RamPeek
      BY <3>2 DEF Next, Writer, Flusher, vars, flushVars, PutSpill, PutDirect,
           SpillPersist, PutFinish, LateInit, FlushBegin, PersPeek, PersNothing,
           PersCorrupt, PersDiscard, PersPublish, PersPublishFail, PersConsume,
           FlushEnd, RamPublish, RamPublishFail, RamConsume, RamDiscard
    <3>3. QED BY <3>1, <3>2
  <2>3. ASSUME NEW r \in Recs, NEW n \in Recs, r < n, sent[r] = 0, sent[n] > 0
        PROVE  ~InRam(r)' /\ ~(fpc' = "publishRam" /\ rec' = r)
    <3>1. ~InRam(r) /\ ~(fpc = "publishRam" /\ rec = r) /\ n < Incoming
      BY <2>3 DEF Published, NothingNewerSent, SentArrived
    <3>2. ~InRam(r)'
      BY <1>1, <2>3, <3>1
    <3>3. ~(fpc' = "publishRam" /\ rec' = r)
      BY <2>2, <3>1 DEF InRam
    <3>4. QED BY <3>2, <3>3
  <2>4. NothingNewerSent'
    BY <1>2, <2>3 DEF NothingNewerSent
  <2>5. QED BY <2>1, <2>4 DEF Published
<1>3. CASE PersPublish \/ RamPublish
  <2>1. /\ rec \in 0 .. MaxRec /\ rec < Incoming
        /\ \A r \in Recs : InRam(r) => rec <= r
    BY <1>3, PublishOldest
  <2>2. sent' = [sent EXCEPT ![rec] = @ + 1] /\ fpc' # "publishRam"
    BY <1>3 DEF PersPublish, RamPublish
  <2>3. \A r \in Recs : sent'[r] = IF r = rec THEN sent[r] + 1 ELSE sent[r]
    BY <1>1, <2>2
  <2>4. \A r \in Recs : sent[r] \in Nat
    BY <1>1
  <2>5. Incoming' = Incoming /\ \A r : InRam(r)' => InRam(r)
    <3>1. UNCHANGED <<ring, tail, count, wpc, next>>
      BY <1>3 DEF PersPublish, RamPublish, ramVars, writeVars
    <3>2. count' = count /\ \A k : RamAt(k)' = RamAt(k)
      BY <3>1, RamFrame
    <3>3. QED BY <3>1, <3>2 DEF InRam, Incoming
  <2>6. SentArrived'
    BY <2>1, <2>3, <2>4, <2>5 DEF Published, SentArrived
  <2>7. ASSUME NEW r \in Recs, NEW n \in Recs, r < n, sent'[r] = 0, sent'[n] > 0
        PROVE  ~InRam(r)
    <3>1. sent[r] = 0
      BY <2>3, <2>4, <2>7
    <3>2. CASE n = rec
      BY <1>1, <2>1, <2>7, <3>2
    <3>3. CASE n # rec
      BY <2>3, <2>7, <3>1, <3>3 DEF Published, NothingNewerSent
    <3>4. QED BY <3>2, <3>3
  <2>8. NothingNewerSent'
    BY <2>2, <2>5, <2>7 DEF NothingNewerSent
  <2>9. QED BY <2>6, <2>8 DEF Published
<1>4. QED BY <1>2, <1>3, OnlyPublishSends

\* Nothing newer than a record that waits in RAM has been published.
THEOREM PublishedInvariant == Spec => []Published
<1>1. Init => Published
  <2>1. ASSUME Init PROVE \A n \in Recs : ~(sent[n] > 0)
    BY <2>1 DEF Init
  <2>2. QED BY <2>1 DEF Published, SentArrived, NothingNewerSent
<1>2. Basic /\ Order /\ Held /\ Flushed /\ Published /\ [Next]_vars => Published'
  BY PublishedInductive
<1>3. QED
  BY <1>1, <1>2, BasicCorrect, OrderInvariant, HeldInvariant, FlushedInvariant, PTL
     DEF Spec

\* The step formula of OvertakesOnlyPersistent.
OvertakeStep ==
  \A r \in Recs :
    sent[r] = 0 /\ sent'[r] > 0 /\ fpc = "publishRam" =>
      \A n \in Recs : n > r => sent[n] = 0

\* A record that a newer one overtakes was left in persistent storage by phase
\* 1: phase 2 publishes nothing behind a newer record.
THEOREM OvertakesOnlyPersistentCorrect == Spec => OvertakesOnlyPersistent
<1>1. Basic /\ Published /\ [Next]_vars => [OvertakeStep]_vars
  <2> SUFFICES ASSUME Basic, Published, [Next]_vars, NEW r \in Recs,
                      sent[r] = 0, sent'[r] > 0, fpc = "publishRam",
                      NEW n \in Recs, n > r
               PROVE  sent[n] = 0
    BY DEF OvertakeStep
  <2>1. sent \in [Recs -> Nat] /\ RamPublish
    BY OnlyPublishSends DEF Basic, TypeOK, CountersOK, PersPublish
  <2>2. rec = r
    BY <2>1 DEF RamPublish
  <2>3. ~(sent[n] > 0) /\ sent[n] \in Nat
    BY <2>1, <2>2 DEF Published, NothingNewerSent, Recs
  <2>4. QED BY <2>3
<1>2. QED
  BY <1>1, BasicCorrect, PublishedInvariant, PTL
     DEF Spec, OvertakesOnlyPersistent, OvertakeStep

-----------------------------------------------------------------------------
(***************************************************************************)
(* How often a record is published, with drop_oldest.  A record published  *)
(* from RAM is at most the oldest one there, on its way out: the flush is  *)
(* about to consume it, or its migration has begun.  What persistent       *)
(* storage holds has been published once at most, but for the record that  *)
(* phase 1 is about to consume.                                            *)
(***************************************************************************)
SentInRam ==
  \A r \in Recs, k \in 0 .. count - 1 :
    RamAt(k) = r /\ sent[r] > 0 =>
      /\ k = 0 /\ (pending \/ (fpc = "consumeRam" /\ rec = r))
      /\ spilled \/ sent[r] = 1

SentInPers ==
  \A r \in Recs : InPers(r) => sent[r] <= 1 \/ (fpc = "consumePers" /\ rec = r)

SentHeld == \A r \in Recs : fpc = "publishRam" /\ rec = r => sent[r] = 0

SentTwice == \A r \in Recs : sent[r] <= 2

Duplicates == SentInRam /\ SentInPers /\ SentHeld /\ SentTwice

Delivery == DropOldest => Duplicates

\* The flusher moves on without publishing, or does not move.
LEMMA DuplicatesFrame ==
  ASSUME Duplicates, UNCHANGED <<ring, tail, count, pers, sent, spilled>>,
         pending => pending',
         fpc \in {"consumePers", "consumeRam"} => fpc' = fpc /\ rec' = rec,
         fpc' = "publishRam" => fpc = "publishRam" /\ rec' = rec
  PROVE  Duplicates'
<1>1. count' = count /\ \A k : RamAt(k)' = RamAt(k)
  BY RamFrame
<1>2. SentInRam'
  BY <1>1 DEF Duplicates, SentInRam
<1>3. SentInPers'
  BY DEF Duplicates, SentInPers, InPers
<1>4. SentHeld' /\ SentTwice'
  BY DEF Duplicates, SentHeld, SentTwice
<1>5. QED BY <1>2, <1>3, <1>4 DEF Duplicates

\* The ring moves on, and what enters it has never been published.
LEMMA DuplicatesMove ==
  ASSUME RingOK, Duplicates, NEW s \in {0, 1}, NEW q, RamStep(s, q),
         q \in Recs => sent[q] = 0,
         UNCHANGED <<pers, sent, fpc, rec>>,
         s = 0 => UNCHANGED <<pending, spilled>>
  PROVE  Duplicates'
<1>1. ASSUME NEW r \in Recs, NEW k \in 0 .. count' - 1, RamAt(k)' = r, sent[r] > 0
      PROVE  /\ s = 0 /\ k = 0 /\ (pending \/ (fpc = "consumeRam" /\ rec = r))
             /\ spilled \/ sent[r] = 1
  <2>1. count \in Nat /\ s <= count /\ (count' = count - s \/ count' = count - s + 1)
    BY RamTypes DEF RamStep
  <2>2. k < count - s
    <3>1. k >= count - s => RamAt(k)' = q
      BY DEF RamStep
    <3>2. CASE k >= count - s
      BY <1>1, <3>1, <3>2
    <3>3. QED BY <2>1, <3>2
  <2>3. k \in 0 .. count - s - 1 /\ k + s \in 0 .. count - 1
    BY <2>1, <2>2
  <2>4. RamAt(k + s) = r
    BY <1>1, <2>3 DEF RamStep
  <2>5. /\ k + s = 0 /\ (pending \/ (fpc = "consumeRam" /\ rec = r))
        /\ spilled \/ sent[r] = 1
    BY <1>1, <2>3, <2>4 DEF Duplicates, SentInRam
  <2>6. QED BY <2>3, <2>5
<1>2. SentInRam'
  BY <1>1 DEF SentInRam
<1>3. SentInPers' /\ SentHeld' /\ SentTwice'
  BY DEF Duplicates, SentInPers, SentHeld, SentTwice, InPers
<1>4. QED BY <1>2, <1>3 DEF Duplicates

\* The spill copies the oldest record of RAM, published once at most.
LEMMA DuplicatesSpill ==
  ASSUME RingOK, PersOK, TasksOK, CountersOK, MigrationPinsOldest, SpillState,
         Duplicates, SpillPersist
  PROVE  Duplicates'
<1>1. /\ UNCHANGED <<ring, tail, count, sent, pending, fpc, rec>> /\ ~spilled
      /\ count = RamCap /\ ring[tail] = cand /\ cand \in 0 .. MaxRec
  BY DEF SpillPersist, ramVars, flushVars, SpillState, MigrationPinsOldest, TasksOK
<1>2. count' = count /\ \A k : RamAt(k)' = RamAt(k)
  BY <1>1, RamFrame
<1>3. SentInRam' /\ SentHeld' /\ SentTwice'
  BY <1>1, <1>2 DEF Duplicates, SentInRam, SentHeld, SentTwice
<1>4. ASSUME cand \in Recs
      PROVE  sent[cand] <= 1
  <2>1. RamAt(0) = cand /\ 0 \in 0 .. count - 1
    BY <1>1, SlotOfLap, BufferAssumption DEF RamAt, RingOK
  <2>2. sent[cand] \in Nat
    BY <1>4 DEF CountersOK
  <2>3. QED BY <1>1, <1>4, <2>1, <2>2 DEF Duplicates, SentInRam
<1>5. Kept \in Seq(0 .. MaxRec) /\ \A i \in 1 .. Len(Kept) : InPers(Kept[i])
  <2>1. CASE PersistentFull /\ DropOldest
    <3>1. pers # <<>>
      BY <2>1, BufferAssumption DEF PersistentFull
    <3>2. /\ Tail(pers) \in Seq(0 .. MaxRec) /\ Len(Tail(pers)) = Len(pers) - 1
          /\ Len(pers) \in Nat \ {0}
          /\ \A i \in 1 .. Len(pers) - 1 : Tail(pers)[i] = pers[i + 1]
      BY <3>1, PersTail
    <3>3. \A i \in 1 .. Len(pers) - 1 : i + 1 \in 1 .. Len(pers)
      BY <3>2
    <3>4. QED BY <2>1, <3>2, <3>3 DEF Kept, InPers
  <2>2. CASE ~(PersistentFull /\ DropOldest)
    BY <2>2 DEF Kept, PersOK, InPers
  <2>3. QED BY <2>1, <2>2
<1>6. PICK ok \in BOOLEAN : pers' = IF ok THEN Append(Kept, cand) ELSE Kept
  BY DEF SpillPersist
<1>7. \A r : InPers(r)' => InPers(r) \/ r = cand
  <2>1. CASE ok
    <3>1. /\ Len(pers') = Len(Kept) + 1 /\ Len(Kept) \in Nat
          /\ \A i \in 1 .. Len(Kept) : pers'[i] = Kept[i]
          /\ pers'[Len(Kept) + 1] = cand
      BY <1>1, <1>5, <1>6, <2>1, AppendProperties, LenProperties
    <3>2. QED BY <1>5, <3>1 DEF InPers
  <2>2. CASE ~ok
    BY <1>5, <1>6, <2>2 DEF InPers
  <2>3. QED BY <2>1, <2>2
<1>8. SentInPers'
  BY <1>1, <1>4, <1>7 DEF Duplicates, SentInPers
<1>9. QED BY <1>3, <1>8 DEF Duplicates

\* The oldest record of persistent storage leaves: consumed, it is the one that
\* was published; and it is there only once.
LEMMA DuplicatesTail ==
  ASSUME PersOK, TierOrder, Held, Duplicates, pers # <<>>, pers' = Tail(pers),
         UNCHANGED <<ring, tail, count, sent, pending, spilled, rec>>,
         fpc # "consumeRam", fpc' # "publishRam"
  PROVE  Duplicates'
<1>1. count' = count /\ \A k : RamAt(k)' = RamAt(k)
  BY RamFrame
<1>2. SentInRam' /\ SentHeld' /\ SentTwice'
  BY <1>1 DEF Duplicates, SentInRam, SentHeld, SentTwice
<1>3. /\ Len(pers) \in Nat \ {0} /\ Len(pers') = Len(pers) - 1 /\ Head(pers) = pers[1]
      /\ \A i \in 1 .. Len(pers) - 1 : pers'[i] = pers[i + 1]
      /\ \A i \in 1 .. Len(pers) : pers[i] \in 0 .. MaxRec
  BY PersTail, PersTypes
<1>4. ASSUME NEW r \in Recs, NEW i \in 1 .. Len(pers'), pers'[i] = r
      PROVE  sent[r] <= 1
  <2>1. i + 1 \in 1 .. Len(pers) /\ 1 \in 1 .. Len(pers) /\ 1 < i + 1 /\ pers[i + 1] = r
    BY <1>3, <1>4
  <2>2. pers[1] < r
    BY <2>1 DEF TierOrder, PersOrdered
  <2>3. ~(fpc = "consumePers" /\ rec = r)
    BY <1>3, <2>1, <2>2 DEF Held, PersConsumeMatchesPublish
  <2>4. QED BY <2>1, <2>3 DEF Duplicates, SentInPers, InPers
<1>5. SentInPers'
  BY <1>4 DEF SentInPers, InPers
<1>6. QED BY <1>2, <1>5 DEF Duplicates

\* Publishing makes the second time possible, and no third.
LEMMA DuplicatesPublish ==
  ASSUME Basic, Order, Held, Flushed, Duplicates, PersPublish \/ RamPublish
  PROVE  Duplicates'
<1>1. /\ RingOK /\ PersOK /\ CountersOK /\ MigrationPinsOldest /\ SpillState
      /\ UNCHANGED <<ring, tail, count, pers, pending, spilled, rec>>
      /\ sent' = [sent EXCEPT ![rec] = @ + 1]
  BY DEF Basic, TypeOK, Order, PersPublish, RamPublish, ramVars, writeVars
<1>2. count' = count /\ \A k : RamAt(k)' = RamAt(k)
  BY <1>1, RamFrame
<1>3. /\ \A r \in Recs : sent[r] \in Nat
      /\ \A r \in Recs : sent'[r] = IF r = rec THEN sent[r] + 1 ELSE sent[r]
  BY <1>1 DEF CountersOK
<1>4. /\ count \in Nat /\ \A k \in 0 .. count - 1 : RamAt(k) \in 0 .. MaxRec
      /\ \A i \in 1 .. Len(pers) : pers[i] \in 0 .. MaxRec
  BY <1>1, RamTypes, PersTypes
<1>5. CASE PersPublish
  <2>1. fpc = "publishPers" /\ fpc' = "consumePers" /\ pers # <<>> /\ Head(pers) = rec
    BY <1>5 DEF PersPublish, Held, PersConsumeMatchesPublish
  <2>2. 1 \in 1 .. Len(pers) /\ pers[1] = rec
    BY <1>1, <2>1, PersTail
  <2>3. rec \in Recs => sent[rec] <= 1
    BY <2>1, <2>2 DEF Duplicates, SentInPers, InPers
  <2>4. SentTwice' /\ SentInPers' /\ SentHeld'
    <3>1. \A r \in Recs : InPers(r) => sent[r] <= 1
      BY <2>1 DEF Duplicates, SentInPers
    <3>2. SentTwice'
      BY <1>3, <2>3 DEF Duplicates, SentTwice
    <3>3. SentInPers'
      BY <1>1, <1>3, <2>1, <3>1 DEF SentInPers, InPers
    <3>4. QED BY <2>1, <3>2, <3>3 DEF SentHeld
  <2>5. ASSUME NEW k \in 0 .. count - 1, RamAt(k) = rec
        PROVE  k = 0 /\ spilled /\ pending
    <3>1. k = 0 /\ spilled
      BY <1>4, <2>2, <2>5 DEF Order, TierOrder, PersBeforeRam
    <3>2. QED BY <1>1, <3>1 DEF SpillState, MigrationPinsOldest
  <2>6. SentInRam'
    <3> SUFFICES ASSUME NEW r \in Recs, NEW k \in 0 .. count - 1,
                        RamAt(k) = r, sent'[r] > 0
                 PROVE  k = 0 /\ pending /\ (spilled \/ sent'[r] = 1)
      BY <1>1, <1>2 DEF SentInRam
    <3>1. CASE r = rec
      BY <2>5, <3>1
    <3>2. CASE r # rec
      BY <1>3, <2>1, <3>2 DEF Duplicates, SentInRam
    <3>3. QED BY <3>1, <3>2
  <2>7. QED BY <2>4, <2>6 DEF Duplicates
<1>6. CASE RamPublish
  <2>1. fpc = "publishRam" /\ fpc' = "consumeRam" /\ RamFlushing
    BY <1>6 DEF RamPublish, RamFlushing
  <2>2. rec \in Recs => sent[rec] = 0
    BY <2>1 DEF Duplicates, SentHeld
  <2>3. SentTwice' /\ SentInPers' /\ SentHeld'
    <3>1. SentTwice'
      BY <1>3, <2>2 DEF Duplicates, SentTwice
    <3>2. SentInPers'
      <4>1. \A r \in Recs : InPers(r) => sent[r] <= 1
        BY <2>1 DEF Duplicates, SentInPers
      <4>2. \A r \in Recs : InPers(r)' => sent'[r] <= 1
        BY <1>1, <1>3, <2>2, <4>1 DEF InPers
      <4>3. QED BY <4>2 DEF SentInPers
    <3>3. QED BY <2>1, <3>1, <3>2 DEF SentHeld
  <2>4. ASSUME NEW k \in 0 .. count - 1, RamAt(k) = rec
        PROVE  k = 0
    <3>1. 0 \in 0 .. count - 1 /\ RamAt(0) >= rec
      BY <1>4, <2>1 DEF Flushed, RamRecordAccounted, RamFlushing
    <3>2. k # 0 => RamAt(0) < RamAt(k)
      BY <3>1 DEF Order, TierOrder, RamOrdered
    <3>3. QED BY <1>4, <2>4, <3>1, <3>2, BufferAssumption
  <2>5. SentInRam'
    <3> SUFFICES ASSUME NEW r \in Recs, NEW k \in 0 .. count - 1,
                        RamAt(k) = r, sent'[r] > 0
                 PROVE  /\ k = 0 /\ (pending \/ rec = r)
                        /\ spilled \/ sent'[r] = 1
      BY <1>1, <1>2, <2>1 DEF SentInRam
    <3>1. CASE r = rec
      BY <1>3, <2>2, <2>4, <3>1
    <3>2. CASE r # rec
      BY <1>3, <2>1, <3>2 DEF Duplicates, SentInRam
    <3>3. QED BY <3>1, <3>2
  <2>6. QED BY <2>3, <2>5 DEF Duplicates
<1>7. QED BY <1>5, <1>6

\* Every step with drop_oldest keeps the count.
LEMMA DuplicatesInductive ==
  ASSUME DropOldest, Basic, Order, Held, Flushed, Published, Duplicates, [Next]_vars
  PROVE  Duplicates'
<1>1. /\ RingOK /\ PersOK /\ TasksOK /\ CountersOK /\ MigrationPinsOldest
      /\ SpillState /\ TierOrder /\ next \in Nat /\ count \in Nat
  BY BufferAssumption, RamTypes DEF Basic, TypeOK, TasksOK, Order
<1>2. CASE PutDirect
  <2>1. next \in 0 .. MaxRec /\ (next \in Recs => sent[next] = 0)
    <3>1. Incoming = next
      BY <1>2 DEF PutDirect, Incoming
    <3>2. next \in Recs => sent[next] \in Nat /\ ~(sent[next] > 0)
      BY <1>1, <3>1 DEF Published, SentArrived, CountersOK
    <3>3. QED BY <1>1, <1>2, <3>2 DEF PutDirect, TasksOK
  <2>2. PICK s \in {0, 1} : RamStep(s, next)
    BY <1>1, <1>2, <2>1, InsertStep DEF PutDirect
  <2>3. QED BY <1>1, <1>2, <2>1, <2>2, DuplicatesMove DEF PutDirect, flushVars
<1>3. CASE PutFinish
  <2>1. /\ next - 1 \in 0 .. MaxRec /\ count = RamCap
        /\ next - 1 \in Recs => sent[next - 1] = 0
    <3>1. Incoming = next - 1
      BY <1>3 DEF PutFinish, Incoming
    <3>2. next - 1 \in Recs => sent[next - 1] \in Nat /\ ~(sent[next - 1] > 0)
      BY <1>1, <3>1 DEF Published, SentArrived, CountersOK, Recs
    <3>3. QED
      BY <1>1, <1>3, <3>2, BufferAssumption DEF PutFinish, TasksOK, MigrationPinsOldest
  <2>2. RamStep(1, next - 1)
    <3>1. CASE spilled
      BY <1>1, <1>3, <2>1, <3>1, MigrateStep DEF PutFinish
    <3>2. CASE ~spilled
      <4>1. InsertRam(next - 1, tail, count, FALSE)
        BY <1>3, <3>2 DEF PutFinish
      <4>2. /\ ring' = [ring EXCEPT ![head] = next - 1] /\ tail' = Inc(tail)
            /\ count' = count
        BY <2>1, <4>1, BufferAssumption DEF InsertRam
      <4>3. /\ \A k \in 0 .. count - 2 : RamAt(k)' = RamAt(k + 1)
            /\ \A k : k = count - 1 => RamAt(k)' = next - 1
        BY <1>1, <2>1, <4>2, InsertOverOldest
      <4>4. count - 1 - 1 = count - 2 /\ 1 <= count /\ count = count - 1 + 1
        BY <2>1, BufferAssumption
      <4>5. QED BY <1>1, <4>2, <4>3, <4>4 DEF RamStep
    <3>3. QED BY <3>1, <3>2
  <2>3. QED BY <1>1, <1>3, <2>1, <2>2, DuplicatesMove DEF PutFinish, flushVars
<1>4. CASE SpillPersist
  BY <1>1, <1>4, DuplicatesSpill
<1>5. CASE RamConsume \/ RamDiscard
  <2>1. /\ ConsumeRam /\ fpc' = "ram"
        /\ UNCHANGED <<ring, pers, sent, pending, spilled, rec>>
    BY <1>5 DEF RamConsume, RamDiscard, writeVars
  <2>2. \A r \in Recs, k \in 0 .. count' - 1 :
          RamAt(k)' = r /\ sent[r] > 0 =>
            k = 0 /\ pending /\ (spilled \/ sent[r] = 1)
    <3>1. CASE RamReadable
      <4>1. PICK s \in {0, 1} : RamStep(s, 0) /\ count' = count - s
        BY <1>1, <2>1, ConsumeStep
      <4>2. s = 1
        BY <1>1, <2>1, <3>1, <4>1 DEF ConsumeRam
      <4>3. \A k \in 0 .. count' - 1 :
              /\ k + 1 \in 0 .. count - 1 /\ k + 1 # 0
              /\ RamAt(k)' = RamAt(k + 1)
        BY <1>1, <4>1, <4>2 DEF RamStep
      <4>4. QED BY <4>3 DEF Duplicates, SentInRam
    <3>2. CASE ~RamReadable
      <4>1. UNCHANGED <<ring, tail, count>>
        BY <2>1, <3>2 DEF ConsumeRam
      <4>2. count' = count /\ \A k : RamAt(k)' = RamAt(k)
        BY <4>1, RamFrame
      <4>3. \A k \in 0 .. count - 1 : pending
        BY <1>1, <3>2 DEF RamReadable
      <4>4. QED BY <4>2, <4>3 DEF Duplicates, SentInRam
    <3>3. QED BY <3>1, <3>2
  <2>3. SentInRam'
    BY <2>1, <2>2 DEF SentInRam
  <2>4. fpc # "consumePers"
    BY <1>5 DEF RamConsume, RamDiscard
  <2>5. SentInPers' /\ SentHeld' /\ SentTwice'
    BY <2>1, <2>4 DEF Duplicates, SentInPers, SentHeld, SentTwice, InPers
  <2>6. QED BY <2>3, <2>5 DEF Duplicates
<1>6. CASE PersCorrupt \/ PersDiscard \/ PersConsume
  <2>1. /\ UNCHANGED <<ring, tail, count, sent, pending, spilled, rec>>
        /\ fpc # "consumeRam" /\ fpc' # "publishRam"
        /\ pers # <<>> /\ pers' = Tail(pers)
    BY <1>6 DEF PersCorrupt, PersDiscard, PersConsume, ramVars, writeVars,
                flushVars, Held, PersConsumeMatchesPublish
  <2>2. QED BY <1>1, <2>1, DuplicatesTail
<1>7. CASE PersPublish \/ RamPublish
  BY <1>7, DuplicatesPublish
<1>8. CASE RamPeek
  <2>1. /\ UNCHANGED <<ring, tail, count, pers, sent, pending, spilled>>
        /\ fpc = "ram" /\ fpc' # "consumeRam" /\ ~pending
        /\ 0 \in 0 .. count - 1 /\ rec' = RamAt(0)
    <3>1. ring[tail] = RamAt(0)
      BY <1>1, SlotOfLap DEF RamAt, RingOK
    <3>2. QED BY <1>1, <1>8, <3>1 DEF RamPeek, RamReadable, ramVars, writeVars
  <2>2. count' = count /\ \A k : RamAt(k)' = RamAt(k)
    BY <2>1, RamFrame
  <2>3. SentInRam'
    BY <2>1, <2>2 DEF Duplicates, SentInRam
  <2>4. SentHeld'
    <3>1. \A r \in Recs : RamAt(0) = r => ~(sent[r] > 0) /\ sent[r] \in Nat
      BY <1>1, <2>1 DEF Duplicates, SentInRam, CountersOK
    <3>2. QED BY <2>1, <3>1 DEF SentHeld
  <2>5. SentInPers' /\ SentTwice'
    BY <2>1 DEF Duplicates, SentInPers, SentTwice, InPers
  <2>6. QED BY <2>3, <2>4, <2>5 DEF Duplicates
<1>9. CASE PutSpill \/ LateInit \/ UNCHANGED vars
  <2>1. UNCHANGED <<ring, tail, count, pers, sent, spilled, fpc, rec>>
    BY <1>9 DEF PutSpill, LateInit, vars, ramVars, writeVars, flushVars
  <2>2. pending' = TRUE \/ pending' = pending
    BY <1>9 DEF PutSpill, LateInit, vars
  <2>3. pending => pending'
    BY <2>2, Zenon
  <2>4. QED BY <2>1, <2>3, DuplicatesFrame
<1>10. CASE \/ FlushBegin \/ PersPeek \/ PersNothing \/ PersPublishFail
            \/ FlushEnd \/ RamPublishFail
  <2>1. /\ UNCHANGED <<ring, tail, count, pers, sent, spilled, pending>>
        /\ fpc \notin {"consumePers", "consumeRam"} /\ fpc' # "publishRam"
    BY <1>10 DEF FlushBegin, PersPeek, PersNothing, PersPublishFail, FlushEnd,
                 RamPublishFail, ramVars, writeVars
  <2>2. QED BY <2>1, DuplicatesFrame
<1>11. QED
  BY <1>2, <1>3, <1>4, <1>5, <1>6, <1>7, <1>8, <1>9, <1>10
     DEF Next, Writer, Flusher

\* With drop_oldest, no record is published three times.
THEOREM DuplicatedAtMostOnceCorrect == Spec => []DuplicatedAtMostOnce
<1>1. Init => Delivery
  <2>1. ASSUME Init PROVE \A r \in Recs : sent[r] = 0
    BY <2>1 DEF Init
  <2>2. QED
    BY <2>1 DEF Delivery, Duplicates, SentInRam, SentInPers, SentHeld, SentTwice
<1>2. Basic /\ Order /\ Held /\ Flushed /\ Published /\ Delivery /\ [Next]_vars
        => Delivery'
  BY DuplicatesInductive DEF Delivery
<1>3. Delivery => DuplicatedAtMostOnce
  BY DEF Delivery, Duplicates, SentTwice, DuplicatedAtMostOnce
<1>4. QED
  BY <1>1, <1>2, <1>3, BasicCorrect, OrderInvariant, HeldInvariant,
     FlushedInvariant, PublishedInvariant, PTL DEF Spec

=============================================================================
