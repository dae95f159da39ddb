----------------------------- MODULE BufferMgr -----------------------------
(***************************************************************************)
(* The two-tier store-and-forward buffer: the RAM ring of buffer_mgr.c,    *)
(* the persistent tier behind persistent_buffer.h, the writer that puts    *)
(* records into them (buffer_task) and the flusher that publishes and      *)
(* consumes them (buffer_flush_records, called by mqtt_gw_task).           *)
(*                                                                         *)
(* A record is the number of its arrival: 1 .. Backlog were in persistent  *)
(* storage before this boot, Backlog+1 .. MaxRec arrive during it.  One    *)
(* step is one critical section (taskENTER_CRITICAL .. taskEXIT_CRITICAL), *)
(* one stretch under the persistent lock in which the task does not block, *)
(* or one call of the publish function, during which any other task runs.  *)
(* A metrics counter moves in the step of the change it counts.            *)
(***************************************************************************)
EXTENDS Naturals, Sequences, FiniteSets

CONSTANTS
  RamCap,      \* g_config.buffer.ram_max_records
  PersCap,     \* slots of the persistent tier
  Persistent,  \* flash_max_records > 0
  DropOldest,  \* g_config.buffer.drop_oldest
  Batch,       \* g_config.buffer.flush_batch_size
  Backlog,     \* records an earlier boot left in persistent storage
  MaxRec,      \* bound of the model: the last record that arrives
  BadRecs,     \* records prepare_publish_record cannot encode
  Faults       \* storage may fail a write and may corrupt a row

ASSUME BufferAssumption ==
  /\ RamCap \in Nat \ {0} /\ PersCap \in Nat \ {0}
  /\ Persistent \in BOOLEAN /\ DropOldest \in BOOLEAN /\ Faults \in BOOLEAN
  /\ Batch \in Nat /\ Backlog \in 0 .. PersCap
  /\ MaxRec \in Nat /\ MaxRec >= Backlog
  /\ BadRecs \subseteq Nat

VARIABLES
  ring,      \* s_ring: slot -> record (0: never written)
  head,      \* s_head
  tail,      \* s_tail
  count,     \* s_count
  pending,   \* s_ram_migration_pending
  ready,     \* s_persistent_ready
  tried,     \* s_persistent_init_attempted
  pers,      \* what the persistent tier holds, oldest first
  lock,      \* holder of the persistent lock across steps
  wpc,       \* where buffer_task is in buffer_mgr_put_record_internal
  cand,      \* spill_candidate
  spilled,   \* spill_ok, later counted_by_persistent
  next,      \* number of the next record to arrive
  fpc,       \* where mqtt_gw_task is in buffer_flush_records
  rec,       \* its local copy of the record being flushed
  flushed,   \* its local count
  enqueued, dequeued, dropped,  \* metrics counters
  sent,      \* history: how often each record was published
  lost       \* history: records discarded with buffer_dropped counted

ramVars   == <<ring, head, tail, count>>
initVars  == <<ready, tried>>
writeVars == <<wpc, cand, spilled, next>>
flushVars == <<fpc, rec, flushed>>
metrics   == <<enqueued, dequeued, dropped>>
vars == <<ramVars, initVars, writeVars, flushVars, metrics,
          pending, pers, lock, sent, lost>>

Recs == 1 .. MaxRec

(***************************************************************************)
(* The RAM ring.                                                           *)
(***************************************************************************)
\* The slot k places after slot i, and the next one.
Slot(i, k) == (i + k) % RamCap
IncNoWrap(i) == i + 1
Inc(i) == Slot(i, 1)

\* The k-th record of the ring counted from the oldest one, k \in 0..count-1.
RamAt(k) == ring[Slot(tail, k)]
InRam(r) == \E k \in 0 .. count - 1 : RamAt(k) = r

RamReadableIgnoringMigration == count > 0
RamReadable == count > 0 /\ ~pending

InPers(r) == \E i \in 1 .. Len(pers) : pers[i] = r

(***************************************************************************)
(* buffer_mgr_put_record_internal: the second half, with the tail and the  *)
(* count the spill left behind.  The ring is full only when there was no   *)
(* spill, so the record dropped here is the oldest one in RAM.             *)
(***************************************************************************)
InsertRam(r, t, c, counted) ==
  \/ /\ c < RamCap
     /\ ring' = [ring EXCEPT ![head] = r]
     /\ head' = Inc(head) /\ tail' = t /\ count' = c + 1
     /\ enqueued' = IF counted THEN enqueued ELSE enqueued + 1
     /\ UNCHANGED <<dropped, lost>>
  \/ /\ c >= RamCap /\ DropOldest
     /\ lost' = lost \union {ring[t]}
     /\ ring' = [ring EXCEPT ![head] = r]
     /\ head' = Inc(head) /\ tail' = Inc(t) /\ count' = c
     /\ dropped' = dropped + 1
     /\ enqueued' = IF counted THEN enqueued ELSE enqueued + 1
  \/ /\ c >= RamCap /\ ~DropOldest
     /\ lost' = lost \union {r}
     /\ tail' = t /\ count' = c
     /\ dropped' = dropped + 1
     /\ UNCHANGED <<ring, head, enqueued>>

SpillNewest == next
SpillCandidate == ring[tail]

\* The ring is full and the persistent tier is there: the oldest record is
\* copied out, and peek and consume are refused until it has been migrated.
PutSpill ==
  /\ wpc = "idle" /\ next <= MaxRec
  /\ count >= RamCap /\ ready
  /\ cand' = SpillCandidate
  /\ pending' = TRUE
  /\ wpc' = "spill"
  /\ next' = next + 1
  /\ UNCHANGED <<ramVars, initVars, flushVars, metrics,
                 spilled, pers, lock, sent, lost>>

\* One critical section: there is room, or nowhere to spill to.
PutDirect ==
  /\ wpc = "idle" /\ next <= MaxRec
  /\ count < RamCap \/ ~ready
  /\ InsertRam(next, tail, count, FALSE)
  /\ next' = next + 1
  /\ UNCHANGED <<initVars, flushVars, dequeued,
                 wpc, cand, spilled, pending, pers, lock, sent>>

(***************************************************************************)
(* persistent_buffer_put_record, under the persistent lock.  A full tier   *)
(* gives up its oldest record before it tries to write the new one.        *)
(***************************************************************************)
PersistentFull == Len(pers) >= PersCap
Kept == IF PersistentFull /\ DropOldest THEN Tail(pers) ELSE pers
GivenUp == IF PersistentFull /\ DropOldest THEN {Head(pers)} ELSE {}

SpillResultIgnored(ok) == TRUE
SpillResult(ok) == ok

SpillPersist ==
  /\ wpc = "spill" /\ lock = "none"
  /\ \E ok \in BOOLEAN :
       /\ ok => ~PersistentFull \/ DropOldest
       /\ ~ok => Faults \/ (PersistentFull /\ ~DropOldest)
       /\ pers' = IF ok THEN Append(Kept, cand) ELSE Kept
       /\ enqueued' = IF ok THEN enqueued + 1 ELSE enqueued
       /\ spilled' = SpillResult(ok)
  /\ lost' = lost \union GivenUp
  /\ dropped' = IF PersistentFull THEN dropped + 1 ELSE dropped
  /\ wpc' = "spilled"
  /\ UNCHANGED <<ramVars, initVars, flushVars,
                 pending, lock, cand, next, dequeued, sent>>

\* Back in the critical section: the migrated record leaves the ring and the
\* new one enters it.
PutFinishCountingTwice ==
  /\ wpc = "spilled"
  /\ pending' = FALSE
  /\ IF spilled
     THEN InsertRam(next - 1, Inc(tail), count - 1, FALSE)
     ELSE InsertRam(next - 1, tail, count, FALSE)
  /\ wpc' = "idle" /\ spilled' = FALSE /\ cand' = 0
  /\ UNCHANGED <<initVars, flushVars, dequeued, next, pers, lock, sent>>
PutFinishStuckAfterFailure ==
  /\ wpc = "spilled"
  /\ pending' = ~spilled
  /\ IF spilled
     THEN InsertRam(next - 1, Inc(tail), count - 1, TRUE)
     ELSE InsertRam(next - 1, tail, count, FALSE)
  /\ wpc' = "idle" /\ spilled' = FALSE /\ cand' = 0
  /\ UNCHANGED <<initVars, flushVars, dequeued, next, pers, lock, sent>>
PutFinish ==
  /\ wpc = "spilled"
  /\ pending' = FALSE
  /\ IF spilled
     THEN InsertRam(next - 1, Inc(tail), count - 1, TRUE)
     ELSE InsertRam(next - 1, tail, count, FALSE)
  /\ wpc' = "idle" /\ spilled' = FALSE /\ cand' = 0
  /\ UNCHANGED <<initVars, flushVars, dequeued, next, pers, lock, sent>>

\* buffer_mgr_late_init: one attempt at persistent_buffer_init, from the
\* daemon task's start-up hook.
LateInit ==
  /\ Persistent /\ ~tried
  /\ tried' = TRUE
  /\ ready' \in {TRUE} \union (IF Faults THEN {FALSE} ELSE {})
  /\ UNCHANGED <<ramVars, writeVars, flushVars, metrics,
                 pending, pers, lock, sent, lost>>

(***************************************************************************)
(* buffer_flush_records, phase 1: the persistent tier, under its lock from *)
(* the peek to the consume.                                                *)
(***************************************************************************)
FlushBegin ==
  /\ fpc = "idle"
  /\ fpc' = IF Persistent THEN "persist" ELSE "ram"
  /\ flushed' = 0
  /\ UNCHANGED <<ramVars, initVars, writeVars, metrics,
                 pending, pers, lock, rec, sent, lost>>

ReleasedAroundPublish == lock' = "none"
HeldAcrossPublish == lock' = "flush"

PersPeek ==
  /\ fpc = "persist" /\ flushed < Batch
  /\ lock = "none" /\ ready /\ pers # <<>>
  /\ Head(pers) \notin BadRecs
  /\ rec' = Head(pers)
  /\ HeldAcrossPublish
  /\ fpc' = "publishPers"
  /\ UNCHANGED <<ramVars, initVars, writeVars, metrics,
                 pending, pers, flushed, sent, lost>>

\* peek found nothing (or no backend), or the batch is complete: on to RAM.
PersNothing ==
  /\ fpc = "persist"
  /\ flushed >= Batch \/ (lock = "none" /\ (~ready \/ pers = <<>>))
  /\ fpc' = "ram"
  /\ UNCHANGED <<ramVars, initVars, writeVars, metrics,
                 pending, pers, lock, rec, flushed, sent, lost>>

\* peek found a row whose magic, length or CRC is wrong: it discards the row
\* and reports an empty tier, so the loop ends here.
PersCorrupt ==
  /\ Faults
  /\ fpc = "persist" /\ flushed < Batch
  /\ lock = "none" /\ ready /\ pers # <<>>
  /\ pers' = Tail(pers)
  /\ lost' = lost \union {Head(pers)}
  /\ dropped' = dropped + 1
  /\ fpc' = "ram"
  /\ UNCHANGED <<ramVars, initVars, writeVars, enqueued, dequeued,
                 pending, lock, rec, flushed, sent>>

\* prepare_publish_record failed: consumed and counted both ways.
PersDiscard ==
  /\ fpc = "persist" /\ flushed < Batch
  /\ lock = "none" /\ ready /\ pers # <<>>
  /\ Head(pers) \in BadRecs
  /\ pers' = Tail(pers)
  /\ lost' = lost \union {Head(pers)}
  /\ dequeued' = dequeued + 1 /\ dropped' = dropped + 1
  /\ UNCHANGED <<ramVars, initVars, writeVars, flushVars, enqueued,
                 pending, lock, sent>>

PersPublish ==
  /\ fpc = "publishPers"
  /\ sent' = [sent EXCEPT ![rec] = @ + 1]
  /\ fpc' = "consumePers"
  /\ UNCHANGED <<ramVars, initVars, writeVars, metrics,
                 pending, pers, lock, rec, flushed, lost>>

\* The publish failed: out of the first loop, and into the second one.
PersPublishFailKeepingLock ==
  /\ fpc = "publishPers"
  /\ fpc' = "ram"
  /\ UNCHANGED <<ramVars, initVars, writeVars, metrics,
                 pending, pers, lock, rec, flushed, sent, lost>>
PersPublishFail ==
  /\ fpc = "publishPers"
  /\ lock' = "none"
  /\ fpc' = "ram"
  /\ UNCHANGED <<ramVars, initVars, writeVars, metrics,
                 pending, pers, rec, flushed, sent, lost>>

PersConsumeNotStored ==
  /\ fpc = "consumePers"
  /\ dequeued' = dequeued + 1 /\ pers' = pers
  /\ lock' = "none"
  /\ flushed' = flushed + 1
  /\ fpc' = "persist"
  /\ UNCHANGED <<ramVars, initVars, writeVars, enqueued, dropped,
                 pending, rec, sent, lost>>
PersConsume ==
  /\ fpc = "consumePers"
  /\ IF pers # <<>>
     THEN pers' = Tail(pers) /\ dequeued' = dequeued + 1
     ELSE UNCHANGED <<pers, dequeued>>
  /\ lock' = "none"
  /\ flushed' = flushed + 1
  /\ fpc' = "persist"
  /\ UNCHANGED <<ramVars, initVars, writeVars, enqueued, dropped,
                 pending, rec, sent, lost>>

(***************************************************************************)
(* Phase 2: the RAM ring.  Nothing is held between the peek, the publish   *)
(* and the consume.                                                        *)
(***************************************************************************)
RamPeek ==
  /\ fpc = "ram" /\ flushed < Batch /\ RamReadable
  /\ rec' = ring[tail]
  /\ fpc' = IF ring[tail] \in BadRecs THEN "discardRam" ELSE "publishRam"
  /\ UNCHANGED <<ramVars, initVars, writeVars, metrics,
                 pending, pers, lock, flushed, sent, lost>>

FlushEnd ==
  /\ fpc = "ram" /\ (flushed >= Batch \/ ~RamReadable)
  /\ fpc' = "idle"
  /\ UNCHANGED <<ramVars, initVars, writeVars, metrics,
                 pending, pers, lock, rec, flushed, sent, lost>>

RamPublish ==
  /\ fpc = "publishRam"
  /\ sent' = [sent EXCEPT ![rec] = @ + 1]
  /\ fpc' = "consumeRam"
  /\ UNCHANGED <<ramVars, initVars, writeVars, metrics,
                 pending, pers, lock, rec, flushed, lost>>

RamPublishFail ==
  /\ fpc = "publishRam"
  /\ fpc' = "idle"
  /\ UNCHANGED <<ramVars, initVars, writeVars, metrics,
                 pending, pers, lock, rec, flushed, sent, lost>>

\* buffer_mgr_consume: whatever is the oldest record by now.
ConsumeRam ==
  IF RamReadable
  THEN tail' = Inc(tail) /\ count' = count - 1 /\ dequeued' = dequeued + 1
  ELSE UNCHANGED <<tail, count, dequeued>>

RamConsume ==
  /\ fpc = "consumeRam"
  /\ ConsumeRam
  /\ flushed' = flushed + 1
  /\ fpc' = "ram"
  /\ UNCHANGED <<ring, head, initVars, writeVars, enqueued, dropped,
                 pending, pers, lock, rec, sent, lost>>

RamDiscard ==
  /\ fpc = "discardRam"
  /\ ConsumeRam
  /\ dropped' = dropped + 1
  /\ lost' = lost \union {rec}
  /\ fpc' = "ram"
  /\ UNCHANGED <<ring, head, initVars, writeVars, enqueued,
                 pending, pers, lock, rec, flushed, sent>>

(***************************************************************************)
(* Specification.                                                          *)
(***************************************************************************)
Init ==
  /\ ring = [i \in 0 .. RamCap - 1 |-> 0]
  /\ head = 0 /\ tail = 0 /\ count = 0 /\ pending = FALSE
  /\ ready = FALSE /\ tried = FALSE
  /\ pers = [i \in 1 .. (IF Persistent THEN Backlog ELSE 0) |-> i]
  /\ lock = "none"
  /\ wpc = "idle" /\ cand = 0 /\ spilled = FALSE /\ next = Backlog + 1
  /\ fpc = "idle" /\ rec = 0 /\ flushed = 0
  /\ enqueued = 0 /\ dequeued = 0 /\ dropped = 0
  /\ sent = [r \in Recs |-> 0] /\ lost = {}

Writer  == PutSpill \/ PutDirect \/ SpillPersist \/ PutFinish
Flusher == \/ FlushBegin \/ PersPeek \/ PersNothing \/ PersCorrupt
           \/ PersDiscard \/ PersPublish \/ PersPublishFail \/ PersConsume
           \/ RamPeek \/ FlushEnd \/ RamPublish \/ RamPublishFail
           \/ RamConsume \/ RamDiscard

Next == Writer \/ LateInit \/ Flusher

Spec == Init /\ [][Next]_vars

(***************************************************************************)
(* Fairness.  A task that is ready runs, and a publish call returns (the   *)
(* MQTT library bounds it by a timeout): weak fairness of each task.  The  *)
(* writer may be kept off the persistent lock while the flusher publishes, *)
(* but mqtt_gw_task blocks between two flushes with the lock free, and the *)
(* lower-priority buffer_task gets it then: strong fairness of that step.  *)
(* Publishing succeeds again and again: the broker is reachable.           *)
(***************************************************************************)
TaskFairness ==
  /\ WF_vars(PutFinish) /\ WF_vars(Flusher) /\ SF_vars(SpillPersist)
BrokerFairness == SF_vars(PersPublish) /\ SF_vars(RamPublish)

FairSpec == Spec /\ TaskFairness /\ BrokerFairness

(***************************************************************************)
(* Properties.                                                             *)
(***************************************************************************)
\* Types, and the shape of the ring: head is always count slots after tail.
RingOK ==
  /\ ring \in [0 .. RamCap - 1 -> 0 .. MaxRec]
  /\ head \in 0 .. RamCap - 1 /\ tail \in 0 .. RamCap - 1
  /\ count \in 0 .. RamCap
  /\ head = Slot(tail, count)
PersOK == pers \in Seq(0 .. MaxRec) /\ Len(pers) <= PersCap
TasksOK ==
  /\ pending \in BOOLEAN /\ ready \in BOOLEAN /\ tried \in BOOLEAN
  /\ lock \in {"none", "flush"}
  /\ wpc \in {"idle", "spill", "spilled"}
  /\ cand \in 0 .. MaxRec /\ spilled \in BOOLEAN
  /\ next \in Backlog + 1 .. MaxRec + 1
  /\ fpc \in {"idle", "persist", "publishPers", "consumePers",
              "ram", "publishRam", "consumeRam", "discardRam"}
  /\ rec \in 0 .. MaxRec /\ flushed \in 0 .. Batch
CountersOK ==
  /\ enqueued \in Nat /\ dequeued \in Nat /\ dropped \in Nat
  /\ sent \in [Recs -> Nat] /\ lost \subseteq 0 .. MaxRec
TypeOK == RingOK /\ PersOK /\ TasksOK /\ CountersOK

\* The purpose of s_ram_migration_pending (buffer_mgr.c:239-251): while the
\* copy of the oldest record is on its way to the persistent tier, that record
\* stays the oldest one of a full ring, so the one popped afterwards is it.
MigrationPinsOldest ==
  wpc # "idle" =>
    pending /\ count = RamCap /\ ring[tail] = cand

\* "persistent tier contains older records, RAM tier contains newer records"
\* (docs/persistent_buffer.md, 3): both tiers are in order of arrival, and what
\* is in persistent storage is older than what is in RAM, but for the record
\* that has been copied there and has not left the ring yet.
PersOrdered ==
  \A i, j \in 1 .. Len(pers) : i < j => pers[i] < pers[j]
RamOrdered ==
  \A i, j \in 0 .. count - 1 : i < j => RamAt(i) < RamAt(j)
PersBeforeRam ==
  \A i \in 1 .. Len(pers), k \in 0 .. count - 1 :
    \/ pers[i] < RamAt(k)
    \/ k = 0 /\ spilled /\ i = Len(pers) /\ pers[i] = RamAt(k)
TierOrder == PersOrdered /\ RamOrdered /\ PersBeforeRam

\* Phase 1 of the flush holds the persistent lock from the peek to the consume
\* (buffer_flush.c:112-153), so a spill that overflows the tier cannot remove
\* the record being published: what is consumed is what was published.
PersConsumeMatchesPublish ==
  fpc \in {"publishPers", "consumePers"} => pers # <<>> /\ Head(pers) = rec

\* Phase 2 holds nothing (buffer_flush.c:159-195).  Its record may leave the
\* ring under it, but only to the persistent tier or to the dropped records:
\* it is never forgotten, and no older record is left behind in RAM.
RamRecordAccounted ==
  fpc \in {"publishRam", "consumeRam", "discardRam"} =>
    /\ InRam(rec) \/ InPers(rec) \/ rec \in lost
    /\ \A k \in 0 .. count - 1 : RamAt(k) >= rec

\* At-least-once delivery stays bounded: with drop_oldest, a record published
\* from RAM whose consume missed it is published once more, from persistent
\* storage, and never again.
DuplicatedAtMostOnce == DropOldest => \A r \in Recs : sent[r] <= 2

\* The counters of docs/persistent_buffer.md, 13 add up (drop_oldest profiles,
\* encodable records): what was put in and not taken out is what is resident,
\* through spills, overflows, failed writes and consumes of the wrong record.
Depth == count + Len(pers)
MetricsBalance ==
  DropOldest /\ BadRecs = {} =>
    enqueued + (IF Persistent THEN Backlog ELSE 0)
      = Depth + dequeued + dropped

\* Every record that arrived is resident, on its way in, published, or
\* discarded and counted (buffer_flush.c:158 "peek + consume = no FIFO
\* breakage", buffer_mgr.h:138 "Consume (remove) the oldest RAM record after a
\* successful publish").
NoSilentLoss ==
  \A r \in 1 .. next - 1 :
    \/ InRam(r) \/ InPers(r) \/ sent[r] > 0 \/ r \in lost
    \/ r = next - 1 /\ wpc # "idle"
    \/ r <= Backlog /\ ~Persistent

\* What is left of "this persistent -> RAM order is globally FIFO-correct"
\* (docs/persistent_buffer.md, 3) when phase 1 ends early: the one record that a
\* newer one may overtake is one that phase 1 left in the persistent tier.  Phase
\* 2 is in order, also when spills move records between the tiers under it.
OvertakesOnlyPersistent ==
  [][\A r \in Recs :
       sent[r] = 0 /\ sent'[r] > 0 /\ fpc = "publishRam" =>
         \A n \in Recs : n > r => sent[n] = 0]_vars

\* A migration ends: the flusher gives the persistent lock back on every path
\* out of phase 1, and every outcome of the write lets peek and consume go on.
MigrationEnds == pending ~> ~pending

\* Once nothing arrives any more and publishing works, both tiers drain,
\* whatever was spilled, dropped or refused on the way.
Drained == count = 0 /\ pers = <<>>
BacklogDrains == (ready /\ next > MaxRec) ~> Drained

=============================================================================
