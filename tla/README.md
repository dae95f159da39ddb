# TLA+ models of the PMBus-MQTT edge gateway

The repository is the firmware of a PSoC 62 gateway (FreeRTOS): it polls PMBus
power supplies over I2C, stores what it reads in a two-tier store-and-forward
buffer, and publishes it over MQTT. `target_proj` is a simulator of a PMBus
device, `scripts` and `pmbus-dashboard-public` are host tools. These modules
model the gateway, `rtos_test/source`. All paths below are relative to it unless
they start with `docs/`.

## 1. The system

| Task | Priority | Does |
|---|---|---|
| `pmbus_poll_task` | 4 | polls devices, serves SMBALERT, executes commands, makes telemetry, status and events |
| `mqtt_gw_task` | 3 | connects, flushes the buffer, publishes responses and metrics, parses commands; only reader of the buffer |
| `buffer_task` | 2 | drains queues and rescue rings into the buffer; only writer of the buffer |
| timer/daemon task | 2 | start-up hook: QSPI self test, then `buffer_mgr_late_init` |
| MQTT library task | - | callback: disconnects, incoming commands |
| pin interrupt | - | SMBALERT flag |

    pmbus_poll_task --> queue (64/16/16) --full--> rescue ring (256/32/32)
                              |                         |
                              +------ buffer_task ------+
                                          |
                                   RAM ring --full--> persistent tier (Em_EEPROM or QSPI)
                                          |                 |
                                          +-- mqtt_gw_task -+--> broker

### Components

For each: state, operations, what is hard, and what makes it correct.

* **buffer_mgr** - `s_ring/s_head/s_tail/s_count`, `s_ram_migration_pending`,
  `s_persistent_ready`. put (with spill), peek, consume, late init, drain,
  `buffer_task`. Hard: the spill leaves the critical section for a flash write
  while the flusher peeks and consumes. Correct when a migration moves the record
  it copied, both tiers stay in order of arrival, and no record vanishes uncounted.
* **buffer_flush** - no state of its own; publishes the persistent tier under its
  lock, then RAM without one. Hard: what it publishes and what it consumes may
  differ. Correct when it publishes in order and consumes what it published.
* **persistent_buffer / flash_buffer** - rows 0..60 and one metadata row.
  put, peek, consume, recovery. Hard: torn rows, failed writes, a reset between
  data and metadata, a capacity that changed. Correct when what it recovers is a
  suffix of what was stored.
* **qspi_buffer** - log of sectors with a metadata journal. Hard: erase before
  write, wrap-around, torn journal entries. Same promise, in larger units.
* **gateway_ipc / emergency_ring** - queues, rings, notifications, the sequence
  counter. Hard: posts that fall between the last look at a queue and the sleep;
  overflow at every level. Correct when no accepted record waits unnoticed.
* **persistent_seq** - two banks written in turn. Hard: power loss at any write,
  failed writes, wrap-around. Correct when a bank always remains and the counter
  rolls back by a bounded amount.
* **cmd_handler** - duplicate cache (4 responses), in-flight table (9 ids), shared
  by two tasks. Hard: retries that race the answer. Correct when a command id is
  executed once while anything remembers it, and every accepted command is answered.
* **mqtt_gw_task session** - online flag, pending disconnect, subscription,
  backoff, deferred metrics. Hard: late callbacks, failed subscribes.
* **pmbus_poll_task / pmbus_master** - device online/offline state, SMBALERT flag,
  bus backoff, controller reset, recovery. Hard: a stuck bus, an alert that arrives
  while another is served, tick wrap-around.
* **publish_filter** - baselines per device. Correct when no change of a device's
  status stays unreported, and telemetry is never older than a heartbeat.
* **pmbus_decode, wallclock, telemetry** - the cached `VOUT_MODE` exponent, the
  SNTP offset. Hard: values and stamps whose meaning is kept apart from them.
  Correct when the consumer reads what the device measured, at the time it says.
* Observers and text (metrics, JSON layout and parsing, configuration), vendored
  code, and host tools: not modelled; `PROJECT.json` gives each a reason.

`PROJECT.json` lists every component with its status, and under `hazards` each
place where one of the difficulties above bites, with the properties that cover it
and what they leave out.

## 2. Modules

| Module | Models |
|---|---|
| `BufferMgr` (+ `MCBufferMgr`, `BufferMgrProofs`) | both tiers, `buffer_task`'s put, `buffer_flush_records`, late init |
| `IpcDrain` (+ `MCIpcDrain`, `IpcDrainProofs`) | posting, queues, rescue rings, notifications, `buffer_mgr_drain_once` |
| `PersistentSeq` (+ `MCPersistentSeq`, `PersistentSeqProofs`) | sequence counter, A/B banks, power loss |
| `DurableFifo` | abstract: what a persistent tier promises across resets |
| `FlashBuffer` (+ `MCFlashBuffer`, `FlashBufferProofs`) | Em_EEPROM rows, metadata row, recovery, capacity changes; implements `DurableFifo` |
| `QspiBuffer` (+ `MCQspiBuffer`, `QspiBufferProofs`) | data sectors, metadata journal, recovery; implements `DurableFifo` |
| `CmdPipeline` (+ `MCCmdPipeline`, `CmdPipelineProofs`) | MQTT session, command queues, duplicate cache, in-flight table, execution and answer |
| `Telemetry` (+ `MCTelemetry`, `TelemetryProofs`) | a reading's way from the words of a device to the digits of the consumer: decoding, time stamp, deadband and heartbeat filter |
| `PollTask` (+ `MCPollTask`, `PollTaskProofs`) | poll loop, device state, SMBALERT# and ARA, transfers, bus backoff and recovery, status filter, the target's alert |

`BufferMgr` uses the persistent tier as a bounded sequence, which is what
`DurableFifo` is between two resets. `CmdPipeline` and `BufferMgr` meet only in the
outcome of a publish, `PollTask` and `CmdPipeline` only in the one command that is
executed per tick; each models the other side by its possible outcomes.

### BufferMgr

A record is the number of its arrival. One step is one critical section, one
stretch under the persistent lock in which the task does not block, or one call of
the publish function. `PutSpill`, `SpillPersist`, `PutFinish` are the three parts
of `buffer_mgr_put_record_internal` when RAM is full and a persistent tier is ready;
`PutDirect` is the other case. `Pers*` actions are phase 1 of
`buffer_flush_records`, `Ram*` phase 2. The persistent tier is the sequence
`pers`, with the behaviour of `flash_buffer.c`: a full tier gives up its oldest
record before it writes, a write may fail, a corrupt row is discarded by peek and
ends phase 1. The QSPI backend frees whole sectors whatever `drop_oldest` says;
that is `QspiBuffer`'s subject. Records that cannot be encoded are a constant set.
The metrics counters are part of the step whose change they count. The event that a
dropped record posts is left to `IpcDrain`.

### IpcDrain

`Make`, `Send`, `Rescue`, `Refuse`, `Signal` are the steps of a post, by
`pmbus_poll_task`, by `mqtt_gw_task` (events), and by `buffer_task` itself, which
posts overflow events in the middle of its own drain. The rescue rings are modelled
by index. `stage` 1 to 6 is the place in `buffer_mgr_drain_once`. The RAM ring is a
bounded sequence and there is no persistent tier: that is what the profiles with
`flash_max_records = 0` run, and a full RAM ring is where the interesting cases are.
Tasks interleave at every step; the real priorities allow fewer interleavings.
What the `posted` bound cuts off is only how long producers go on.

### PersistentSeq

Numbers are modulo `M`. A row write is two steps, and until it returns the row may
hold the old contents, the new ones or garbage; power loss and failing writes leave
any of the three. `top`, `used`, `issuing`, `fails` and `initFailed` are history.

### DurableFifo, FlashBuffer, QspiBuffer

`DurableFifo` has two queues: `stored`, which peek and consume see, and `kept`, which
a reset would bring back. An accepted record or a consume changes `stored`; `kept`
follows at the end of the metadata write that comes with it, and is behind when that
write fails. Both backends implement it (`ImplementsDurableFifo`), with `stored` read
from the metadata in RAM and `kept` from the metadata in flash.

In `FlashBuffer`, a step is what lies between two ends of a row write: `PowerOn` is
`flash_buffer_init`, `Put*`, `Consume`, `PeekDiscards` and `Erase*` are the
operations, `MetaWritten` / `MetaFails` the end of `meta_write` and `PowerLoss` a
reset. A row under way is old, new or unreadable. Builds with another capacity take
over the rows of the last one (`Caps`); from then on nothing but `TypeOK` and
`IndicesInRange` is promised, which is finding 7.

`QspiBuffer` is one level lower: cells that can only be programmed once between two
erases. `Put`, `Drop`, `EraseSector`, `Place`, `Program` are `qspi_buffer_put_record`,
`AppendEntry`, `RollErase`, `Roll` the journal append, `PowerOn` with `Best` the two-sector
scan. The history variable `spoilt` is set when one of the layout hazards of finding
8 strikes (a program over cells that are not blank, a magic across two sectors), and
the refinement is stated up to that moment; `JournalKeepsNewest` is not.

### CmdPipeline

Three threads: the MQTT callback (`MessageCallback`, `DisconnectCallback`),
`mqtt_gw_task` (`pc`, from `Top` to `Wait`) and `pmbus_poll_task` (`Execute`,
`Respond`, `DropResponse`). The in-flight table is modelled as the ring it is, with
its scan and compaction; `mqtt_gw_task` can be interrupted in the middle of
`cmd_inflight_add` and `cmd_inflight_remove`, the higher-priority task cannot.
Requests are ids that are sound or malformed. What flushing and metrics do to the
session is a publish that succeeds or fails; of the library's errors a failed publish
counts towards a disconnect (`PublishFail`), others do not (`PublishError`). `raced` marks that the table was changed
under `mqtt_gw_task`'s hands (finding 9), `forgotten` the ids whose response was
dropped or evicted.

### PollTask

`NoAlert` / `TakeAlert`, `Ara*`, then per device `Deferred`, `TelemetryDue` or
`TelemetryNotDue`, `Read*` up to `TelemetryDone`, `StatusDue` or `StatusNotDue`, up to
`Status*`, and `TakeCommand` / `Transfer`: the order of the loop in
`pmbus_poll_task`. `Results` gives what a transfer may return on a free or a stuck
bus, `Controller` what it leaves of the master's busy flag and of the backoff. The
deadline of the backoff is none, ahead or passed and the tick count is reduced to its
half (`HalfPassed`, `Wrap`), because 0 as "no deadline" behaves differently in the two
halves (finding 11). The environment raises and clears faults in the order the target
simulator does (alert line before register), removes devices and holds lines low. A
device that is not configured only answers the ARA: it has a fault and an alert but no
register, and stays where it is. The gateway boots at any moment in the life of the
devices: `Init` admits any of the configured ones that are there, any faults and alerts of theirs and a line held low. SMBALERT# may thus be low
before its interrupt is armed. That line, and one an ARA loop leaves low, is `missed`
until it is released (finding 12): `AlertNeverForgotten` does not speak of it.

### Telemetry

`Sample` is `poll_telemetry` up to `ts_ms`, one of `NothingRead`, `Suppressed`,
`Posted` and `Dropped` the rest: SNTP may answer in between. Decoding is arithmetic
on the words as read, one Linear11 register for the five there are and `READ_VOUT`.
`VinDigit` is what its last printed digit is worth: hundredths, or tenths where the
register is the temperature. The run takes hundredths, the theorem covers both.
`tick` wraps and is compared as the code does, by a signed difference. `word`,
`scale`, `shown` and `age` are history: what the device meant, what the consumer
read last and how long ago. Which registers answer is a choice in each poll, so
that drops, absences and registers that come and go mix freely; `Replaced` puts a
device with another exponent on the bus.

## 3. Runs

| Run | Expect | Shows |
|---|---|---|
| `buffer_safety` | pass | the invariants of `BufferMgr` and the order of phase 2, with failing storage and `drop_oldest` |
| `buffer_live` | pass | migrations end, both tiers drain, with `drop_newest` and a bad record |
| `buffer_loss` | violation | a record leaves RAM unpublished and uncounted (finding 1) |
| `ipc_lanes` | pass | no lost wake-up, every record in one place, all lanes drain |
| `ipc_overtake` | violation | a rescued record overtakes queued ones (finding 3) |
| `ipc_livelock` | violation | a drain that never ends (finding 4) |
| `seq_banks` | pass | recovery of the sequence counter |
| `flash_rows` | pass | rows and metadata through resets, failures and capacity changes; refinement of `DurableFifo` |
| `qspi_log` | pass | journal and log through resets and failures; refinement of `DurableFifo` |
| `cmd_session` | pass | commands are tracked, deduplicated and end; requests are read; the session settles |
| `poll_alerts` | pass | from any state at boot: alerts are remembered unless the line was low before, faults are reported, device state and bus master recover |
| `telemetry_values` | pass | what was last reported is true within a deadband, silence is bounded, uptimes are labelled |

**Bounds.** `BufferMgr`: two slots per tier and six arrivals behind a backlog of one
make the RAM ring wrap three times, overflow both tiers repeatedly, and leave a
flush of three records to cross both tiers; the hazards need two or three records
in flight. `IpcDrain`: a queue of one and a ring with one usable slot overflow at
the third record of a lane; three telemetry records, a status record and an event,
plus the overflow events, reach every action. `PersistentSeq`: four boots, two
failed checkpoints, 32 numbers and an interval of three; the counter wraps, and as
with 2^32 and 100 the interval does not divide the range, so the wrap happens in a
short interval. `FlashBuffer`: three rows and four puts wrap the ring with a row to spare,
and resets and failures are not bounded at all. `QspiBuffer`: two sectors of nine
cells with records of four and five cells, a header of three and a magic of two give
every kind of padding (none, less than a magic, more) and torn headers that look
blank, two journal entries per sector roll over at every third append, and two faults
let a reset meet what an earlier failure left. `CmdPipeline`: queues and
cache of one entry, so that the in-flight table has three entries and four ids meet
it full; four events (requests, lost connections, failed publishes) suffice for a
retry of an evicted response and for two reconnections. `PollTask`: one configured
device and one stranger with a lower address, which answers alerts first; two
commands per poll and one retry, offline after two failures instead of three, and
two events on top of any state of devices and lines at boot, so that a fault, a stuck
line and a full queue may come together; the halves of the tick count may alternate
for ever.
`Telemetry`: three voltages of which neighbours are within the deadband and the outer
two are not, so that a drift in small steps is told from none; two devices that mean
3.3 and 26.4 V by one word; a heartbeat of two ticks in a range of six, which puts the
wrap between any two polls; offline after two failures. Polls and drops are not bounded.
`MaxRec`, `MaxPosts`, `MaxBoots`, `MaxFails`, `MaxFaults`, `MaxIds` and `MaxEvents` are
bounds of the models only. `CHECK_DEADLOCK FALSE` in `IpcDrain`, `PersistentSeq`,
`FlashBuffer` and `QspiBuffer`: they stop when those bounds are used up.

**Fairness.** Tasks that are ready run, and a publish call returns (the library
bounds it by a timeout): weak fairness per task. `SpillPersist` is strongly fair:
the flusher holds the persistent lock again and again, but between two flushes
`mqtt_gw_task` blocks in `ulTaskNotifyTake` with the lock free, and `buffer_task`
runs then. `buffer_live` also assumes that publishing succeeds again and again (the
broker is reachable); `ipc_lanes` that flushing goes on. `WakeTimeout` has no
fairness: the notification alone must do. `ipc_livelock` assumes no flushing,
which is being offline. `CmdPipeline`: each thread runs when it can, and a broker that
is tried for ever is reached (`SF` of `Connected`); messages and failures are never
forced. `PollTask`: the task runs, polls of each device come due again and again (`SF`,
because a backoff may interrupt the visits), and lines are released, a backoff ends
and the tick count wraps; `FaultReported`, `DeviceStateSettles` and
`ControllerRecovers` say nothing of a bus that stays stuck for ever. `FlashBuffer`,
`QspiBuffer` and `Telemetry` have no liveness and no fairness.

### Findings

1. `buffer_flush.c:193` - phase 2 publishes a copied record and then consumes
   whatever is oldest. If a spill or a drop took the published record meanwhile,
   its unpublished successor is removed, uncounted.
2. `buffer_flush.c:136` - a failed publish in phase 1 does not stop phase 2, and
   RAM records overtake persistent ones. `OvertakesOnlyPersistent` states the order
   that is left; without its restriction to phase 2 one failed publish violates it.
3. `buffer_mgr.c:491` - draining the queue before its ring does not keep rescued
   records from overtaking: the queue can refill in between.
4. `buffer_mgr.c:288` - a put into a full RAM ring posts an event into the queue
   that is being drained; offline and without a persistent tier this goes on
   forever and, with `drop_oldest`, replaces the buffered data by overflow events.
5. `flash_buffer.c:352` against `buffer_mgr.h:97` (which record is dropped when
   both tiers are full), `gateway_ipc.c:126` against `persistent_seq.h:13` (numbers
   are reissued, not lost), and `persistent_seq.c:232` (a failed write at boot
   leaves `s_next_bank` at 0) were met while modelling and have no run.
6. `flash_buffer.c:408` - the single metadata row is rewritten in place: a reset
   within that write empties the tier.
7. `flash_buffer.c:294` - head, tail and count are clamped one by one when the
   capacity has changed: consumed records come back and new ones are lost.
8. `qspi_buffer.c:355, 324, 391, 222, 532` - programming over what a cut-off write
   left, an exact fit at a sector's end, padding shorter than a magic, the slot
   after the newest journal entry torn, and a failed last erase of the journal.
9. `cmd_handler.c:509` - the in-flight table is changed by a removal in the middle of
   an add; `mqtt_gw_task.c:1000` - a parked error response erases the entry of the
   command it repeats.
10. `mqtt_gw_task.c:1057` - QUEUE_FULL is answered from the cache.
11. `pmbus_master.c:211` - in the upper half of the tick range a low line defers all
    polls of a device towards the wrap, although it is free again at once.
12. `pmbus_poll_task.c:139, 253` - a line that is low when the interrupt is armed, at
    boot, starts no ARA loop, and a loop that ends with the line low is never started
    again: the interrupt waits for an edge that does not come.
13. `pmbus_poll_task.c:732` - `ts_ms` and `time_synced` are read apart: an uptime can
    be labelled as an epoch.
14. `wallclock.c:92` - when the tick count wraps, time falls back by 49.7 days until
    SNTP answers again.
15. `pmbus_poll_task.c:631` - the exponent of VOUT is a default until `VOUT_MODE` was
    read once and is never read again.

Findings 2 and 6 to 15 have no run of their own; the properties of the passing runs
name them as exceptions (`AckedSurvives`, `spoilt`, `resized`, `raced`, `missed`, the
exponent in `ReportedTracks`) or state the direction that holds (`UnsyncedIsUptime`).
Each is reached in the model but 14, which `Telemetry` abstracts from: to it, a stamp
with an offset is an epoch.

## 4. Proofs

Everything here holds for every value of the constants that the `ASSUME`s allow
(positive capacities, and so on). One more assumption is made, by two theorems about
the sequence counter: `Room`, that twice the numbers lost at worst is below the range
of the counter. With 2^32 numbers and an interval of 100 it admits 21 million failed
checkpoints; without it the newer of two banks cannot be told by a signed difference.

Every invariant, every action property and both refinements of the passing runs are
proved. Each theorem follows one scheme: a state predicate that implies the property,
`Init` and every action of `Next` shown to keep it, one lemma per action where the
argument differs, and a last step in temporal logic. What follows is what had to be
added to the properties to make them inductive.

* `BufferMgrProofs`. `Basic` (`TypeOK`, `MigrationPinsOldest`): with a migration
  pending the flusher may be anywhere, and its count stays within the batch whenever it
  holds a record (`FlushInBatch`). Ring arithmetic is kept behind lemmas about `Slot`:
  its values, its injectivity on a lap, and the next slot. `Order` (`TierOrder`): what
  is in a tier has arrived, and where a spilled record is while it is in both; lemmas
  about insertion with room and over the oldest, migration and consuming. `Held`
  (`PersConsumeMatchesPublish`): the lock is the flusher's exactly while it publishes
  or consumes. `Flushed` (`RamRecordAccounted`): what a spill that has written the
  record still owes. `Balance` (`MetricsBalance`): the sum is split between a written
  spill and its pop, where a record counts in both tiers. `Published`
  (`OvertakesOnlyPersistent`, an action property): nothing newer was sent than an unsent
  record in RAM or in the hands of phase 2. `Duplicates` (`DuplicatedAtMostOnce`): a
  record in RAM that was sent is the oldest and on its way out, and one in persistent
  storage was sent once at most, unless phase 1 is about to consume it.
* `IpcDrainProofs`. `Covered` (`NoLostWakeup`): every stage a drain has left behind is
  empty or comes with a notification given or due, sleep begins with no stage left
  behind, and a put is made while `buffer_task` is not posting. `Placed`
  (`RecordInOnePlace`) counts: the copies of a record are the sum of its occurrences in
  queue, ring, hands and RAM; lemmas say what appending, taking and overwriting do to
  such a count, and each action moves one from one place to another.
* `PersistentSeqProofs`. `Kept` (`OneBankSurvives`) names the good bank of each state:
  opposite the write under way, or opposite `s_next_bank`. `Behind` (`RollbackBounded`)
  gives each bank's distance from the newest number without the modulus; under `Room`
  the wrapping comparison agrees with it, so that recovery picks the newer bank.
  `Trail` (`BootCountFresh`): no valid bank is behind a boot count that was used.
* `FlashBufferProofs`. `Ranges` (`IndicesInRange`): the metadata in RAM fits the
  region of the running build from the clamping at power-on to the next reset, and a
  put under way has a free slot there; what is in flash may fit no build at all.
  `Solid` (the refinement): no record is in two rows, none is newer than the puts so
  far, and metadata fit the capacity, in RAM and in flash, until it changes. One lemma
  per action shows a step of `DurableFifo` or a stutter (`ImplementsDurableFifo`).
  `Lagging` adds, for `AckedSurvives`, by how many places the queue a reset would bring
  back is shifted.
* `QspiBufferProofs`. `Sane` (`TypeOK`): the control state says which sector and which
  cells an operation may touch. `JournalKeepsNewest` rests on `Bounded` (sequence
  numbers in the journal have a maximum, so the scan finds a best entry),
  `Authority` (in which states the journal is written, and that `good` is 0 while it is
  erased) and `JournalInOrder`: the active sector is filled up to `index`, the newest
  sound entry is in it until a newer one is in the other, and a reset cuts off at most
  one slot. The refinement (`ImplementsDurableFifo`) needs two more invariants, both kept
  as long as no hazard of the layout has struck (`spoilt`). `Firmness`, of the journal:
  sound entries lie before the first blank one, their numbers rise within a sector and
  differ between the two, and the newest is behind no free slot; so the scan is
  determined, and whatever becomes of an append, it then returns what it did before or
  the metadata (`OutcomeKinds`). `Logging`, of the data: there is one log of records
  (`Log`), each found at the place before it or behind the padding there, which starts
  where the older metadata start and ends at the head, at the latest where its first
  sector comes again; the queues of both metadata are runs of it (`Track`). Sectors are
  counted on past the last one, so that their order in the log is that of numbers.
  `Placing` says that a put is about to erase a sector outside the log. One set of lemmas
  shows that what is erased or programmed there leaves the log alone (`LogKept`), one
  that the record written becomes its next one (`TrackMore`). The recursive function that
  reads a queue out of the cells has the places of the log as its value (`QueueValue`):
  they satisfy its equation, and the first place where another solution differed would
  have a predecessor where it does not.
* `CmdPipelineProofs`. `TypeOK` with the ring's indices in the middle of an add or a
  remove; `Path` (`InFlightExact`, `DuplicateSuppressed`): each accepted id has one
  place in the pipeline and one slot of the ring, one that has run is in the cache, on
  its way there or forgotten, and a scan has compared what it has passed. `TrackerFullOnlyWithQueue` is a pigeonhole argument: as many
  different places as slots leave the queue full.
* `PollTaskProofs`. `TypeOK`, strengthened by `Visiting` (in the middle of a visit
  there is a device left to visit), and `AlertNeverForgotten`, which is inductive by
  itself: a line low at boot is `missed`, and each action leaves the alert line alone,
  or sets the mark, or ends the loop with the line free or `missed`.
* `TelemetryProofs`. `Stamped` (`UnsyncedIsUptime`): an epoch in a record under way
  means that SNTP has answered. `Timed` (`SilenceBounded`): the distance of tick count
  and baseline without the modulus, as the age of the last accepted record. `Reading`
  (`ReportedTracks`): the baseline is the decoding of what the consumer was last
  shown; lemmas bound what decoding and printing lose, rounding and cut-off digits, for
  all powers of two in range, and carry them across the comparison with the deadband.

**Model-checked only.** Liveness (`MigrationEnds`, `BacklogDrains`,
`EverythingDrained`, `DrainEnds`, and that of `CmdPipeline` and `PollTask`), which is
out of the prover's reach, and the violations.

**Not modelled.** The metrics task's deferral of its own publish, latency rings and
statistics: no decision depends on them. Wi-Fi and broker backoff times: a connection
attempt is a step that succeeds or fails. Values beyond 32 bits (Linear11 exponents of
12 and more), the encoders and float variants of `pmbus_decode`, which the firmware
does not call. Payloads, JSON and its parser, the correlation id's recovery from
malformed text: a request parses or does not. Board bring-up and configuration tables:
constants of the models. PEC, which is one way for a transfer to fail. Vendored,
generated and host code is outside the project; a large share of the repository's C
lines is of that kind, among it a second copy of the sources under `docs/coursework`.
The status field `status_emit_initial` is taken as set, as every profile has it.
