----------------------------- MODULE Telemetry -----------------------------
(***************************************************************************)
(* The way of a reading: poll_telemetry of pmbus_poll_task.c decodes the   *)
(* registers of one device (pmbus_decode.c), stamps the record             *)
(* (wallclock.c), offers it to the deadband and heartbeat filter           *)
(* (publish_filter.c) and posts it; telemetry.c prints it for the          *)
(* consumer.                                                               *)
(*                                                                         *)
(* READ_VIN stands for the five Linear11 registers, READ_VOUT is Linear16  *)
(* with the exponent of VOUT_MODE, which is cached.  Values have the       *)
(* code's units: thousandths in the record, in the JSON hundredths, or     *)
(* tenths of a temperature.  Words whose thousandths need more than 32     *)
(* bits do not occur.  The tick count is small, its wrap and signed        *)
(* comparisons are kept.  Which registers answer is a choice; the retries  *)
(* behind it are in PollTask, and what becomes of the record is in         *)
(* IpcDrain.                                                               *)
(***************************************************************************)
EXTENDS Integers

CONSTANTS
  VinWords,      \* what READ_VIN may return, exponents up to 11
  VoutWords,     \* what READ_VOUT may return, fitting 32 bits with Modes
  VinDigit,      \* thousandths in the last digit printed of READ_VIN: 100
                 \* where it stands for the temperature, else 10
  Modes,         \* VOUT_MODE bytes of the devices at this address
  VinDeadband,   \* deadband_vin_mV, resolved
  VoutDeadband,  \* deadband_vout_mV, resolved
  Heartbeat,     \* telemetry_heartbeat_ms in ticks
  Threshold,     \* OFFLINE_FAIL_THRESHOLD
  Half           \* half the number of tick counts, 2^31 in the code

\* uint16_t and uint8_t.
Words == 0 .. 2^16 - 1
Bytes == 0 .. 2^8 - 1

ASSUME TelemetryAssumption ==
  /\ VinWords \subseteq Words /\ VoutWords \subseteq Words
  /\ VinDigit \in {10, 100}
  /\ Modes \subseteq Bytes /\ Modes # {}
  /\ VinDeadband \in Nat /\ VoutDeadband \in Nat /\ Threshold \in Nat \ {0}

\* pdMS_TO_TICKS of the heartbeat is positive as a signed number.
ASSUME TimeAssumption ==
  /\ Half \in Nat \ {0}
  /\ Heartbeat \in 1 .. Half - 1

VARIABLES
  mode,      \* VOUT_MODE of the device that is there
  tick,      \* xTaskGetTickCount()
  synced,    \* s_synced
  exponent,  \* vout_exponent
  known,     \* vout_exp_valid
  fails,     \* consec_fails, up to Threshold
  online,    \* online
  baseline,  \* telem_fs
  pc,        \* "idle", or "sampled" while a record is being made
  rec,       \* the record: words as read, what they decode to, the time stamp
  shown,     \* history: the last record accepted, as the consumer reads it
  age        \* history: ticks since then, up to Half

clock == <<tick, synced>>
device == <<exponent, known, fails, online, baseline>>
vars == <<mode, clock, device, pc, rec, shown, age>>

Registers == {"vin", "vout"}
Deadband(r) == IF r = "vin" THEN VinDeadband ELSE VoutDeadband

(***************************************************************************)
(* pmbus_decode.c.                                                         *)
(***************************************************************************)
\* The low n bits of w, two's complement.
Signed(w, n) == LET x == w % 2^n IN IF x < 2^(n - 1) THEN x ELSE x - 2^n

Mantissa(w) == Signed(w, 11)
Exponent(w) == Signed(w \div 2048, 5)
ModeExponent(byte) == IF byte \div 32 # 0 THEN 0 ELSE Signed(byte, 5)

\* x / 2^k to the nearest integer, halves away from zero.
Scaled(x, k) ==
  IF x >= 0 THEN (x + 2^(k - 1)) \div 2^k ELSE -((-x + 2^(k - 1)) \div 2^k)
Milli(m, e) == IF e >= 0 THEN m * 2^e * 1000 ELSE Scaled(m * 1000, -e)

\* fmt_milli_2dp, and for the temperature one digit less: the rest is cut off,
\* the sign kept.
VoutDigit == 10
Printed(milli, digit) ==
  IF milli >= 0 THEN milli \div digit ELSE -((-milli) \div digit)

(***************************************************************************)
(* wallclock.c.  A time stamp is the tick count, or the tick count plus    *)
(* the offset; only which of the two is kept.                              *)
(***************************************************************************)
Now == IF synced THEN "epoch" ELSE "uptime"

\* The SNTP callback, in lwIP's thread.
wallclock_sntp_set_time ==
  /\ synced' = TRUE
  /\ UNCHANGED <<mode, tick, device, pc, rec, shown, age>>

Tick ==
  /\ tick' = (tick + 1) % (2 * Half)
  /\ age' = IF age < Half THEN age + 1 ELSE age
  /\ UNCHANGED <<mode, synced, device, pc, rec, shown>>

\* Another device at the same address: its VOUT_MODE may differ.
Replaced ==
  /\ mode' \in Modes
  /\ UNCHANGED <<clock, device, pc, rec, shown, age>>

(***************************************************************************)
(* poll_telemetry, up to the first half of the time stamp.                 *)
(***************************************************************************)
NoRecord == [mask |-> {}, vin |-> 0, vout |-> 0, word |-> [r \in Registers |-> 0],
             scale |-> 0, stamp |-> "uptime"]

\* read_vout_mode, when the exponent is not known and a retry is due.
ReadVoutMode ==
  \/ ~known /\ known' = TRUE /\ exponent' = ModeExponent(mode)
  \/ UNCHANGED <<known, exponent>>

\* scale is the exponent the device had in mind.
Sample ==
  /\ pc = "idle" /\ pc' = "sampled"
  /\ ReadVoutMode
  /\ \E mask \in SUBSET Registers, vin \in VinWords, vout \in VoutWords :
       rec' = [mask |-> mask,
               vin |-> IF "vin" \in mask THEN Milli(Mantissa(vin), Exponent(vin)) ELSE 0,
               vout |-> IF "vout" \in mask THEN Milli(vout, exponent') ELSE 0,
               word |-> [r \in Registers |-> IF r \notin mask THEN 0
                                             ELSE IF r = "vin" THEN vin ELSE vout],
               scale |-> ModeExponent(mode),
               stamp |-> Now]
  /\ UNCHANGED <<mode, clock, fails, online, baseline, shown, age>>

(***************************************************************************)
(* The rest: wallclock_is_synced, the fail counter, the transition, the    *)
(* filter and the post.                                                    *)
(***************************************************************************)
NoBaseline == [have |-> FALSE, mask |-> {}, vin |-> 0, vout |-> 0, at |-> 0]

Answered == rec.mask # {}
Done == pc = "sampled" /\ pc' = "idle" /\ rec' = NoRecord

\* check_online_transition, after the counter: the baseline a filter sees.
Counted ==
  /\ fails' = IF Answered THEN 0 ELSE IF fails < Threshold THEN fails + 1 ELSE fails
  /\ online' = (Answered \/ (online /\ fails' < Threshold))
Base == IF Answered /\ ~online THEN NoBaseline ELSE baseline

\* (int32_t)(now - last_emit_tick) >= heartbeat
HeartbeatDueUnsigned == tick >= Base.at + Heartbeat
HeartbeatDue == (tick - Base.at) % (2 * Half) \in Heartbeat .. Half - 1

Moved(r) == LET d == rec[r] - Base[r] IN (IF d >= 0 THEN d ELSE -d) >= Deadband(r)

\* pf_should_emit_telemetry, with the filter enabled.
Emits ==
  \/ ~Base.have \/ rec.mask # Base.mask
  \/ HeartbeatDue
  \/ \E r \in rec.mask : Moved(r)

Advanced == [have |-> TRUE, mask |-> rec.mask, vin |-> rec.vin, vout |-> rec.vout,
             at |-> tick]
BaselineDroppedAdvanced == Advanced
BaselineDropped == Base

\* An empty record is not offered.
NothingRead ==
  /\ ~Answered /\ Done /\ Counted
  /\ UNCHANGED <<mode, clock, exponent, known, baseline, shown, age>>

Suppressed ==
  /\ Answered /\ ~Emits /\ Done /\ Counted
  /\ baseline' = Base
  /\ UNCHANGED <<mode, clock, exponent, known, shown, age>>

\* The queue takes the record, or the rescue ring does.
LabelMissing == FALSE
Label == synced
Posted ==
  /\ Answered /\ Emits /\ Done /\ Counted
  /\ baseline' = Advanced
  /\ shown' = [mask |-> rec.mask, vin |-> Printed(rec.vin, VinDigit),
               vout |-> Printed(rec.vout, VoutDigit), stamp |-> rec.stamp, synced |-> Label]
  /\ age' = 0
  /\ UNCHANGED <<mode, clock, exponent, known>>

Dropped ==
  /\ Answered /\ Emits /\ Done /\ Counted
  /\ baseline' = BaselineDropped
  /\ UNCHANGED <<mode, clock, exponent, known, shown, age>>

(***************************************************************************)
(* Specification.                                                          *)
(***************************************************************************)
Init ==
  /\ mode \in Modes /\ tick = 0 /\ synced = FALSE
  /\ exponent = -12 /\ known = FALSE
  /\ fails = 0 /\ online = FALSE /\ baseline = NoBaseline
  /\ pc = "idle" /\ rec = NoRecord
  /\ shown = [mask |-> {}, vin |-> 0, vout |-> 0, stamp |-> "uptime", synced |-> FALSE]
  /\ age = 0

Next ==
  \/ wallclock_sntp_set_time \/ Tick \/ Replaced
  \/ Sample \/ NothingRead \/ Suppressed \/ Posted \/ Dropped

Spec == Init /\ [][Next]_vars

(***************************************************************************)
(* Properties.                                                             *)
(***************************************************************************)
Stamps == {"uptime", "epoch"}

\* Types; a device that has failed Threshold polls in a row is offline.
TypeOK ==
  /\ mode \in Modes /\ tick \in 0 .. 2 * Half - 1
  /\ synced \in BOOLEAN
  /\ exponent \in -16 .. 15 /\ known \in BOOLEAN
  /\ fails \in 0 .. Threshold /\ online \in BOOLEAN
  /\ fails = Threshold => ~online
  /\ baseline \in [have : BOOLEAN, mask : SUBSET Registers, vin : Int, vout : Nat,
                   at : 0 .. 2 * Half - 1]
  /\ pc \in {"idle", "sampled"}
  /\ rec \in [mask : SUBSET Registers, vin : Int, vout : Nat,
              word : [Registers -> Words], scale : -16 .. 15, stamp : Stamps]
  /\ shown \in [mask : SUBSET Registers, vin : Int, vout : Nat, stamp : Stamps,
                synced : BOOLEAN]
  /\ age \in 0 .. Half

\* |thousandths - m * 1000 * 2^e| is below the limit.
Within(thousandths, m, e, limit) ==
  LET k == IF e < 0 THEN -e ELSE 0
      d == thousandths * 2^k - (IF e < 0 THEN m ELSE m * 2^e) * 1000
  IN d < limit * 2^k /\ -d < limit * 2^k

\* The device's value of register r lies within a deadband, and the digit the
\* JSON cuts off, of what the consumer was last told.
Tracks(r) ==
  /\ r \in shown'.mask
  /\ IF r = "vin"
     THEN Within(shown'.vin * VinDigit, Mantissa(rec.word.vin),
                 Exponent(rec.word.vin), VinDeadband + VinDigit)
     ELSE Within(shown'.vout * VoutDigit, rec.word.vout, rec.scale,
                 VoutDeadband + VoutDigit)

\* End to end: after a poll whose record was not lost, posted or suppressed,
\* what the consumer last read is true of every register that answered -
\* through drops, registers that come and go, and absences of the device.
\* VOUT is excepted while the cached exponent is not the device's.
ReportedTracks ==
  [][Suppressed \/ Posted =>
       \A r \in rec.mask : (r = "vout" /\ exponent # rec.scale) \/ Tracks(r)]_vars

\* The filter does not keep a device silent for a heartbeat or longer, whatever
\* the tick count does meanwhile - unless nothing was accepted for half its
\* range, when the signed difference turns negative.
SilenceBounded == [][Suppressed => age < Heartbeat \/ age = Half]_vars

\* "false when ts_ms is an uptime-ms fallback" (docs/mqtt_topics.md:100): a
\* record that says it has no epoch has none, although the stamp and its label
\* are read apart and SNTP may answer in between.
UnsyncedIsUptime == ~shown.synced => shown.stamp = "uptime"
=============================================================================
