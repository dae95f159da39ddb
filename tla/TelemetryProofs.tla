-------------------------- MODULE TelemetryProofs --------------------------
(***************************************************************************)
(* What Telemetry promises, for every tick range, heartbeat, deadband and  *)
(* set of words: a filter that compares wrapped tick counts keeps nobody   *)
(* silent, a stamp without an epoch is labelled, and after the rounding,   *)
(* the deadband and the digit cut off the consumer still reads what the    *)
(* device measured.                                                        *)
(***************************************************************************)
EXTENDS Telemetry, TLAPS

(***************************************************************************)
(* The time stamp and its label.                                           *)
(***************************************************************************)
\* An epoch in a record under way means that SNTP has answered, and that is
\* never taken back.
Stamped ==
  /\ rec.stamp \in Stamps /\ (rec.stamp = "epoch" => synced)
  /\ UnsyncedIsUptime

\* Nothing has a stamp at first.
LEMMA StampedInit == ASSUME Init PROVE Stamped
BY DEF Init, Stamped, Stamps, UnsyncedIsUptime, NoRecord

\* The stamp is read before its label, and SNTP only ever answers.
LEMMA StampedStep == ASSUME Stamped, [Next]_vars PROVE Stamped'
<1> USE DEF Stamped, UnsyncedIsUptime
<1>1. CASE wallclock_sntp_set_time
  BY <1>1 DEF wallclock_sntp_set_time
<1>2. CASE Tick \/ Replaced
  BY <1>2 DEF Tick, Replaced, clock
<1>3. CASE Sample
  <2>1. rec'.stamp = Now
    BY <1>3 DEF Sample
  <2>2. UNCHANGED <<synced, shown>>
    BY <1>3 DEF Sample, clock
  <2>3. QED BY <2>1, <2>2 DEF Now, Stamps
<1>4. CASE NothingRead \/ Suppressed \/ Dropped
  BY <1>4 DEF NothingRead, Suppressed, Dropped, Done, NoRecord, Stamps, clock
<1>5. CASE Posted
  <2>1. shown'.stamp = rec.stamp /\ shown'.synced = synced
    BY <1>5 DEF Posted, Label
  <2>2. rec'.stamp = "uptime"
    BY <1>5 DEF Posted, Done, NoRecord
  <2>3. QED BY <2>1, <2>2 DEF Stamps
<1>6. CASE UNCHANGED vars
  BY <1>6 DEF vars, clock
<1>7. QED BY <1>1, <1>2, <1>3, <1>4, <1>5, <1>6 DEF Next

\* Whenever SNTP answers, a record that says it has no epoch has none
\* (docs/mqtt_topics.md:100).
THEOREM UnsyncedIsUptimeCorrect == Spec => []UnsyncedIsUptime
<1>1. Init => Stamped
  BY StampedInit
<1>2. Stamped /\ [Next]_vars => Stamped'
  BY StampedStep
<1>3. Stamped => UnsyncedIsUptime
  BY DEF Stamped
<1>4. QED BY <1>1, <1>2, <1>3, PTL DEF Spec

(***************************************************************************)
(* The heartbeat.                                                          *)
(***************************************************************************)
\* The difference of two tick counts, as the code takes it.
LEMMA Difference ==
  ASSUME NEW t \in 0 .. 2 * Half - 1, NEW u \in 0 .. 2 * Half - 1
  PROVE  (t - u) % (2 * Half) = IF t >= u THEN t - u ELSE t - u + 2 * Half
<1>1. CASE t >= u
  BY <1>1, TimeAssumption
<1>2. CASE t < u
  BY <1>2, TimeAssumption
<1>3. QED BY <1>1, <1>2, TimeAssumption

\* The tick count wraps.
LEMMA NextTick ==
  ASSUME NEW t \in 0 .. 2 * Half - 1
  PROVE  (t + 1) % (2 * Half) = IF t = 2 * Half - 1 THEN 0 ELSE t + 1
<1>1. CASE t = 2 * Half - 1
  BY <1>1, TimeAssumption
<1>2. CASE t < 2 * Half - 1
  BY <1>2, TimeAssumption
<1>3. QED BY <1>1, <1>2, TimeAssumption

\* Counters are in range, and the tick count of a baseline is as old as the last
\* record the consumer got, for as long as a signed difference can tell.
Clocks ==
  /\ tick \in 0 .. 2 * Half - 1 /\ age \in 0 .. Half
  /\ baseline.at \in 0 .. 2 * Half - 1
Aged ==
  baseline.have /\ age < Half =>
    age = IF tick >= baseline.at THEN tick - baseline.at
                                 ELSE tick - baseline.at + 2 * Half
Timed == Clocks /\ Aged

\* No baseline, no age.
LEMMA TimedInit == ASSUME Init PROVE Timed
BY TimeAssumption DEF Init, Timed, Clocks, Aged, NoBaseline

\* Time passes for the baseline as for the tick count.
LEMMA TimedTick == ASSUME Timed, Tick PROVE Timed'
<1> USE TimeAssumption DEF Timed, Clocks, Aged
<1>1. tick' = IF tick = 2 * Half - 1 THEN 0 ELSE tick + 1
  BY NextTick DEF Tick
<1>2. baseline' = baseline
  BY DEF Tick, device
<1>3. age' = IF age < Half THEN age + 1 ELSE age
  BY DEF Tick
<1>4. Clocks'
  BY <1>1, <1>2, <1>3
<1>5. Aged'
  BY <1>1, <1>2, <1>3
<1>6. QED BY <1>4, <1>5

\* A device that comes back starts without a baseline.
LEMMA TimedBase ==
  ASSUME Timed, baseline' = Base, UNCHANGED <<tick, age>>
  PROVE  Timed'
<1>1. CASE Base = baseline
  BY <1>1 DEF Timed, Clocks, Aged
<1>2. CASE Base = NoBaseline
  BY <1>2, TimeAssumption DEF Timed, Clocks, Aged, NoBaseline
<1>3. QED BY <1>1, <1>2 DEF Base

\* The other steps.
LEMMA TimedStep == ASSUME Timed, [Next]_vars PROVE Timed'
<1>1. CASE Tick
  BY <1>1, TimedTick
<1>2. CASE wallclock_sntp_set_time \/ Replaced \/ Sample \/ NothingRead
  BY <1>2 DEF wallclock_sntp_set_time, Replaced, Sample, NothingRead,
              clock, device, Timed, Clocks, Aged
<1>3. CASE Suppressed \/ Dropped
  BY <1>3, TimedBase DEF Suppressed, Dropped, BaselineDropped, clock
<1>4. CASE Posted
  <2>1. baseline'.at = tick /\ baseline'.have /\ age' = 0 /\ tick' = tick
    BY <1>4 DEF Posted, Advanced, clock
  <2>2. QED BY <2>1, TimeAssumption DEF Timed, Clocks, Aged
<1>5. CASE UNCHANGED vars
  BY <1>5 DEF vars, clock, device, Timed, Clocks, Aged
<1>6. QED BY <1>1, <1>2, <1>3, <1>4, <1>5 DEF Next

\* A record is held back only against a baseline whose heartbeat is not due.
LEMMA SuppressedEarly ==
  ASSUME Timed, Suppressed
  PROVE  age < Heartbeat \/ age = Half
<1>1. Base.have /\ ~HeartbeatDue
  BY DEF Suppressed, Emits
<1>2. Base = baseline
  BY <1>1 DEF Base, NoBaseline
<1>3. SUFFICES ASSUME age < Half PROVE age < Heartbeat
  BY TimeAssumption DEF Timed, Clocks
<1>4. (tick - Base.at) % (2 * Half) = age
  <2>1. (tick - baseline.at) % (2 * Half)
          = IF tick >= baseline.at THEN tick - baseline.at
                                   ELSE tick - baseline.at + 2 * Half
    BY Difference, TimeAssumption DEF Timed, Clocks
  <2>2. QED BY <1>1, <1>2, <1>3, <2>1 DEF Timed, Aged
<1>5. age \notin Heartbeat .. Half - 1
  BY <1>1, <1>4 DEF HeartbeatDue
<1>6. QED BY <1>3, <1>5, TimeAssumption DEF Timed, Clocks

\* For every heartbeat below half the tick range, wherever the tick count wraps:
\* the filter keeps a device silent for less than a heartbeat.
THEOREM SilenceBoundedCorrect == Spec => SilenceBounded
<1>1. Init => Timed
  BY TimedInit
<1>2. Timed /\ [Next]_vars => Timed'
  BY TimedStep
<1>3. Timed /\ [Next]_vars => [Suppressed => age < Heartbeat \/ age = Half]_vars
  BY SuppressedEarly
<1>4. QED BY <1>1, <1>2, <1>3, PTL DEF Spec, SilenceBounded

(***************************************************************************)
(* What the conversions lose.                                              *)
(***************************************************************************)
\* Powers of two, as far as the exponents of PMBus go.
Two(k) == 2^k

\* They double.
LEMMA Powers ==
  ASSUME NEW k \in 1 .. 16
  PROVE  /\ Two(0) = 1 /\ Two(k) = 2 * Two(k - 1)
         /\ Two(k - 1) \in Nat /\ Two(k - 1) > 0 /\ Two(k) \in Nat /\ Two(k) > 0
<1>1. /\ Two(0) = 1 /\ Two(1) = 2 /\ Two(2) = 4 /\ Two(3) = 8 /\ Two(4) = 16
      /\ Two(5) = 32 /\ Two(6) = 64 /\ Two(7) = 128 /\ Two(8) = 256 /\ Two(9) = 512
      /\ Two(10) = 1024 /\ Two(11) = 2048 /\ Two(12) = 4096 /\ Two(13) = 8192
      /\ Two(14) = 16384 /\ Two(15) = 32768 /\ Two(16) = 65536
  BY DEF Two
<1>2. CASE k \in 1 .. 8
  <2>1. k \in {1, 2, 3, 4, 5, 6, 7, 8}
    BY <1>2
  <2>2. QED BY <1>1, <2>1
<1>3. CASE k \in 9 .. 16
  <2>1. k \in {9, 10, 11, 12, 13, 14, 15, 16}
    BY <1>3
  <2>2. QED BY <1>1, <2>1
<1>4. QED BY <1>2, <1>3

\* Integer division.
LEMMA Division ==
  ASSUME NEW a \in Int, NEW p \in Nat, p > 0
  PROVE  (a \div p) \in Int /\ (a \div p) * p <= a /\ a < (a \div p) * p + p
<1> DEFINE q == a \div p
           r == a % p
<1>1. r = a - p * q
  BY SMT
<1>2. q \in Int /\ r \in 0 .. p - 1
  BY SMT
<1> HIDE DEF q, r
<1>3. p * q = q * p /\ q * p \in Int
  BY <1>2
<1>4. q * p <= a /\ a < q * p + p
  BY <1>1, <1>2, <1>3
<1>5. QED BY <1>2, <1>4 DEF q

\* Rounding is off by half at most.
LEMMA ScaledNear ==
  ASSUME NEW x \in Int, NEW k \in 1 .. 16
  PROVE  /\ Scaled(x, k) \in Int
         /\ 2 * (Scaled(x, k) * Two(k) - x) <= Two(k)
         /\ 2 * (x - Scaled(x, k) * Two(k)) <= Two(k)
<1>1. PICK h \in Nat, p \in Nat : h = Two(k - 1) /\ h > 0 /\ p = Two(k) /\ p = 2 * h
  BY Powers
<1>2. Scaled(x, k) = IF x >= 0 THEN (x + h) \div p ELSE -((-x + h) \div p)
  BY <1>1, Zenon DEF Scaled, Two
<1>3. CASE x >= 0
  <2>1. PICK a \in Int : a = x + h
    BY <1>1
  <2>2. (a \div p) \in Int /\ (a \div p) * p <= a /\ a < (a \div p) * p + p
    BY <1>1, Division
  <2>3. PICK q \in Int : q = a \div p /\ q * p <= a /\ a < q * p + p
    BY <2>2
  <2>4. Scaled(x, k) = q
    BY <1>2, <1>3, <2>1, <2>3
  <2>5. q * p \in Int
    BY <1>1
  <2>6. 2 * (q * p - x) <= p /\ 2 * (x - q * p) <= p
    BY <1>1, <2>1, <2>3, <2>5
  <2>7. QED BY <1>1, <2>4, <2>6
<1>4. CASE x < 0
  <2>1. PICK a \in Int : a = -x + h
    BY <1>1
  <2>2. (a \div p) \in Int /\ (a \div p) * p <= a /\ a < (a \div p) * p + p
    BY <1>1, Division
  <2>3. PICK q \in Int : q = a \div p /\ q * p <= a /\ a < q * p + p
    BY <2>2
  <2>4. Scaled(x, k) = -q
    <3>1. ~(x >= 0)
      BY <1>4
    <3>2. QED BY <1>2, <2>1, <2>3, <3>1
  <2>5. q * p \in Int /\ (-q) * p = -(q * p)
    BY <1>1
  <2>6. 2 * ((-q) * p - x) <= p /\ 2 * (x - (-q) * p) <= p
    BY <1>1, <2>1, <2>3, <2>5
  <2>7. QED BY <1>1, <2>4, <2>6
<1>5. QED BY <1>3, <1>4

\* What the last digit printed may be worth.
Digits == {10, 100}

\* Cutting digits off loses less than the last one printed.
LEMMA PrintedNear ==
  ASSUME NEW v \in Int, NEW d \in Digits
  PROVE  /\ Printed(v, d) * d \in Int
         /\ Printed(v, d) * d - v < d /\ v - Printed(v, d) * d < d
<1>1. CASE d = 10
  <2>1. PICK q \in Int : q = (-v) \div 10 /\ q * 10 <= -v /\ -v < q * 10 + 10
    BY Division
  <2>2. CASE v >= 0
    BY <1>1, <2>2 DEF Printed
  <2>3. CASE v < 0
    <3>1. Printed(v, d) = -q
      BY <1>1, <2>1, <2>3 DEF Printed
    <3>2. QED BY <1>1, <2>1, <3>1
  <2>4. QED BY <2>2, <2>3
<1>2. CASE d = 100
  <2>1. PICK q \in Int : q = (-v) \div 100 /\ q * 100 <= -v /\ -v < q * 100 + 100
    BY Division
  <2>2. CASE v >= 0
    BY <1>2, <2>2 DEF Printed
  <2>3. CASE v < 0
    <3>1. Printed(v, d) = -q
      BY <1>2, <2>1, <2>3 DEF Printed
    <3>2. QED BY <1>2, <2>1, <3>1
  <2>4. QED BY <2>2, <2>3
<1>3. QED BY <1>1, <1>2 DEF Digits

\* A number y that is x / p rounded, and another less than h from it.
LEMMA RoundedGap ==
  ASSUME NEW a \in Int, NEW y \in Int, NEW x \in Int, NEW p \in Nat, p > 0, NEW h \in Nat,
         a - y < h, y - a < h, 2 * (y * p - x) <= p, 2 * (x - y * p) <= p
  PROVE  a * p - x < h * p /\ -(a * p - x) < h * p
<1>1. (h - 1 - (a - y)) * p >= 0 /\ (h - 1 - (y - a)) * p >= 0
  OBVIOUS
<1>2. /\ (h - 1 - (a - y)) * p = h * p - p - a * p + y * p
      /\ (h - 1 - (y - a)) * p = h * p - p - y * p + a * p
      /\ a * p \in Int /\ y * p \in Int /\ h * p \in Int
  OBVIOUS
<1>3. QED BY <1>1, <1>2

\* The number shown for a baseline tracks a reading within the deadband of it.
LEMMA NearWithin ==
  ASSUME NEW m \in Int, NEW e \in -16 .. 15, NEW base \in Int, NEW deadband \in Nat,
         NEW digit \in Digits,
         \/ base = Milli(m, e)
         \/ base - Milli(m, e) < deadband /\ Milli(m, e) - base < deadband
  PROVE  Within(Printed(base, digit) * digit, m, e, deadband + digit)
<1>1. PICK a \in Int : a = Printed(base, digit) * digit /\ a - base < digit /\ base - a < digit
  BY PrintedNear
<1>2. PICK near : near = Milli(m, e)
  OBVIOUS
<1>3. PICK h \in Nat : h = deadband + digit
  BY DEF Digits
<1>4. near \in Int => a - near < h /\ near - a < h
  <2>1. base = near \/ (base - near < deadband /\ near - base < deadband)
    BY <1>2
  <2>2. digit \in Nat /\ digit > 0
    BY DEF Digits
  <2>3. QED BY <1>1, <1>3, <2>1, <2>2
<1>5. near = IF e >= 0 THEN m * Two(e) * 1000 ELSE Scaled(m * 1000, -e)
  BY <1>2, Zenon DEF Milli, Two
<1> DEFINE k == IF e < 0 THEN -e ELSE 0
<1>6. k = IF e < 0 THEN -e ELSE 0
  OBVIOUS
<1>7. Within(a, m, e, h)
        = (/\ a * Two(k) - (IF e < 0 THEN m ELSE m * Two(e)) * 1000 < h * Two(k)
           /\ -(a * Two(k) - (IF e < 0 THEN m ELSE m * Two(e)) * 1000) < h * Two(k))
  BY Zenon DEF Within, Two
<1> HIDE DEF k
<1>8. CASE e >= 0
  <2>1. Two(0) = 1 /\ (e \in 1 .. 16 => Two(e) \in Nat)
    BY Powers
  <2>2. Two(e) \in Nat
    BY <1>8, <2>1
  <2>3. PICK v \in Int : v = m * Two(e)
    BY <2>2
  <2>4. near = v * 1000 /\ k = 0
    BY <1>5, <1>6, <1>8, <2>3
  <2>5. a - v * 1000 < h /\ -(a - v * 1000) < h
    BY <1>4, <2>4
  <2>6. /\ a * Two(k) - v * 1000 < h * Two(k) /\ -(a * Two(k) - v * 1000) < h * Two(k)
    BY <2>1, <2>4, <2>5
  <2>7. (IF e < 0 THEN m ELSE m * Two(e)) = v
    BY <1>8, <2>3
  <2>8. Within(a, m, e, h)
    BY <1>7, <2>6, <2>7, Zenon
  <2>9. QED BY <1>1, <1>3, <2>8
<1>9. CASE e < 0
  <2>1. k \in 1 .. 16 /\ k = -e
    BY <1>6, <1>9
  <2>2. PICK p \in Nat : p = Two(k) /\ p > 0
    BY <2>1, Powers
  <2>3. PICK x \in Int : x = m * 1000
    OBVIOUS
  <2>4. Scaled(x, k) \in Int /\ 2 * (Scaled(x, k) * p - x) <= p /\ 2 * (x - Scaled(x, k) * p) <= p
    BY <2>1, <2>2, ScaledNear
  <2>5. ~(e >= 0)
    BY <1>9
  <2>6. near = Scaled(x, k)
    BY <1>5, <2>1, <2>3, <2>5
  <2>7. PICK y \in Int : y = near /\ 2 * (y * p - x) <= p /\ 2 * (x - y * p) <= p
    BY <2>4, <2>6
  <2>8. a - y < h /\ y - a < h
    BY <1>4, <2>7
  <2>9. a * p - x < h * p /\ -(a * p - x) < h * p
    BY <2>2, <2>7, <2>8, RoundedGap
  <2>10. /\ a * Two(k) - (IF e < 0 THEN m ELSE m * Two(e)) * 1000 < h * Two(k)
         /\ -(a * Two(k) - (IF e < 0 THEN m ELSE m * Two(e)) * 1000) < h * Two(k)
    BY <1>9, <2>2, <2>3, <2>9
  <2>11. Within(a, m, e, h)
    BY <1>7, <2>10, Zenon
  <2>12. QED BY <1>1, <1>3, <2>11
<1>10. QED BY <1>8, <1>9

(***************************************************************************)
(* What is read, and what was last shown.                                  *)
(***************************************************************************)
Exponents == -16 .. 15

\* What the registers of a device may hold.
LEMMA WordTypes ==
  /\ Words \subseteq Nat /\ Bytes \subseteq Nat /\ 0 \in Words
  /\ VinWords \subseteq Words /\ VoutWords \subseteq Words /\ Modes \subseteq Bytes
  /\ VinDeadband \in Nat /\ VoutDeadband \in Nat
<1>1. 2^16 = 65536 /\ 2^8 = 256
  OBVIOUS
<1>2. PICK n \in Nat, k \in Nat : n = 2^16 - 1 /\ k = 2^8 - 1
  BY <1>1
<1>3. Words = 0 .. n /\ Bytes = 0 .. k
  BY <1>2 DEF Words, Bytes
<1>4. QED BY <1>3, TelemetryAssumption

\* Two's complement of 11 and of 5 bits.
LEMMA SignedRange ==
  ASSUME NEW w \in Nat
  PROVE  Signed(w, 11) \in Int /\ Signed(w, 5) \in Exponents
<1>1. 2^11 = 2048 /\ 2^(11 - 1) = 1024 /\ 2^5 = 32 /\ 2^(5 - 1) = 16
  OBVIOUS
<1>2. Signed(w, 11) = LET x == w % 2048 IN IF x < 1024 THEN x ELSE x - 2048
  BY <1>1 DEF Signed
<1>3. Signed(w, 5) = LET x == w % 32 IN IF x < 16 THEN x ELSE x - 32
  BY <1>1 DEF Signed
<1>4. w % 2048 \in Nat /\ w % 32 \in Nat /\ w % 32 < 32
  OBVIOUS
<1>5. QED BY <1>2, <1>3, <1>4 DEF Exponents

\* ... and what they decode to.
LEMMA DecodedTypes ==
  /\ \A w \in Words : Mantissa(w) \in Int /\ Exponent(w) \in Exponents
  /\ \A byte \in Bytes : ModeExponent(byte) \in Exponents
<1>1. 0 \in Exponents
  BY DEF Exponents
<1>2. ASSUME NEW w \in Words PROVE Mantissa(w) \in Int /\ Exponent(w) \in Exponents
  <2>1. w \in Nat
    BY WordTypes
  <2>2. w \div 2048 \in Nat
    BY <2>1
  <2>3. QED BY <2>1, <2>2, SignedRange DEF Mantissa, Exponent
<1>3. ASSUME NEW byte \in Bytes PROVE ModeExponent(byte) \in Exponents
  BY <1>1, WordTypes, SignedRange DEF ModeExponent
<1>4. QED BY <1>2, <1>3

\* Thousandths are an integer.
LEMMA MilliType ==
  ASSUME NEW m \in Int, NEW e \in Exponents PROVE Milli(m, e) \in Int
<1>1. Milli(m, e) = IF e >= 0 THEN m * Two(e) * 1000 ELSE Scaled(m * 1000, -e)
  BY Zenon DEF Milli, Two
<1>2. CASE e >= 0
  <2>1. Two(0) = 1 /\ (e \in 1 .. 16 => Two(e) \in Nat)
    BY Powers
  <2>2. Two(e) \in Nat
    BY <1>2, <2>1 DEF Exponents
  <2>3. QED BY <1>1, <1>2, <2>2
<1>3. CASE e < 0
  <2>1. -e \in 1 .. 16 /\ m * 1000 \in Int /\ ~(e >= 0)
    BY <1>3 DEF Exponents
  <2>2. PICK x \in Int, k \in 1 .. 16 : x = m * 1000 /\ k = -e
    BY <2>1
  <2>3. Scaled(x, k) \in Int
    BY ScaledNear
  <2>4. QED BY <1>1, <2>1, <2>2, <2>3
<1>4. QED BY <1>2, <1>3 DEF Exponents

\* A record under way holds what its words decode to; the exponent of VOUT is
\* not read again before it is done.
Decoded ==
  /\ rec.mask \subseteq Registers /\ exponent \in Exponents /\ rec.scale \in Exponents
  /\ rec.vin \in Int /\ rec.vout \in Int
  /\ rec.word.vin \in Words /\ rec.word.vout \in Words
  /\ "vin" \in rec.mask =>
       rec.vin = Milli(Mantissa(rec.word.vin), Exponent(rec.word.vin))
  /\ "vout" \in rec.mask => rec.vout = Milli(rec.word.vout, exponent)
\* The filter compares with what the consumer was last shown.
BaselineShown ==
  /\ baseline.vin \in Int /\ baseline.vout \in Int
  /\ baseline.have => /\ shown.mask = baseline.mask
                      /\ shown.vin = Printed(baseline.vin, VinDigit)
                      /\ shown.vout = Printed(baseline.vout, VoutDigit)

\* The end of a record.
LEMMA NoRecordDecoded ==
  ASSUME Decoded, rec' = NoRecord, UNCHANGED exponent PROVE Decoded'
BY WordTypes DEF Decoded, NoRecord, Registers, Exponents

\* Both hold before the first poll.
LEMMA InitDecoded ==
  ASSUME Init PROVE Decoded /\ BaselineShown
BY WordTypes DEF Init, Decoded, NoRecord, BaselineShown, NoBaseline, Registers, Exponents

\* poll_telemetry decodes what it reads.
LEMMA SampleDecoded == ASSUME Decoded, mode \in Modes, Sample PROVE Decoded'
<1>1. PICK mask \in SUBSET Registers, vin \in VinWords, vout \in VoutWords :
        rec' = [mask |-> mask,
                vin |-> IF "vin" \in mask THEN Milli(Mantissa(vin), Exponent(vin)) ELSE 0,
                vout |-> IF "vout" \in mask THEN Milli(vout, exponent') ELSE 0,
                word |-> [r \in Registers |-> IF r \notin mask THEN 0
                                              ELSE IF r = "vin" THEN vin ELSE vout],
                scale |-> ModeExponent(mode),
                stamp |-> Now]
  BY DEF Sample
<1>2. vin \in Words /\ vout \in Words /\ mode \in Bytes /\ 0 \in Words
  BY WordTypes
<1>3. Mantissa(vin) \in Int /\ Exponent(vin) \in Exponents /\ ModeExponent(mode) \in Exponents
  BY <1>2, DecodedTypes
<1>4. exponent' \in Exponents
  BY <1>3 DEF Sample, ReadVoutMode, Decoded
<1>5. Milli(Mantissa(vin), Exponent(vin)) \in Int /\ Milli(vout, exponent') \in Int
  <2>1. vout \in Int
    BY <1>2, WordTypes
  <2>2. QED BY <1>3, <1>4, <2>1, MilliType
<1>6. /\ rec'.mask = mask /\ rec'.scale = ModeExponent(mode)
      /\ rec'.vin = (IF "vin" \in mask THEN Milli(Mantissa(vin), Exponent(vin)) ELSE 0)
      /\ rec'.vout = (IF "vout" \in mask THEN Milli(vout, exponent') ELSE 0)
      /\ rec'.word.vin = (IF "vin" \notin mask THEN 0 ELSE vin)
      /\ rec'.word.vout = (IF "vout" \notin mask THEN 0 ELSE vout)
  BY <1>1 DEF Registers
<1>7. QED BY <1>2, <1>3, <1>4, <1>5, <1>6 DEF Decoded

\* No step between the reading and the end of the record changes what it means.
LEMMA StepDecoded == ASSUME Decoded, mode \in Modes, [Next]_vars PROVE Decoded'
<1>1. CASE Sample
  BY <1>1, SampleDecoded
<1>2. CASE NothingRead \/ Suppressed \/ Posted \/ Dropped
  BY <1>2, NoRecordDecoded DEF NothingRead, Suppressed, Posted, Dropped, Done
<1>3. CASE wallclock_sntp_set_time \/ Tick \/ Replaced \/ UNCHANGED vars
  <2>1. UNCHANGED <<rec, exponent>>
    BY <1>3 DEF wallclock_sntp_set_time, Tick, Replaced, vars, device
  <2>2. QED BY <2>1 DEF Decoded
<1>4. QED BY <1>1, <1>2, <1>3 DEF Next

\* A device's VOUT_MODE is one of a device.
LEMMA StepMode == ASSUME mode \in Modes, [Next]_vars PROVE mode' \in Modes
BY DEF Next, wallclock_sntp_set_time, Tick, Replaced, Sample, NothingRead, Suppressed,
       Posted, Dropped, vars

\* A baseline that is dropped, or kept.
LEMMA BaseShown == ASSUME BaselineShown, baseline' = Base, UNCHANGED shown PROVE BaselineShown'
BY DEF BaselineShown, Base, NoBaseline

\* The baseline advances with the record that the consumer gets.
LEMMA StepShown == ASSUME Decoded, BaselineShown, [Next]_vars PROVE BaselineShown'
<1>1. CASE Suppressed \/ Dropped
  BY <1>1, BaseShown DEF Suppressed, Dropped, BaselineDropped
<1>2. CASE Posted
  BY <1>2 DEF Posted, Advanced, BaselineShown, Decoded
<1>3. CASE \/ wallclock_sntp_set_time \/ Tick \/ Replaced \/ Sample \/ NothingRead
           \/ UNCHANGED vars
  <2>1. UNCHANGED <<baseline, shown>>
    BY <1>3 DEF wallclock_sntp_set_time, Tick, Replaced, Sample, NothingRead, vars, device
  <2>2. QED BY <2>1 DEF BaselineShown
<1>4. QED BY <1>1, <1>2, <1>3 DEF Next

(***************************************************************************)
(* What the consumer last read is true.                                    *)
(***************************************************************************)
\* Of a reading near the value the consumer was shown.
LEMMA ShownTracks ==
  ASSUME Decoded, NEW r \in rec.mask, NEW vin \in Int, NEW vout \in Int,
         r \in shown'.mask, ~(r = "vout" /\ exponent # rec.scale),
         shown'.vin = Printed(vin, VinDigit), shown'.vout = Printed(vout, VoutDigit),
         r = "vin" => vin = rec.vin \/ (vin - rec.vin < VinDeadband /\ rec.vin - vin < VinDeadband),
         r = "vout" => vout = rec.vout
                       \/ (vout - rec.vout < VoutDeadband /\ rec.vout - vout < VoutDeadband)
  PROVE  Tracks(r)
<1>1. VinDeadband \in Nat /\ VoutDeadband \in Nat
  BY WordTypes
<1>2. CASE r = "vin"
  <2>1. PICK m \in Int, e \in Exponents :
          m = Mantissa(rec.word.vin) /\ e = Exponent(rec.word.vin) /\ rec.vin = Milli(m, e)
    <3>1. rec.word.vin \in Words
      BY DEF Decoded
    <3>2. QED BY <1>2, <3>1, DecodedTypes DEF Decoded
  <2>2. Within(Printed(vin, VinDigit) * VinDigit, m, e, VinDeadband + VinDigit)
    <3>1. PICK g \in Digits : g = VinDigit
      BY TelemetryAssumption DEF Digits
    <3>2. \/ vin = Milli(m, e)
          \/ vin - Milli(m, e) < VinDeadband /\ Milli(m, e) - vin < VinDeadband
      BY <1>2, <2>1
    <3>3. e \in -16 .. 15
      BY DEF Exponents
    <3>4. Within(Printed(vin, g) * g, m, e, VinDeadband + g)
      BY <1>1, <3>2, <3>3, NearWithin
    <3>5. QED BY <3>1, <3>4
  <2>3. QED BY <1>2, <2>1, <2>2, Zenon DEF Tracks
<1>3. CASE r = "vout"
  <2>1. /\ rec.word.vout \in Nat /\ rec.scale \in Exponents
        /\ rec.vout = Milli(rec.word.vout, rec.scale)
    <3>1. exponent = rec.scale /\ "vout" \in rec.mask
      BY <1>3
    <3>2. QED BY <3>1, WordTypes DEF Decoded
  <2>2. PICK m \in Int, e \in Exponents :
          m = rec.word.vout /\ e = rec.scale /\ rec.vout = Milli(m, e)
    BY <2>1
  <2>3. Within(Printed(vout, VoutDigit) * VoutDigit, m, e, VoutDeadband + VoutDigit)
    <3>1. PICK g \in Digits : g = VoutDigit
      BY DEF VoutDigit, Digits
    <3>2. \/ vout = Milli(m, e)
          \/ vout - Milli(m, e) < VoutDeadband /\ Milli(m, e) - vout < VoutDeadband
      BY <1>3, <2>2
    <3>3. e \in -16 .. 15
      BY DEF Exponents
    <3>4. Within(Printed(vout, g) * g, m, e, VoutDeadband + g)
      BY <1>1, <3>2, <3>3, NearWithin
    <3>5. QED BY <3>1, <3>4
  <2>4. r # "vin"
    BY <1>3
  <2>5. QED BY <1>3, <2>2, <2>3, <2>4, Zenon DEF Tracks
<1>4. QED BY <1>2, <1>3 DEF Decoded, Registers

\* The record posted is itself what the consumer reads.
LEMMA PostedTracks ==
  ASSUME Decoded, Posted, NEW r \in rec.mask, ~(r = "vout" /\ exponent # rec.scale)
  PROVE  Tracks(r)
<1>1. PICK vin \in Int, vout \in Int : vin = rec.vin /\ vout = rec.vout
  BY DEF Decoded
<1>2. r \in shown'.mask /\ shown'.vin = Printed(vin, VinDigit) /\ shown'.vout = Printed(vout, VoutDigit)
  BY <1>1 DEF Posted
<1>3. QED BY <1>1, <1>2, ShownTracks

\* A record held back is near the baseline the consumer was shown.
LEMMA SuppressedTracks ==
  ASSUME Decoded, BaselineShown, Suppressed, NEW r \in rec.mask,
         ~(r = "vout" /\ exponent # rec.scale)
  PROVE  Tracks(r)
<1>1. /\ Base.have /\ rec.mask = Base.mask /\ \A q \in rec.mask : ~Moved(q)
      /\ UNCHANGED shown
  BY DEF Suppressed, Emits
<1>2. Base = baseline
  BY <1>1 DEF Base, NoBaseline
<1>3. PICK vin \in Int, vout \in Int :
        /\ vin = baseline.vin /\ vout = baseline.vout
        /\ shown'.vin = Printed(vin, VinDigit) /\ shown'.vout = Printed(vout, VoutDigit)
  BY <1>1, <1>2 DEF BaselineShown
<1>4. r \in shown'.mask
  BY <1>1, <1>2 DEF BaselineShown
<1>5. VinDeadband \in Nat /\ VoutDeadband \in Nat
  BY WordTypes
<1>6. ~Moved(r)
  BY <1>1
<1>7. ASSUME r = "vin" PROVE vin - rec.vin < VinDeadband /\ rec.vin - vin < VinDeadband
  <2>1. ~((IF rec.vin - baseline.vin >= 0 THEN rec.vin - baseline.vin
           ELSE -(rec.vin - baseline.vin)) >= VinDeadband)
    BY <1>2, <1>6, <1>7 DEF Moved, Deadband
  <2>2. rec.vin \in Int
    BY DEF Decoded
  <2>3. QED BY <1>3, <1>5, <2>1, <2>2
<1>8. ASSUME r = "vout" PROVE vout - rec.vout < VoutDeadband /\ rec.vout - vout < VoutDeadband
  <2>1. ~((IF rec.vout - baseline.vout >= 0 THEN rec.vout - baseline.vout
           ELSE -(rec.vout - baseline.vout)) >= VoutDeadband)
    BY <1>2, <1>6, <1>8 DEF Moved, Deadband
  <2>2. rec.vout \in Int
    BY DEF Decoded
  <2>3. QED BY <1>3, <1>5, <2>1, <2>2
<1>9. QED BY <1>3, <1>4, <1>7, <1>8, ShownTracks

\* For every deadband, every exponent a device can have and every word it can
\* return: what the consumer last read is true of every register that answered,
\* up to the deadband and the digits that rounding and printing lose.
THEOREM ReportedTracksCorrect == Spec => ReportedTracks
<1> DEFINE Reading == mode \in Modes /\ Decoded /\ BaselineShown
<1>1. Init => Reading
  BY InitDecoded DEF Init
<1>2. Reading /\ [Next]_vars => Reading'
  BY StepMode, StepDecoded, StepShown
<1>3. Reading /\ [Next]_vars =>
        [Suppressed \/ Posted =>
           \A r \in rec.mask : (r = "vout" /\ exponent # rec.scale) \/ Tracks(r)]_vars
  BY PostedTracks, SuppressedTracks
<1> HIDE DEF Reading
<1>4. QED BY <1>1, <1>2, <1>3, PTL DEF Spec, ReportedTracks

=============================================================================
