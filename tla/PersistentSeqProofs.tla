------------------------ MODULE PersistentSeqProofs ------------------------
(***************************************************************************)
(* Proofs about PersistentSeq, for every number of sequence numbers, boots *)
(* and failures: its types, that the ping-pong never takes the only        *)
(* recoverable bank, how far the recovered counter can be behind, and that *)
(* no boot count is used twice.                                            *)
(***************************************************************************)
EXTENDS PersistentSeq, TLAPS

\* Sequence numbers stay below M.
LEMMA ModuloRange == ASSUME NEW n \in Int PROVE n % M \in 0 .. M - 1
  BY SeqAssumption

\* What init recovers has the type of a row, and so have the rows a write
\* leaves behind.
LEMMA RecoveredType == ASSUME TypeOK PROVE Recovered(bank) \in Row
<1>1. Invalid \in Row
  BY SeqAssumption DEF Invalid, Row
<1>2. bank[0] \in Row /\ bank[1] \in Row
  BY DEF TypeOK, Banks
<1>3. Source(bank) \in {0, 1, -1}
  BY DEF Source
<1> QED BY <1>1, <1>2, <1>3 DEF Recovered

LEMMA OutcomeType ==
  ASSUME TypeOK
  PROVE  /\ \A bs \in WriteOutcomes : bs \in [Banks -> Row]
         /\ Programmed => bank' \in [Banks -> Row]
<1>1. Invalid \in Row
  BY SeqAssumption DEF Invalid, Row
<1>2. Prepared \in Row
  BY DEF Prepared, Row, TypeOK
<1>3. bank \in [Banks -> Row]
  BY DEF TypeOK
<1> QED BY <1>1, <1>2, <1>3 DEF WriteOutcomes, Programmed

\* The initial state has the types.
LEMMA InitType == Init => TypeOK
<1>1. ASSUME Init PROVE TypeOK
  <2>1. Invalid \in Row
    BY SeqAssumption DEF Invalid, Row
  <2>2. bank \in [Banks -> Row]
    BY <1>1, <2>1 DEF Init
  <2>3. 0 \in 0 .. M - 1 /\ 0 \in Nat /\ 0 \in Banks
    BY SeqAssumption DEF Banks
  <2> QED BY <1>1, <2>2, <2>3, Zenon DEF Init, TypeOK
<1> QED BY <1>1

\* The types are inductive on their own.
LEMMA StepType == TypeOK /\ [Next]_vars => TypeOK'
<1> SUFFICES ASSUME TypeOK, [Next]_vars PROVE TypeOK'
  OBVIOUS
<1> USE DEF Banks
<1>1. CASE PowerOn
  <2>1. Recovered(bank) \in Row
    BY RecoveredType
  <2>2. /\ Recovered(bank).seq \in 0 .. M - 1
        /\ Recovered(bank).boot + 1 \in Nat
    <3> HIDE DEF Banks
    <3>1. \A r \in Row : r.seq \in 0 .. M - 1 /\ r.boot \in Nat
      BY DEF Row
    <3> QED BY <2>1, <3>1
  <2>3. WriteBank(Source(bank)) \in Banks
    BY DEF WriteBank
  <2>4. boots' \in Nat
    BY <1>1 DEF PowerOn, TypeOK
  <2>5. 0 \in Banks
    OBVIOUS
  <2> HIDE DEF Banks
  <2> QED BY <1>1, <2>2, <2>3, <2>4, <2>5, Zenon DEF PowerOn, TypeOK
<1>2. CASE InitWritten
  BY <1>2, OutcomeType DEF InitWritten, TypeOK, Other, histVars
<1>3. CASE InitFails
  BY <1>3, OutcomeType DEF InitFails, TypeOK
<1>4. CASE NextSeq
  <2>1. counter' \in 0 .. M - 1 /\ top' \in 0 .. M - 1
    BY <1>4, ModuloRange DEF NextSeq, Increment, Issue, TypeOK
  <2> QED BY <1>4, <2>1 DEF NextSeq, Issue, TypeOK
<1>5. CASE NextSeqCheckpoint
  <2>1. counter' \in 0 .. M - 1
    BY <1>5, ModuloRange DEF NextSeqCheckpoint, Increment, TypeOK
  <2> QED BY <1>5, <2>1 DEF NextSeqCheckpoint, TypeOK, histVars
<1>6. CASE CheckpointWritten
  <2>1. top' \in 0 .. M - 1
    BY <1>6, ModuloRange DEF CheckpointWritten, Issue, TypeOK
  <2> QED BY <1>6, <2>1, OutcomeType DEF CheckpointWritten, Issue, Other, TypeOK
<1>7. CASE CheckpointFails
  <2>1. top' \in 0 .. M - 1
    BY <1>7, ModuloRange DEF CheckpointFails, Issue, TypeOK
  <2> QED BY <1>7, <2>1, OutcomeType DEF CheckpointFails, Issue, TypeOK
<1>8. CASE PowerLoss
  BY <1>8, OutcomeType DEF PowerLoss, TypeOK, ramVars
<1>9. CASE UNCHANGED vars
  BY <1>9 DEF vars, ramVars, histVars, TypeOK
<1> QED BY <1>1, <1>2, <1>3, <1>4, <1>5, <1>6, <1>7, <1>8, <1>9 DEF Next

\* Every variable of the counter and its banks keeps its type, whatever fails.
THEOREM TypeCorrect == Spec => []TypeOK
<1> QED BY InitType, StepType, PTL DEF Spec

(***************************************************************************)
(* The inductive invariant: which bank is good in which state.  While the  *)
(* counter runs, s_next_bank is never the bank of the last write, and init *)
(* writes opposite the bank it recovered from.                             *)
(***************************************************************************)
Started == issuing \/ used # {}
GoodBank ==
  /\ pc = "init" => ~issuing /\ (used # {} => bank[Other(target)].valid)
  /\ pc = "run" => bank[Other(nextBank)].valid
  /\ pc = "checkpoint" => target = nextBank /\ bank[Other(target)].valid
  /\ pc = "off" /\ Started => bank[0].valid \/ bank[1].valid
Kept == TypeOK /\ (~initFailed => GoodBank)

\* Init recovers from the bank it does not write, when one is valid.
LEMMA SourceValid ==
  ASSUME bank[0].valid \/ bank[1].valid
  PROVE  bank[Other(WriteBank(Source(bank)))].valid
  BY DEF Source, PrefersA, WriteBank, Other

\* The row written is valid.
LEMMA PreparedValid ==
  ASSUME TypeOK, Programmed PROVE bank'[target].valid
  BY DEF TypeOK, Programmed, Prepared

\* A write touches its target only.
LEMMA OtherBankKept ==
  ASSUME TypeOK, NEW bs \in WriteOutcomes
  PROVE  bs[Other(target)] = bank[Other(target)]
<1>1. Other(target) # target /\ Other(target) \in Banks
  BY DEF TypeOK, Banks, Other
<1>2. bank \in [Banks -> Row]
  BY DEF TypeOK
<1> QED BY <1>1, <1>2 DEF WriteOutcomes

\* Every step keeps the good bank.
LEMMA StepKept == Kept /\ [Next]_vars => Kept'
<1> SUFFICES ASSUME TypeOK, ~initFailed => GoodBank, [Next]_vars
             PROVE  TypeOK' /\ (~initFailed' => GoodBank')
  BY DEF Kept
<1>t. TypeOK'
  BY StepType
<1> SUFFICES ASSUME ~initFailed' PROVE GoodBank'
  BY <1>t
<1>1. CASE PowerOn
  <2>1. used # {} => bank[0].valid \/ bank[1].valid
    BY <1>1 DEF PowerOn, GoodBank, Started
  <2>2. used # {} => bank[Other(target')].valid
    BY <1>1, <2>1, SourceValid DEF PowerOn
  <2> QED BY <1>1, <2>2 DEF PowerOn, GoodBank, Other
<1>2. CASE InitWritten
  <2>1. bank'[target].valid
    BY <1>2, PreparedValid DEF InitWritten
  <2>2. Other(Other(target)) = target
    BY DEF Other, TypeOK, Banks
  <2> QED BY <1>2, <2>1, <2>2 DEF InitWritten, GoodBank, Other
<1>3. CASE InitFails
  BY <1>3 DEF InitFails
<1>4. CASE NextSeq
  BY <1>4 DEF NextSeq, GoodBank, Other
<1>5. CASE NextSeqCheckpoint
  BY <1>5 DEF NextSeqCheckpoint, GoodBank, Other, histVars
<1>6. CASE CheckpointWritten
  <2>1. bank'[target].valid
    BY <1>6, PreparedValid DEF CheckpointWritten
  <2>2. Other(nextBank') = target
    BY <1>6 DEF CheckpointWritten, GoodBank, Other, TypeOK, Banks
  <2> QED BY <1>6, <2>1, <2>2 DEF CheckpointWritten, GoodBank
<1>7. CASE CheckpointFails
  <2>1. bank'[Other(target)] = bank[Other(target)]
    BY <1>7, OtherBankKept DEF CheckpointFails, Writing
  <2> QED BY <1>7, <2>1 DEF CheckpointFails, GoodBank, Other
<1>8. CASE PowerLoss
  <2>1. bank'[Other(target)] = bank[Other(target)]
    BY <1>8, OtherBankKept DEF PowerLoss
  <2>2. pc = "run" => bank' = bank
    BY <1>8 DEF PowerLoss, WriteOutcomes, Writing
  <2>3. Other(target) \in {0, 1} /\ Other(nextBank) \in {0, 1}
    BY DEF TypeOK, Banks, Other
  <2>4. ASSUME Started' PROVE bank'[0].valid \/ bank'[1].valid
    <3>1. pc = "init" => used # {}
      BY <1>8, <2>4 DEF PowerLoss, Started, GoodBank
    <3> QED BY <1>8, <2>1, <2>2, <2>3, <3>1 DEF PowerLoss, GoodBank, TypeOK
  <2> QED BY <1>8, <2>4 DEF PowerLoss, GoodBank
<1>9. CASE UNCHANGED vars
  BY <1>9 DEF vars, ramVars, histVars, GoodBank, Other, Started
<1> QED BY <1>1, <1>2, <1>3, <1>4, <1>5, <1>6, <1>7, <1>8, <1>9 DEF Next

\* The good bank is not the one a write may spoil.
LEMMA KeptSurvives == Kept => OneBankSurvives
<1> SUFFICES ASSUME TypeOK, GoodBank, Started, NEW bs \in WriteOutcomes
             PROVE  bs[0].valid \/ bs[1].valid
  BY DEF Kept, OneBankSurvives, Started
<1>1. Other(target) \in {0, 1} /\ Other(nextBank) \in {0, 1}
  BY DEF TypeOK, Banks, Other
<1>2. CASE Writing
  <2>1. bs[Other(target)] = bank[Other(target)]
    BY <1>2, OtherBankKept
  <2> QED BY <1>1, <1>2, <2>1 DEF GoodBank, Writing, Started
<1>3. CASE ~Writing
  BY <1>1, <1>3 DEF GoodBank, Writing, WriteOutcomes, TypeOK
<1> QED BY <1>2, <1>3

\* Power may fail at any moment, and checkpoints may fail: as long as no write
\* at boot has failed, one of the two banks can be recovered from.
THEOREM OneBankSurvivesCorrect == Spec => []OneBankSurvives
<1>1. Init => Kept
  BY InitType DEF Init, Kept, GoodBank, Started
<1> QED BY <1>1, StepKept, KeptSurvives, PTL DEF Spec

(***************************************************************************)
(* How far the recovered counter is behind.  Numbers are modulo M and      *)
(* checkpoints at multiples of Interval, so this needs some arithmetic.    *)
(***************************************************************************)
\* A positive multiple is no smaller than the number.
LEMMA MultipleAtLeast ==
  ASSUME NEW k \in Nat \ {0}, NEW d \in Int, d >= 1 PROVE k * d >= k
OBVIOUS

\* Quotient and remainder.
LEMMA Division ==
  ASSUME NEW n \in Nat, NEW k \in Nat \ {0}
  PROVE  \E q \in Int, r \in 0 .. k - 1 : n % k = r /\ n = k * q + r
<1> DEFINE q == n \div k
           r == n % k
<1>1. r = n - k * q
  BY SMT
<1>2. q \in Int /\ r \in 0 .. k - 1
  BY SMT
<1>3. n % k = r
  OBVIOUS
<1> HIDE DEF q, r
<1>4. n = k * q + r
  <2>1. k * q \in Int
    BY <1>2
  <2>2. QED BY <1>1, <1>2, <2>1
<1>5. QED BY <1>2, <1>3, <1>4

\* There is one remainder.
LEMMA RemainderUnique ==
  ASSUME NEW k \in Nat \ {0}, NEW p \in Int, NEW q \in Int,
         NEW r \in 0 .. k - 1, NEW s \in 0 .. k - 1, k * p + r = k * q + s
  PROVE  r = s
<1>1. k * (p - q) = s - r /\ k * (q - p) = r - s
  OBVIOUS
<1>2. CASE p - q >= 1
  <2>1. k * (p - q) >= k
    BY <1>2, MultipleAtLeast
  <2>2. QED BY <1>1, <2>1
<1>3. CASE q - p >= 1
  <2>1. k * (q - p) >= k
    BY <1>3, MultipleAtLeast
  <2>2. QED BY <1>1, <2>1
<1>4. CASE p = q
  BY <1>4
<1>5. QED BY <1>2, <1>3, <1>4

\* The remainder of the next number.
LEMMA RemainderNext ==
  ASSUME NEW n \in Nat, NEW k \in Nat \ {0}
  PROVE  (n + 1) % k = IF n % k = k - 1 THEN 0 ELSE (n % k) + 1
<1>1. PICK q \in Int, r \in 0 .. k - 1 : n % k = r /\ n = k * q + r
  BY Division
<1>2. PICK p \in Int, s \in 0 .. k - 1 : (n + 1) % k = s /\ n + 1 = k * p + s
  <2>1. n + 1 \in Nat
    OBVIOUS
  <2>2. QED BY <2>1, Division
<1>3. CASE r = k - 1
  <2>1. k * (q + 1) + 0 = k * p + s /\ 0 \in 0 .. k - 1 /\ q + 1 \in Int
    BY <1>1, <1>2, <1>3
  <2>2. s = 0
    BY <2>1, RemainderUnique
  <2>3. QED BY <1>1, <1>2, <1>3, <2>2
<1>4. CASE r # k - 1
  <2>1. k * q + (r + 1) = k * p + s /\ r + 1 \in 0 .. k - 1
    BY <1>1, <1>2, <1>4
  <2>2. s = r + 1
    BY <2>1, RemainderUnique
  <2>3. QED BY <1>1, <1>2, <1>4, <2>2
<1>5. QED BY <1>3, <1>4

\* How far sequence number b is behind a.
Gap(a, b) == (a - b) % M
Span == (fails + 1) * Interval
\* The numbers issued since the last multiple of Interval, 1 .. Interval.
Slot(n) == IF n % Interval = 0 THEN Interval ELSE n % Interval

\* A gap is the difference, or that much less than a lap.
LEMMA GapValue ==
  ASSUME NEW a \in 0 .. M - 1, NEW b \in 0 .. M - 1
  PROVE  /\ Gap(a, b) = IF a >= b THEN a - b ELSE a - b + M
         /\ Gap(a, b) \in 0 .. M - 1
BY SeqAssumption DEF Gap

\* The next number, and its slot.
LEMMA NextSlot ==
  ASSUME NEW n \in 0 .. M - 1
  PROVE  /\ (n + 1) % M = IF n = M - 1 THEN 0 ELSE n + 1
         /\ (n + 1) % M \in 0 .. M - 1
         /\ Slot(n) \in 1 .. Interval /\ Slot((n + 1) % M) \in 1 .. Interval
         /\ n % Interval = 0 => Slot(n) = Interval
         /\ n % Interval # 0 => Slot((n + 1) % M) >= Slot(n) + 1
<1> DEFINE m == (n + 1) % M
<1>1. /\ m = IF n = M - 1 THEN 0 ELSE n + 1
      /\ m \in 0 .. M - 1
  BY SeqAssumption
<1>2. ASSUME NEW x \in 0 .. M - 1 PROVE x % Interval \in 0 .. Interval - 1
  BY SeqAssumption
<1>3. ASSUME NEW x \in 0 .. M - 1 PROVE Slot(x) \in 1 .. Interval
  BY <1>2, SeqAssumption DEF Slot
<1>4. 0 % Interval = 0
  BY SeqAssumption
<1>5. (n + 1) % Interval = IF n % Interval = Interval - 1 THEN 0 ELSE (n % Interval) + 1
  <2>1. n \in Nat /\ Interval \in Nat \ {0}
    BY SeqAssumption
  <2>2. QED BY <2>1, RemainderNext, Zenon
<1>6. ASSUME n % Interval # 0 PROVE Slot(m) >= Slot(n) + 1
  <2>1. Slot(n) = n % Interval /\ Slot(n) \in 1 .. Interval - 1
    BY <1>2, <1>6, SeqAssumption DEF Slot
  <2>2. CASE n = M - 1
    <3>1. Slot(m) = Interval
      BY <1>1, <1>4, <2>2 DEF Slot
    <3>2. QED BY <2>1, <3>1, SeqAssumption
  <2>3. CASE n # M - 1
    <3>1. Slot(m) = IF (n + 1) % Interval = 0 THEN Interval ELSE (n + 1) % Interval
      BY <1>1, <2>3 DEF Slot
    <3>2. QED BY <1>5, <2>1, <3>1, SeqAssumption
  <2>4. QED BY <2>2, <2>3
<1> HIDE DEF m
<1>7. QED BY <1>1, <1>3, <1>6 DEF m, Slot

\* One number further: the counter's gap grows, and that of the numbers issued
\* grows only when the counter has caught up with them.
LEMMA GapNext ==
  ASSUME NEW n \in 0 .. M - 1, NEW t \in 0 .. M - 1, NEW x \in 0 .. M - 1,
         Gap(t, x) = Gap(t, n) + Gap(n, x), Gap(n, x) < M - 1,
         NEW m, m = (n + 1) % M, NEW u, u = IF n = t THEN m ELSE t
  PROVE  /\ m \in 0 .. M - 1 /\ u \in 0 .. M - 1
         /\ Gap(m, x) = Gap(n, x) + 1
         /\ Gap(u, x) = Gap(u, m) + Gap(m, x)
         /\ Gap(u, x) = IF n = t THEN Gap(n, x) + 1 ELSE Gap(t, x)
<1>1. m = (IF n = M - 1 THEN 0 ELSE n + 1) /\ m \in 0 .. M - 1 /\ u \in 0 .. M - 1
  BY NextSlot
<1>2. /\ Gap(t, x) = IF t >= x THEN t - x ELSE t - x + M
      /\ Gap(t, n) = IF t >= n THEN t - n ELSE t - n + M
      /\ Gap(n, x) = IF n >= x THEN n - x ELSE n - x + M
      /\ Gap(m, x) = IF m >= x THEN m - x ELSE m - x + M
      /\ Gap(u, x) = IF u >= x THEN u - x ELSE u - x + M
      /\ Gap(u, m) = IF u >= m THEN u - m ELSE u - m + M
  BY <1>1, GapValue
<1>3. M \in Nat /\ M > 1
  BY SeqAssumption
<1>4. Gap(m, x) = Gap(n, x) + 1
  BY <1>1, <1>2, <1>3
<1>5. Gap(u, x) = IF n = t THEN Gap(n, x) + 1 ELSE Gap(t, x)
  BY <1>1, <1>2, <1>3
<1>6. Gap(u, x) = Gap(u, m) + Gap(m, x)
  BY <1>1, <1>2, <1>3
<1>7. QED BY <1>1, <1>4, <1>5, <1>6

(***************************************************************************)
(* The inductive invariant.  Of the two banks, last is the one written     *)
(* last; the other is older than that by at most the span, or was written  *)
(* by a checkpoint that reported failure, in this boot.                    *)
(***************************************************************************)
\* The number to be issued next.
At == IF pc = "checkpoint" THEN seq ELSE counter
\* The spare is older, or the row of a failed checkpoint of this boot: newer than
\* the last, and not ahead of the counter.
Near(span, last, spare, at) ==
  \/ Gap(last.seq, spare.seq) <= span /\ spare.boot <= last.boot
  \/ /\ Gap(spare.seq, last.seq) <= Gap(at, last.seq)
     /\ Gap(spare.seq, last.seq) <= span /\ spare.boot = last.boot
\* From the last row to the counter to the most advanced number issued.
Trail(span, head, last, spare, at) ==
  /\ Gap(head, last.seq) = Gap(head, at) + Gap(at, last.seq)
  /\ Gap(head, last.seq) <= span
  /\ Gap(at, last.seq) + Interval <= span + Slot(at)
  /\ spare.valid => Near(span, last, spare, at)
\* While the counter runs, the last row is of this boot.
Running ==
  /\ bank[Other(nextBank)].boot = boot /\ \A u \in used : u < boot
  /\ Trail(Span, top, bank[Other(nextBank)], bank[nextBank], At)
  /\ pc = "checkpoint" => counter = (seq + 1) % M /\ seq % Interval = 0
\* What is recovered is within the span, and of the last boot that issued.
Recoverable ==
  /\ Gap(top, Recovered(bank).seq) <= Span
  /\ \A u \in used : u <= Recovered(bank).boot
\* All of it, by the state of the device.
Behind ==
  /\ fails <= MaxFails
  /\ pc \in {"off", "init"} => Recoverable
  /\ pc = "init" => /\ target = WriteBank(Source(bank))
                    /\ seq = Recovered(bank).seq /\ boot = Recovered(bank).boot + 1
  /\ pc \in {"run", "checkpoint"} => Running

\* The span grows by an interval with each failed checkpoint.
LEMMA SpanValue ==
  ASSUME TypeOK
  PROVE  /\ Span \in Nat /\ Span >= Interval
         /\ fails' = fails => Span' = Span
         /\ fails' = fails + 1 => Span' = Span + Interval
<1>1. fails \in Nat /\ Interval \in Nat /\ fails * Interval \in Nat
  BY SeqAssumption DEF TypeOK
<1>2. Span = fails * Interval + Interval
  BY <1>1 DEF Span
<1>3. fails' = fails + 1 => Span' = fails * Interval + Interval + Interval
  BY <1>1 DEF Span
<1>4. fails' = fails => Span' = Span
  BY DEF Span
<1>5. QED BY <1>1, <1>2, <1>3, <1>4

\* Rows are compared by a signed difference, which is right up to half a lap.
\* With M = 2^32 and Interval = 100 that is room for 21 million failed
\* checkpoints.
Room == 2 * ((MaxFails + 1) * Interval) < M

\* The span stays below half a lap.
LEMMA SpanRoom ==
  ASSUME Room, TypeOK, fails <= MaxFails
  PROVE  2 * Span < M
<1>1. fails \in Nat /\ Interval \in Nat /\ MaxFails \in Nat /\ M \in Nat
  BY SeqAssumption DEF TypeOK
<1>2. fails = MaxFails \/ MaxFails - fails >= 1
  BY <1>1
<1>3. (fails + 1) * Interval <= (MaxFails + 1) * Interval
  <2>1. CASE fails = MaxFails
    BY <1>1, <2>1
  <2>2. CASE MaxFails - fails >= 1
    <3>1. CASE Interval = 0
      BY <1>1, <3>1
    <3>2. CASE Interval # 0
      <4>1. Interval * (MaxFails - fails) >= Interval
        BY <1>1, <2>2, <3>2, MultipleAtLeast
      <4>2. (MaxFails + 1) * Interval = (fails + 1) * Interval + Interval * (MaxFails - fails)
        BY <1>1
      <4>3. (fails + 1) * Interval \in Nat /\ Interval * (MaxFails - fails) \in Int
        BY <1>1
      <4>4. QED BY <1>1, <4>1, <4>2, <4>3
    <3>3. QED BY <3>1, <3>2
  <2>3. QED BY <1>2, <2>1, <2>2
<1>4. (fails + 1) * Interval \in Nat /\ (MaxFails + 1) * Interval \in Nat
  BY <1>1
<1>5. QED BY <1>1, <1>3, <1>4 DEF Room, Span

\* Of two numbers at most one is newer.
LEMMA NewerOneWay ==
  ASSUME NEW a \in 0 .. M - 1, NEW b \in 0 .. M - 1, Newer(a, b)
  PROVE  ~Newer(b, a) /\ a # b
<1>1. /\ Newer(a, b) <=> 2 * Gap(a, b) < M /\ a # b
      /\ Newer(b, a) <=> 2 * Gap(b, a) < M /\ b # a
  BY DEF Newer, Gap
<1>2. /\ Gap(a, b) = IF a >= b THEN a - b ELSE a - b + M
      /\ Gap(b, a) = IF b >= a THEN b - a ELSE b - a + M
  BY GapValue
<1>3. M \in Nat
  BY SeqAssumption
<1>4. QED BY <1>1, <1>2, <1>3

\* What is recovered is the last row, or one that is as far on and of the same
\* boot.
LEMMA NewestRecovered ==
  ASSUME Room, TypeOK, fails <= MaxFails, NEW bs \in [Banks -> Row], NEW n \in Banks,
         NEW at \in 0 .. M - 1, bs[Other(n)].valid, Trail(Span, top, bs[Other(n)], bs[n], at)
  PROVE  /\ Recovered(bs).boot = bs[Other(n)].boot
         /\ Gap(top, Recovered(bs).seq) <= Span
<1> DEFINE l == bs[Other(n)]
           s == bs[n]
<1>1. /\ l \in Row /\ s \in Row /\ l.seq \in 0 .. M - 1 /\ s.seq \in 0 .. M - 1
      /\ l.boot \in Nat /\ s.boot \in Nat /\ top \in 0 .. M - 1
  <2>1. n \in Banks /\ Other(n) \in Banks
    BY DEF Other, Banks
  <2>2. l \in Row /\ s \in Row
    BY <2>1
  <2>3. QED BY <2>2 DEF Row, TypeOK
<1>2. Span \in Nat /\ M \in Nat /\ 2 * Span < M
  BY SpanValue, SpanRoom, SeqAssumption
<1>3. /\ l.valid
      /\ Gap(top, l.seq) = Gap(top, at) + Gap(at, l.seq)
      /\ Gap(top, l.seq) <= Span
      /\ s.valid => Near(Span, l, s, at)
  BY DEF Trail
<1>4. Recovered(bs) = l \/ (Recovered(bs) = s /\ s.valid)
  <2>1. CASE n = 0
    BY <1>3, <2>1 DEF Recovered, Source, PrefersA, Other
  <2>2. CASE n = 1
    BY <1>3, <2>2 DEF Recovered, Source, PrefersA, Other
  <2>3. QED BY <2>1, <2>2 DEF Banks
<1>5. ASSUME Recovered(bs) = s, s # l, s.valid
      PROVE  ~Newer(l.seq, s.seq) /\ (l.seq = s.seq => s.boot >= l.boot)
  <2>1. CASE n = 0
    <3>1. PrefersA(s, l)
      BY <1>3, <1>5, <2>1 DEF Recovered, Source, Other
    <3>2. Newer(s.seq, l.seq) \/ (l.seq = s.seq /\ s.boot >= l.boot)
      BY <1>3, <1>5, <3>1 DEF PrefersA
    <3> HIDE DEF l, s
    <3>3. Newer(s.seq, l.seq) => ~Newer(l.seq, s.seq) /\ l.seq # s.seq
      BY <1>1, NewerOneWay
    <3>4. l.seq = s.seq => ~Newer(l.seq, s.seq)
      BY DEF Newer
    <3>5. QED BY <3>2, <3>3, <3>4
  <2>2. CASE n = 1
    <3>1. ~PrefersA(bs[0], bs[1])
      BY <1>5, <2>2 DEF Recovered, Source, Other
    <3>2. QED BY <1>1, <1>3, <1>5, <2>2, <3>1 DEF PrefersA, Other
  <2>3. QED BY <2>1, <2>2 DEF Banks
<1> HIDE DEF l, s
<1>6. CASE Recovered(bs) = l
  BY <1>3, <1>6 DEF l
<1>7. CASE Recovered(bs) = s /\ s # l /\ s.valid
  <2>1. CASE Gap(l.seq, s.seq) <= Span /\ s.boot <= l.boot
    <3>1. Gap(l.seq, s.seq) \in 0 .. M - 1
      BY <1>1, GapValue
    <3>2. ~(2 * Gap(l.seq, s.seq) < M /\ l.seq # s.seq)
      BY <1>5, <1>7 DEF Newer, Gap
    <3>3. l.seq = s.seq
      BY <1>2, <2>1, <3>1, <3>2
    <3>4. s.boot = l.boot
      BY <1>1, <1>5, <1>7, <2>1, <3>3
    <3>5. QED BY <1>3, <1>7, <3>3, <3>4 DEF l
  <2>2. CASE /\ Gap(s.seq, l.seq) <= Gap(at, l.seq)
             /\ Gap(s.seq, l.seq) <= Span /\ s.boot = l.boot
    <3>1. /\ Gap(top, l.seq) \in 0 .. M - 1 /\ Gap(at, l.seq) \in 0 .. M - 1
          /\ Gap(top, at) \in 0 .. M - 1
      BY <1>1, GapValue
    <3>2. Gap(s.seq, l.seq) <= Gap(top, l.seq)
      <4>1. Gap(s.seq, l.seq) \in 0 .. M - 1
        BY <1>1, GapValue
      <4>2. QED BY <1>3, <2>2, <3>1, <4>1
    <3>3. /\ Gap(top, l.seq) = IF top >= l.seq THEN top - l.seq ELSE top - l.seq + M
          /\ Gap(s.seq, l.seq) = IF s.seq >= l.seq THEN s.seq - l.seq ELSE s.seq - l.seq + M
          /\ Gap(top, s.seq) = IF top >= s.seq THEN top - s.seq ELSE top - s.seq + M
      BY <1>1, GapValue
    <3>4. Gap(top, s.seq) <= Gap(top, l.seq)
      BY <1>1, <1>2, <3>2, <3>3
    <3>5. Gap(top, s.seq) <= Span
      <4>1. Gap(top, s.seq) \in 0 .. M - 1
        BY <1>1, GapValue
      <4>2. QED BY <1>2, <1>3, <3>1, <3>4, <4>1
    <3>6. QED BY <1>7, <2>2, <3>5 DEF l
  <2>3. QED BY <1>3, <1>7, <2>1, <2>2 DEF Near
<1>8. QED BY <1>4, <1>6, <1>7

\* The types of the banks, the rows in them and the numbers.
LEMMA GoodRows ==
  ASSUME TypeOK
  PROVE  /\ bank \in [Banks -> Row] /\ nextBank \in Banks /\ Other(nextBank) \in Banks
         /\ Other(nextBank) # nextBank /\ Other(Other(nextBank)) = nextBank
         /\ target \in Banks /\ Other(target) \in Banks /\ Other(target) # target
         /\ \A b \in Banks : bank[b].seq \in 0 .. M - 1 /\ bank[b].boot \in Nat
         /\ top \in 0 .. M - 1 /\ counter \in 0 .. M - 1 /\ seq \in 0 .. M - 1
         /\ boot \in Nat /\ At \in 0 .. M - 1
<1>1. \A r \in Row : r.seq \in 0 .. M - 1 /\ r.boot \in Nat
  BY DEF Row
<1>2. bank \in [Banks -> Row]
  BY DEF TypeOK
<1>3. \A b \in Banks : bank[b].seq \in 0 .. M - 1 /\ bank[b].boot \in Nat
  BY <1>1, <1>2
<1>4. /\ nextBank \in Banks /\ Other(nextBank) \in Banks
      /\ Other(nextBank) # nextBank /\ Other(Other(nextBank)) = nextBank
      /\ target \in Banks /\ Other(target) \in Banks /\ Other(target) # target
  BY DEF TypeOK, Banks, Other
<1>5. QED BY <1>2, <1>3, <1>4 DEF TypeOK, At

\* The bounds of the trail, one number further.
LEMMA TrailBounds ==
  ASSUME Room, TypeOK, fails <= MaxFails, NEW l, NEW s, NEW at \in 0 .. M - 1,
         l.seq \in 0 .. M - 1, Trail(Span, top, l, s, at)
  PROVE  /\ Gap(at, l.seq) <= Span /\ Gap(at, l.seq) < M - 1
         /\ Span \in Nat /\ Span >= Interval /\ Interval \in Nat \ {0}
         /\ Gap(at, l.seq) \in Nat /\ Gap(top, l.seq) \in Nat
<1>1. Span \in Nat /\ Span >= Interval /\ 2 * Span < M /\ M \in Nat /\ Interval \in Nat \ {0}
  BY SpanValue, SpanRoom, SeqAssumption
<1>2. Gap(at, l.seq) \in 0 .. M - 1 /\ Gap(top, l.seq) \in 0 .. M - 1 /\ Slot(at) \in 1 .. Interval
  BY GapValue, NextSlot DEF TypeOK
<1>3. Gap(at, l.seq) + Interval <= Span + Slot(at)
  BY DEF Trail
<1>4. QED BY <1>1, <1>2, <1>3

\* Where the write at boot has succeeded, the bank written is the last one.
LEMMA BootedRunning ==
  ASSUME Room, TypeOK, Behind, pc = "init", InitWritten
  PROVE  Running'
<1>0. /\ nextBank' = Other(target) /\ bank' = [bank EXCEPT ![target] = Prepared]
      /\ counter' = seq /\ pc' = "run"
      /\ UNCHANGED <<seq, boot, top, used, fails>>
  BY DEF InitWritten, Programmed, histVars
<1>1. /\ target \in Banks /\ Other(target) \in Banks /\ Other(target) # target
      /\ Other(nextBank') = target
  BY <1>0, GoodRows DEF Banks, Other
<1>2. bank'[target] = Prepared /\ bank'[Other(target)] = bank[Other(target)]
  BY <1>0, <1>1 DEF TypeOK
<1>3. /\ target = WriteBank(Source(bank)) /\ seq = Recovered(bank).seq
      /\ boot = Recovered(bank).boot + 1 /\ Recoverable
  BY DEF Behind
<1>4. bank[Other(target)].valid => bank[Other(target)] = Recovered(bank)
  BY <1>3 DEF WriteBank, Source, PrefersA, Recovered, Other
<1>5. Prepared.seq = seq /\ Prepared.boot = boot
  BY DEF Prepared
<1>6. Gap(seq, seq) = 0 /\ Slot(seq) \in 1 .. Interval /\ Gap(top, seq) \in 0 .. M - 1
  BY GapValue, NextSlot DEF TypeOK
<1>7. Span \in Nat /\ Span >= Interval /\ Span' = Span /\ Interval \in Nat
  BY <1>0, SpanValue, SeqAssumption
<1>8. Recovered(bank).boot \in Nat /\ boot \in Nat /\ \A u \in used : u \in Nat
  BY RecoveredType DEF TypeOK, Row
<1>9. At' = seq
  BY <1>0 DEF At
<1>10. Trail(Span, top, Prepared, bank[Other(target)], seq)
  <2>1. bank[Other(target)].valid =>
          Gap(seq, bank[Other(target)].seq) = 0 /\ bank[Other(target)].boot <= boot
    BY <1>3, <1>4, <1>6, <1>8
  <2>2. QED BY <1>3, <1>5, <1>6, <1>7, <2>1 DEF Trail, Near, Recoverable
<1>11. Trail(Span', top', bank'[Other(nextBank')], bank'[nextBank'], At')
  BY <1>0, <1>1, <1>2, <1>7, <1>9, <1>10
<1>12. \A u \in used : u < boot
  BY <1>3, <1>8 DEF Recoverable
<1>13. QED BY <1>0, <1>1, <1>2, <1>5, <1>11, <1>12 DEF Running

\* A number is issued and no checkpoint is due.
LEMMA TrailNext ==
  ASSUME Room, TypeOK, fails <= MaxFails, NEW l, NEW s, NEW n \in 0 .. M - 1,
         l.seq \in 0 .. M - 1, s.seq \in 0 .. M - 1,
         Trail(Span, top, l, s, n), n % Interval # 0,
         NEW m, m = (n + 1) % M, NEW u, u = IF n = top THEN m ELSE top
  PROVE  Trail(Span, u, l, s, m)
<1>1. /\ Gap(n, l.seq) < M - 1 /\ Span \in Nat /\ Interval \in Nat \ {0}
      /\ Gap(n, l.seq) \in Nat /\ Gap(top, l.seq) \in Nat
  BY TrailBounds
<1>2. /\ Gap(top, l.seq) = Gap(top, n) + Gap(n, l.seq)
      /\ Gap(top, l.seq) <= Span /\ Gap(n, l.seq) + Interval <= Span + Slot(n)
      /\ s.valid => Near(Span, l, s, n)
  BY DEF Trail
<1>3. /\ Gap(m, l.seq) = Gap(n, l.seq) + 1
      /\ Gap(u, l.seq) = Gap(u, m) + Gap(m, l.seq)
      /\ Gap(u, l.seq) = IF n = top THEN Gap(n, l.seq) + 1 ELSE Gap(top, l.seq)
  BY <1>1, <1>2, GapNext DEF TypeOK
<1>4. Slot(n) \in 1 .. Interval /\ Slot(m) \in 1 .. Interval /\ Slot(m) >= Slot(n) + 1
  BY NextSlot
<1>5. Gap(u, l.seq) <= Span /\ Gap(m, l.seq) + Interval <= Span + Slot(m)
  BY <1>1, <1>2, <1>3, <1>4
<1>6. ASSUME s.valid PROVE Near(Span, l, s, m)
  <2>1. CASE Gap(l.seq, s.seq) <= Span /\ s.boot <= l.boot
    BY <2>1 DEF Near
  <2>2. CASE /\ Gap(s.seq, l.seq) <= Gap(n, l.seq)
             /\ Gap(s.seq, l.seq) <= Span /\ s.boot = l.boot
    <3>1. Gap(s.seq, l.seq) \in Int
      BY GapValue
    <3>2. Gap(s.seq, l.seq) <= Gap(m, l.seq)
      BY <1>1, <1>3, <2>2, <3>1
    <3>3. QED BY <2>2, <3>2 DEF Near
  <2>3. QED BY <1>2, <1>6, <2>1, <2>2 DEF Near
<1>7. QED BY <1>3, <1>5, <1>6 DEF Trail

\* A checkpoint has been written: its row is the last one, the other the spare.
LEMMA TrailWritten ==
  ASSUME Room, TypeOK, fails <= MaxFails, NEW l, NEW s, NEW n \in 0 .. M - 1,
         l.seq \in 0 .. M - 1, Trail(Span, top, l, s, n),
         NEW p, p.seq = n, p.boot = l.boot, l.boot \in Nat,
         NEW m, m = (n + 1) % M, NEW u, u = IF n = top THEN m ELSE top
  PROVE  Trail(Span, u, p, l, m)
<1>1. /\ Gap(n, l.seq) <= Span /\ Span \in Nat /\ Span >= Interval
      /\ Interval \in Nat \ {0} /\ Gap(n, l.seq) \in Nat /\ Gap(top, l.seq) \in Nat
      /\ Gap(n, l.seq) < M - 1 /\ M \in Nat
  BY TrailBounds, SeqAssumption
<1>2. Gap(top, l.seq) = Gap(top, n) + Gap(n, l.seq) /\ Gap(top, l.seq) <= Span
  BY DEF Trail
<1>3. Gap(n, n) = 0 /\ Gap(top, n) \in 0 .. M - 1 /\ top \in 0 .. M - 1
  BY GapValue DEF TypeOK
<1>4. Gap(top, n) = Gap(top, n) + Gap(n, n) /\ Gap(n, n) < M - 1
  BY <1>1, <1>3
<1>5. /\ Gap(m, n) = 1
      /\ Gap(u, n) = Gap(u, m) + Gap(m, n)
      /\ Gap(u, n) = IF n = top THEN 1 ELSE Gap(top, n)
  BY <1>3, <1>4, GapNext
<1>6. Slot(m) \in 1 .. Interval
  BY NextSlot
<1>7. Gap(u, n) <= Span /\ Gap(m, n) + Interval <= Span + Slot(m)
  BY <1>1, <1>2, <1>3, <1>5, <1>6
<1>8. Near(Span, p, l, m)
  BY <1>1 DEF Near
<1>9. QED BY <1>5, <1>7, <1>8 DEF Trail

\* A checkpoint has failed: its row is as before, torn or written, and the span
\* is one interval longer.
LEMMA TrailFailed ==
  ASSUME Room, TypeOK, fails <= MaxFails, NEW l, NEW s, NEW n \in 0 .. M - 1,
         l.seq \in 0 .. M - 1, s.seq \in 0 .. M - 1,
         Trail(Span, top, l, s, n), n % Interval = 0,
         NEW p, p.seq = n, p.boot = l.boot, NEW r, r = s \/ ~r.valid \/ r = p,
         NEW m, m = (n + 1) % M, NEW u, u = IF n = top THEN m ELSE top
  PROVE  Trail(Span + Interval, u, l, r, m)
<1>1. /\ Gap(n, l.seq) < M - 1 /\ Span \in Nat /\ Interval \in Nat \ {0}
      /\ Gap(n, l.seq) \in Nat /\ Gap(top, l.seq) \in Nat /\ Gap(n, l.seq) <= Span
  BY TrailBounds
<1>2. /\ Gap(top, l.seq) = Gap(top, n) + Gap(n, l.seq)
      /\ Gap(top, l.seq) <= Span
      /\ s.valid => Near(Span, l, s, n)
  BY DEF Trail
<1>3. /\ Gap(m, l.seq) = Gap(n, l.seq) + 1
      /\ Gap(u, l.seq) = Gap(u, m) + Gap(m, l.seq)
      /\ Gap(u, l.seq) = IF n = top THEN Gap(n, l.seq) + 1 ELSE Gap(top, l.seq)
  BY <1>1, <1>2, GapNext DEF TypeOK
<1>4. Slot(m) \in 1 .. Interval
  BY NextSlot
<1>5. /\ Gap(u, l.seq) <= Span + Interval
      /\ Gap(m, l.seq) + Interval <= Span + Interval + Slot(m)
  <2>1. Gap(n, l.seq) + 1 <= Span + Interval /\ Gap(top, l.seq) <= Span + Interval
    BY <1>1, <1>2
  <2>2. Gap(u, l.seq) <= Span + Interval
    BY <1>3, <2>1, Zenon
  <2>3. Gap(m, l.seq) + Interval <= Span + Interval + Slot(m)
    BY <1>1, <1>3, <1>4
  <2>4. QED BY <2>2, <2>3
<1>6. ASSUME r = s, r.valid PROVE Near(Span + Interval, l, r, m)
  <2>1. CASE Gap(l.seq, s.seq) <= Span /\ s.boot <= l.boot
    <3>1. Gap(l.seq, s.seq) \in Int
      BY GapValue
    <3>2. Gap(l.seq, s.seq) <= Span + Interval
      BY <1>1, <2>1, <3>1
    <3>3. QED BY <1>6, <2>1, <3>2 DEF Near
  <2>2. CASE /\ Gap(s.seq, l.seq) <= Gap(n, l.seq)
             /\ Gap(s.seq, l.seq) <= Span /\ s.boot = l.boot
    <3>1. Gap(s.seq, l.seq) \in Int
      BY GapValue
    <3>2. Gap(s.seq, l.seq) <= Gap(m, l.seq) /\ Gap(s.seq, l.seq) <= Span + Interval
      BY <1>1, <1>3, <2>2, <3>1
    <3>3. QED BY <1>6, <2>2, <3>2 DEF Near
  <2>3. Near(Span, l, s, n)
    BY <1>2, <1>6
  <2>4. QED BY <2>1, <2>2, <2>3, Zenon DEF Near
<1>7. ASSUME r = p PROVE Near(Span + Interval, l, r, m)
  <2>1. Gap(n, l.seq) <= Gap(m, l.seq) /\ Gap(n, l.seq) <= Span + Interval
    BY <1>1, <1>3
  <2>2. QED BY <1>7, <2>1 DEF Near
<1>8. QED BY <1>3, <1>5, <1>6, <1>7 DEF Trail

\* The write at boot stores the recovered counter, so whatever becomes of it
\* the same counter is recovered.
LEMMA BootOutcome ==
  ASSUME TypeOK, Behind, pc = "init", NEW bs \in WriteOutcomes
  PROVE  Recovered(bs).seq = Recovered(bank).seq /\ Recovered(bs).boot >= Recovered(bank).boot
<1>1. /\ target = WriteBank(Source(bank)) /\ seq = Recovered(bank).seq
      /\ boot = Recovered(bank).boot + 1
  BY DEF Behind
<1>2. bank \in [Banks -> Row] /\ Recovered(bank).boot \in Nat /\ bank[0] \in Row /\ bank[1] \in Row
  BY RecoveredType DEF TypeOK, Row, Banks
<1>3. /\ Invalid.valid = FALSE /\ Invalid.seq = 0 /\ Invalid.boot = 0
      /\ Prepared.valid = TRUE /\ Prepared.seq = seq /\ Prepared.boot = boot
  BY DEF Invalid, Prepared
<1>4. \A r \in Row : r.boot \in Nat /\ r.boot >= r.boot
  BY DEF Row
<1>5. \/ bs = bank
      \/ bs = [bank EXCEPT ![target] = Invalid]
      \/ bs = [bank EXCEPT ![target] = Prepared]
  BY DEF WriteOutcomes
<1>6. CASE Source(bank) = 0
  <2>1. target = 1 /\ bs[0] = bank[0] /\ bank[0].valid /\ Recovered(bank) = bank[0]
    BY <1>1, <1>2, <1>5, <1>6 DEF WriteBank, Source, PrefersA, Recovered, Banks
  <2>2. bs[1] \in {bank[1], Invalid, Prepared}
    BY <1>2, <1>5, <2>1 DEF Banks
  <2>3. CASE bs[1] = bank[1]
    <3>1. bs = bank
      BY <1>2, <1>5, <2>1, <2>3 DEF Banks
    <3>2. QED BY <1>2, <3>1
  <2>4. CASE bs[1] = Invalid
    BY <1>2, <1>3, <1>4, <2>1, <2>4 DEF Recovered, Source, PrefersA
  <2>5. CASE bs[1] = Prepared
    BY <1>1, <1>2, <1>3, <1>4, <2>1, <2>5 DEF Recovered, Source, PrefersA
  <2>6. QED BY <2>2, <2>3, <2>4, <2>5
<1>7. CASE Source(bank) = 1
  <2>1. target = 0 /\ bs[1] = bank[1] /\ bank[1].valid /\ Recovered(bank) = bank[1]
    BY <1>1, <1>2, <1>5, <1>7 DEF WriteBank, Source, PrefersA, Recovered, Banks
  <2>2. bs[0] \in {bank[0], Invalid, Prepared}
    BY <1>2, <1>5, <2>1 DEF Banks
  <2>3. CASE bs[0] = bank[0]
    <3>1. bs = bank
      BY <1>2, <1>5, <2>1, <2>3 DEF Banks
    <3>2. QED BY <1>2, <3>1
  <2>4. CASE bs[0] = Invalid
    BY <1>2, <1>3, <1>4, <2>1, <2>4 DEF Recovered, Source, PrefersA
  <2>5. CASE bs[0] = Prepared
    BY <1>1, <1>2, <1>3, <1>4, <2>1, <2>5 DEF Recovered, Source, PrefersA
  <2>6. QED BY <2>2, <2>3, <2>4, <2>5
<1>8. CASE Source(bank) = -1
  <2>1. /\ target = 1 /\ bs[0] = bank[0] /\ ~bank[0].valid /\ ~bank[1].valid
        /\ Recovered(bank) = Invalid
    BY <1>1, <1>2, <1>5, <1>8 DEF WriteBank, Source, PrefersA, Recovered, Banks, Row
  <2>2. bs[1] \in {bank[1], Invalid, Prepared}
    BY <1>2, <1>5, <2>1 DEF Banks
  <2>3. Recovered(bs) \in {Invalid, Prepared}
    BY <1>3, <2>1, <2>2 DEF Recovered, Source, PrefersA
  <2>4. QED BY <1>1, <1>2, <1>3, <2>1, <2>3
<1>9. QED BY <1>6, <1>7, <1>8 DEF Source

\* The row of a checkpoint under way is within the trail of the last row,
\* whether or not it has been written.
LEMMA CheckpointOutcome ==
  ASSUME Room, Kept, ~initFailed, Behind, pc = "checkpoint", NEW bs \in WriteOutcomes
  PROVE  /\ bs[Other(nextBank)] = bank[Other(nextBank)]
         /\ bs[nextBank] \in {bank[nextBank], Invalid, Prepared}
         /\ Trail(Span, top, bs[Other(nextBank)], bs[nextBank], At)
<1>1. TypeOK /\ GoodBank
  BY DEF Kept
<1>2. target = nextBank /\ bank[Other(nextBank)].valid
  BY <1>1 DEF GoodBank
<1>3. bs[Other(nextBank)] = bank[Other(nextBank)]
  BY <1>1, <1>2, OtherBankKept
<1>4. bs[nextBank] \in {bank[nextBank], Invalid, Prepared}
  BY <1>1, <1>2 DEF WriteOutcomes, TypeOK
<1>5. /\ bank[Other(nextBank)].boot = boot
      /\ Trail(Span, top, bank[Other(nextBank)], bank[nextBank], At)
      /\ At = seq /\ fails <= MaxFails
  BY DEF Behind, Running, At
<1>6. bank[Other(nextBank)].seq \in 0 .. M - 1 /\ At \in 0 .. M - 1
  BY <1>1, GoodRows
<1>7. Gap(seq, bank[Other(nextBank)].seq) <= Span /\ Gap(seq, bank[Other(nextBank)].seq) \in Nat
  BY <1>1, <1>5, <1>6, TrailBounds
<1>8. ASSUME bs[nextBank] = Prepared
      PROVE  Near(Span, bank[Other(nextBank)], bs[nextBank], At)
  BY <1>5, <1>7, <1>8 DEF Near, Prepared
<1>9. QED BY <1>3, <1>4, <1>5, <1>8 DEF Trail, Invalid

\* Whatever becomes of the write under way, the counter recovered is within the
\* span, and the boot count recovered covers every boot that issued a number.
LEMMA OutcomesRecoverable ==
  ASSUME Room, Kept, ~initFailed, Behind, NEW bs \in WriteOutcomes
  PROVE  /\ Gap(top, Recovered(bs).seq) <= Span
         /\ \A u \in used : u <= Recovered(bs).boot
         /\ pc # "off" /\ issuing => boot <= Recovered(bs).boot
<1>1. TypeOK /\ GoodBank /\ fails <= MaxFails
  BY DEF Kept, Behind
<1>2. /\ boot \in Nat /\ used \subseteq Nat
      /\ pc \in {"off", "init", "run", "checkpoint"} /\ bs \in [Banks -> Row]
  BY <1>1, OutcomeType DEF TypeOK
<1>3. CASE pc = "off"
  <2>1. bs = bank
    BY <1>3 DEF WriteOutcomes, Writing
  <2>2. QED BY <1>3, <2>1 DEF Behind, Recoverable
<1>4. CASE pc = "init"
  <2>1. Recovered(bs).seq = Recovered(bank).seq /\ Recovered(bs).boot >= Recovered(bank).boot
    BY <1>1, <1>4, BootOutcome
  <2>2. Recoverable /\ ~issuing
    BY <1>1, <1>4 DEF Behind, GoodBank
  <2>3. Recovered(bank).boot \in Nat /\ Recovered(bs).boot \in Nat
    <3>1. Recovered(bank) \in Row
      BY <1>1, RecoveredType
    <3>2. Recovered(bs) \in Row
      <4>1. Invalid \in Row /\ bs[0] \in Row /\ bs[1] \in Row
        BY <1>2, SeqAssumption DEF Invalid, Row, Banks
      <4>2. QED BY <4>1 DEF Recovered, Source
    <3>3. \A r \in Row : r.boot \in Nat
      BY DEF Row
    <3>4. QED BY <3>1, <3>2, <3>3
  <2>4. ASSUME NEW u \in used PROVE u <= Recovered(bs).boot
    <3>1. u \in Nat /\ u <= Recovered(bank).boot
      BY <1>2, <2>2 DEF Recoverable
    <3>2. QED BY <2>1, <2>3, <3>1
  <2>5. QED BY <2>1, <2>2, <2>4 DEF Recoverable
<1>5. CASE pc \in {"run", "checkpoint"}
  <2>1. /\ bank[Other(nextBank)].boot = boot /\ \A u \in used : u < boot
        /\ Trail(Span, top, bank[Other(nextBank)], bank[nextBank], At)
    BY <1>5 DEF Behind, Running
  <2>2. /\ bs[Other(nextBank)] = bank[Other(nextBank)]
        /\ Trail(Span, top, bs[Other(nextBank)], bs[nextBank], At)
    <3>1. CASE pc = "run"
      BY <2>1, <3>1 DEF WriteOutcomes, Writing
    <3>2. CASE pc = "checkpoint"
      BY <3>2, CheckpointOutcome
    <3>3. QED BY <1>5, <3>1, <3>2
  <2>3. bank[Other(nextBank)].valid
    BY <1>1, <1>5 DEF GoodBank
  <2>4. At \in 0 .. M - 1 /\ nextBank \in Banks
    BY <1>1, GoodRows
  <2>5. /\ Recovered(bs).boot = bs[Other(nextBank)].boot
        /\ Gap(top, Recovered(bs).seq) <= Span
    BY <1>1, <1>2, <2>2, <2>3, <2>4, NewestRecovered
  <2>6. Recovered(bs).boot = boot
    BY <2>1, <2>2, <2>5
  <2>7. boot <= boot /\ \A u \in used : u <= boot
    BY <1>2, <2>1
  <2>8. QED BY <2>5, <2>6, <2>7
<1>6. QED BY <1>2, <1>3, <1>4, <1>5

\* Every step keeps the counter within its bound.
LEMMA StepBehind ==
  ASSUME Room, Kept, ~initFailed => Behind, [Next]_vars, ~initFailed'
  PROVE  Behind'
<1>1. TypeOK /\ (~initFailed => GoodBank)
  BY DEF Kept
<1>2. CASE PowerOn
  <2>1. Recoverable /\ pc = "off" /\ fails <= MaxFails
    BY <1>2 DEF PowerOn, Behind
  <2>2. UNCHANGED <<bank, top, used, fails>>
    BY <1>2 DEF PowerOn
  <2>3. Recovered(bank)' = Recovered(bank) /\ Source(bank)' = Source(bank) /\ Span' = Span
    BY <2>2 DEF Span
  <2>4. Recoverable'
    BY <2>1, <2>2, <2>3 DEF Recoverable
  <2>5. /\ target' = WriteBank(Source(bank)) /\ pc' = "init"
        /\ seq' = Recovered(bank).seq /\ boot' = Recovered(bank).boot + 1
    BY <1>2 DEF PowerOn
  <2>6. target' = WriteBank(Source(bank'))
    BY <2>2, <2>5
  <2>7. QED BY <2>1, <2>2, <2>3, <2>4, <2>5, <2>6 DEF Behind
<1>3. CASE InitWritten
  <2>1. pc = "init" /\ pc' = "run" /\ UNCHANGED <<fails, initFailed>>
    BY <1>3 DEF InitWritten, histVars
  <2>2. Behind
    BY <2>1
  <2>3. Running'
    BY <1>1, <1>3, <2>1, <2>2, BootedRunning
  <2>4. QED BY <2>1, <2>2, <2>3 DEF Behind
<1>4. CASE InitFails
  BY <1>4 DEF InitFails
<1>a. ASSUME ~initFailed
      PROVE  /\ Behind /\ GoodBank /\ fails <= MaxFails
             /\ bank[Other(nextBank)].seq \in 0 .. M - 1
             /\ bank[Other(nextBank)].boot \in Nat
             /\ bank[nextBank].seq \in 0 .. M - 1
             /\ counter \in 0 .. M - 1 /\ seq \in 0 .. M - 1
  BY <1>1, <1>a, GoodRows DEF Behind
<1>5. CASE NextSeq
  <2>1. /\ pc = "run" /\ pc' = "run" /\ ~initFailed /\ counter % Interval # 0
        /\ counter' = (counter + 1) % M
        /\ top' = (IF counter = top THEN counter' ELSE top)
        /\ UNCHANGED <<bank, seq, boot, nextBank, used, fails>>
    BY <1>5 DEF NextSeq, Increment, Issue
  <2>2. /\ bank[Other(nextBank)].boot = boot /\ \A u \in used : u < boot
        /\ Trail(Span, top, bank[Other(nextBank)], bank[nextBank], counter)
    BY <1>a, <2>1 DEF Behind, Running, At
  <2>3. Trail(Span, top', bank[Other(nextBank)], bank[nextBank], counter')
    BY <1>1, <1>a, <2>1, <2>2, TrailNext
  <2>4. Span' = Span /\ At' = counter'
    BY <2>1 DEF Span, At
  <2>5. Running'
    BY <2>1, <2>2, <2>3, <2>4 DEF Running
  <2>6. QED BY <1>a, <2>1, <2>5 DEF Behind
<1>6. CASE NextSeqCheckpoint
  <2>1. /\ pc = "run" /\ pc' = "checkpoint" /\ ~initFailed /\ counter % Interval = 0
        /\ counter' = (counter + 1) % M /\ seq' = counter
        /\ UNCHANGED <<bank, boot, nextBank, used, top, fails>>
    BY <1>6 DEF NextSeqCheckpoint, Increment, histVars
  <2>2. /\ bank[Other(nextBank)].boot = boot /\ \A u \in used : u < boot
        /\ Trail(Span, top, bank[Other(nextBank)], bank[nextBank], counter)
    BY <1>a, <2>1 DEF Behind, Running, At
  <2>3. Span' = Span /\ At' = counter
    BY <2>1 DEF Span, At
  <2>4. counter' = (seq' + 1) % M /\ seq' % Interval = 0
    BY <2>1
  <2>5. Running'
    BY <2>1, <2>2, <2>3, <2>4 DEF Running
  <2>6. QED BY <1>a, <2>1, <2>5 DEF Behind
<1>7. CASE CheckpointWritten
  <2>1. /\ pc = "checkpoint" /\ pc' = "run" /\ ~initFailed
        /\ bank' = [bank EXCEPT ![target] = Prepared]
        /\ nextBank' = Other(nextBank)
        /\ top' = (IF seq = top THEN (seq + 1) % M ELSE top)
        /\ UNCHANGED <<seq, boot, counter, used, fails>>
    BY <1>7 DEF CheckpointWritten, Programmed, Issue
  <2>2. /\ bank[Other(nextBank)].boot = boot /\ \A u \in used : u < boot
        /\ Trail(Span, top, bank[Other(nextBank)], bank[nextBank], seq)
        /\ counter = (seq + 1) % M
    BY <1>a, <2>1 DEF Behind, Running, At
  <2>3. /\ Prepared.seq = seq /\ Prepared.boot = bank[Other(nextBank)].boot
        /\ top' = (IF seq = top THEN counter ELSE top)
    BY <2>1, <2>2 DEF Prepared
  <2>4. Trail(Span, top', Prepared, bank[Other(nextBank)], counter)
    BY <1>1, <1>a, <2>1, <2>2, <2>3, TrailWritten
  <2>5. /\ Other(nextBank') = nextBank
        /\ bank'[nextBank] = Prepared
        /\ bank'[Other(nextBank)] = bank[Other(nextBank)]
    <3>1. target = nextBank
      BY <1>a, <2>1 DEF GoodBank
    <3>2. QED BY <1>1, <2>1, <3>1, GoodRows
  <2>6. Span' = Span /\ At' = counter
    BY <2>1 DEF Span, At
  <2>7. bank'[Other(nextBank')].boot = boot' /\ \A u \in used' : u < boot'
    BY <2>1, <2>2, <2>3, <2>5
  <2>8. Trail(Span', top', bank'[Other(nextBank')], bank'[nextBank'], At')
    BY <2>1, <2>4, <2>5, <2>6
  <2>9. Running'
    BY <2>1, <2>7, <2>8 DEF Running
  <2>10. QED BY <1>a, <2>1, <2>9 DEF Behind
<1>8. CASE CheckpointFails
  <2>1. /\ pc = "checkpoint" /\ pc' = "run" /\ ~initFailed /\ fails < MaxFails
        /\ bank' \in WriteOutcomes /\ fails' = fails + 1
        /\ top' = (IF seq = top THEN (seq + 1) % M ELSE top)
        /\ UNCHANGED <<seq, boot, nextBank, counter, used>>
    BY <1>8 DEF CheckpointFails, Issue
  <2>2. /\ bank[Other(nextBank)].boot = boot /\ \A u \in used : u < boot
        /\ Trail(Span, top, bank[Other(nextBank)], bank[nextBank], seq)
        /\ counter = (seq + 1) % M /\ seq % Interval = 0
    BY <1>a, <2>1 DEF Behind, Running, At
  <2>3. /\ bank'[Other(nextBank)] = bank[Other(nextBank)]
        /\ bank'[nextBank] \in {bank[nextBank], Invalid, Prepared}
    BY <1>a, <2>1, CheckpointOutcome
  <2>4. /\ Prepared.seq = seq /\ Prepared.boot = bank[Other(nextBank)].boot
        /\ top' = (IF seq = top THEN counter ELSE top)
        /\ \/ bank'[nextBank] = bank[nextBank]
           \/ ~bank'[nextBank].valid
           \/ bank'[nextBank] = Prepared
    <3>1. Invalid.valid = FALSE /\ Prepared.seq = seq /\ Prepared.boot = boot
      BY DEF Prepared, Invalid
    <3>2. QED BY <2>1, <2>2, <2>3, <3>1
  <2>5. Trail(Span + Interval, top', bank[Other(nextBank)], bank'[nextBank], counter)
    BY <1>1, <1>a, <2>1, <2>2, <2>4, TrailFailed
  <2>6. Span' = Span + Interval /\ At' = counter
    BY <1>1, <2>1, SpanValue DEF At
  <2>7. Running'
    BY <2>1, <2>2, <2>3, <2>5, <2>6 DEF Running
  <2>8. fails' <= MaxFails
    BY <1>1, <2>1, SeqAssumption DEF TypeOK
  <2>9. QED BY <2>1, <2>7, <2>8 DEF Behind
<1>9. CASE PowerLoss
  <2>1. /\ pc # "off" /\ pc' = "off" /\ ~initFailed /\ bank' \in WriteOutcomes
        /\ used' = (IF issuing THEN used \union {boot} ELSE used)
        /\ UNCHANGED <<top, fails>>
    BY <1>9 DEF PowerLoss
  <2>2. /\ Gap(top, Recovered(bank').seq) <= Span
        /\ \A u \in used : u <= Recovered(bank').boot
        /\ issuing => boot <= Recovered(bank').boot
    BY <1>a, <2>1, OutcomesRecoverable
  <2>3. Span' = Span
    BY <2>1 DEF Span
  <2>4. Gap(top', Recovered(bank').seq) <= Span'
    BY <2>1, <2>2, <2>3
  <2>5. \A u \in used' : u <= Recovered(bank').boot
    BY <2>1, <2>2
  <2>6. Recoverable'
    BY <2>4, <2>5 DEF Recoverable
  <2>7. QED BY <1>a, <2>1, <2>6 DEF Behind
<1>10. CASE UNCHANGED vars
  <2>1. UNCHANGED <<bank, seq, boot, nextBank, counter, pc, target, top, used, fails, initFailed>>
    BY <1>10 DEF vars, ramVars, histVars
  <2>2. Running' <=> Running
    BY <2>1 DEF Running, At, Span
  <2>3. Recoverable' <=> Recoverable
    BY <2>1 DEF Recoverable, Span
  <2>4. WriteBank(Source(bank))' = WriteBank(Source(bank)) /\ Recovered(bank)' = Recovered(bank)
    BY <2>1
  <2>5. QED BY <1>a, <2>1, <2>2, <2>3, <2>4 DEF Behind
<1>11. QED BY <1>2, <1>3, <1>4, <1>5, <1>6, <1>7, <1>8, <1>9, <1>10 DEF Next

\* The inductive invariant of the two theorems below.
Bounded == Kept /\ (~initFailed => Behind)

\* It holds of a device never written.
LEMMA InitBounded == ASSUME Room, Init PROVE Bounded
<1>1. TypeOK
  BY InitType
<1>2. Kept
  BY <1>1 DEF Init, Kept, GoodBank, Started
<1>3. Recovered(bank) = Invalid
  BY DEF Init, Recovered, Source, PrefersA, Banks, Invalid
<1>4. Gap(0, 0) = 0 /\ Span >= Interval /\ Interval \in Nat /\ Span \in Nat
  <2>1. 0 \in 0 .. M - 1
    BY SeqAssumption
  <2>2. Gap(0, 0) = 0
    BY <2>1, GapValue
  <2>3. QED BY <1>1, <2>2, SpanValue, SeqAssumption
<1>5. Recoverable
  <2>1. top = 0 /\ used = {}
    BY DEF Init
  <2>2. Recovered(bank).seq = 0
    BY <1>3 DEF Invalid
  <2>3. QED BY <1>4, <2>1, <2>2 DEF Recoverable
<1>6. Behind
  BY <1>5, SeqAssumption DEF Init, Behind
<1>7. QED BY <1>2, <1>6 DEF Bounded

\* Every step keeps it.
LEMMA StepBounded == ASSUME Room, Bounded, [Next]_vars PROVE Bounded'
<1>1. Kept'
  BY StepKept DEF Bounded
<1>2. ~initFailed' => Behind'
  BY StepBehind DEF Bounded
<1>3. QED BY <1>1, <1>2 DEF Bounded

\* It bounds the rollback.
LEMMA BoundedRollback == ASSUME Room, Bounded PROVE RollbackBounded
<1>1. ASSUME ~initFailed, NEW bs \in WriteOutcomes
      PROVE  Gap(top, Recovered(bs).seq) <= Span
  BY <1>1, OutcomesRecoverable DEF Bounded
<1>2. QED BY <1>1 DEF RollbackBounded, Gap, Span

\* Every earlier boot count is smaller.
LEMMA BoundedFresh == ASSUME Bounded PROVE BootCountFresh
<1>1. ASSUME ~initFailed, pc \in {"run", "checkpoint"} PROVE boot \notin used
  <2>1. boot \in Nat /\ \A u \in used : u < boot
    BY <1>1 DEF Bounded, Kept, TypeOK, Behind, Running
  <2>2. QED BY <2>1
<1>2. QED BY <1>1 DEF BootCountFresh

\* Whatever moment power fails at, at most one interval of numbers rolls back,
\* and one more for each failed checkpoint.
THEOREM RollbackBoundedCorrect == ASSUME Room PROVE Spec => []RollbackBounded
<1>1. Init => Bounded
  BY InitBounded
<1>2. Bounded /\ [Next]_vars => Bounded'
  BY StepBounded
<1>3. Bounded => RollbackBounded
  BY BoundedRollback
<1>4. QED BY <1>1, <1>2, <1>3, PTL DEF Spec

\* A boot never issues numbers under the boot count of an earlier one.
THEOREM BootCountFreshCorrect == ASSUME Room PROVE Spec => []BootCountFresh
<1>1. Init => Bounded
  BY InitBounded
<1>2. Bounded /\ [Next]_vars => Bounded'
  BY StepBounded
<1>3. Bounded => BootCountFresh
  BY BoundedFresh
<1>4. QED BY <1>1, <1>2, <1>3, PTL DEF Spec

=============================================================================
