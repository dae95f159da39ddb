--------------------------- MODULE PersistentSeq ---------------------------
(***************************************************************************)
(* The sequence counter of gateway_ipc.c and its A/B banks in Em_EEPROM    *)
(* (persistent_seq.c), with power failing at any moment and writes that    *)
(* may fail.                                                               *)
(*                                                                         *)
(* Sequence numbers are counted modulo M, 2^32 in the code.  A bank is     *)
(* valid when its magic and CRC are right.  Until a row write returns, its *)
(* row holds the old contents, the new ones, or neither: power loss and a  *)
(* failing write leave any of them (WriteOutcomes).                        *)
(***************************************************************************)
EXTENDS Integers

CONSTANTS
  M,         \* number of sequence numbers
  Interval,  \* PERSISTENT_SEQ_CHECKPOINT_INTERVAL
  MaxBoots,  \* bound of the model: boots
  MaxFails   \* bound of the model: checkpoints whose write fails

ASSUME SeqAssumption ==
  /\ M \in Nat /\ M > 1 /\ Interval \in Nat \ {0}
  /\ MaxBoots \in Nat /\ MaxFails \in Nat

VARIABLES
  bank,        \* the two rows
  seq,         \* s_seq
  boot,        \* s_boot_count
  nextBank,    \* s_next_bank
  counter,     \* s_seq_counter
  pc,          \* "off", "init" and "checkpoint": a row write is under way
  target,      \* the bank that write goes to
  boots,       \* history: power-ups
  top,         \* history: successor of the most advanced number issued
  used,        \* history: boot counts numbers were issued under, before this boot
  issuing,     \* history: a number was issued in this boot
  fails,       \* history: failed checkpoints
  initFailed   \* history: the write at some boot failed

ramVars  == <<seq, boot, nextBank, counter>>
histVars == <<boots, top, used, issuing, fails, initFailed>>
vars == <<bank, ramVars, pc, target, histVars>>

Banks == {0, 1}
Other(b) == 1 - b

Invalid == [valid |-> FALSE, seq |-> 0, boot |-> 0]
\* bank_prepare
Prepared == [valid |-> TRUE, seq |-> seq, boot |-> boot]

(***************************************************************************)
(* The bank init recovers from.                                            *)
(***************************************************************************)
\* (int32_t)(a - b) > 0
NewerUnsigned(a, b) == a > b
Newer(a, b) == 2 * ((a - b) % M) < M /\ a # b

PrefersA(a, b) ==
  \/ a.valid /\ ~b.valid
  \/ /\ a.valid /\ b.valid
     /\ \/ Newer(a.seq, b.seq)
        \/ a.seq = b.seq /\ a.boot >= b.boot
PrefersAOnEqualSeq(a, b) ==
  \/ a.valid /\ ~b.valid
  \/ /\ a.valid /\ b.valid
     /\ ~Newer(b.seq, a.seq)
\* 0 or 1, or -1 when neither bank is valid.
SourceAlwaysA(bs) == IF PrefersAOnEqualSeq(bs[0], bs[1]) THEN 0
                     ELSE IF bs[1].valid THEN 1 ELSE -1
Source(bs) == IF PrefersA(bs[0], bs[1]) THEN 0
              ELSE IF bs[1].valid THEN 1 ELSE -1

Recovered(bs) == IF Source(bs) = -1 THEN Invalid ELSE bs[Source(bs)]
WriteBank(source) == IF source <= 0 THEN 1 ELSE 0

(***************************************************************************)
(* Row writes.                                                             *)
(***************************************************************************)
Writing == pc \in {"init", "checkpoint"}
\* What the rows may hold if the write under way does not return.
WriteOutcomes ==
  IF Writing
  THEN {bank, [bank EXCEPT ![target] = Invalid],
              [bank EXCEPT ![target] = Prepared]}
  ELSE {bank}
\* Cy_Flash_WriteRow reports success.
Programmed == bank' = [bank EXCEPT ![target] = Prepared]

(***************************************************************************)
(* persistent_seq_init and the restore in gateway_ipc_init.                *)
(***************************************************************************)
PowerOn ==
  /\ pc = "off" /\ boots < MaxBoots
  /\ seq' = Recovered(bank).seq
  /\ boot' = Recovered(bank).boot + 1
  /\ nextBank' = 0
  /\ target' = WriteBank(Source(bank))
  /\ pc' = "init"
  /\ boots' = boots + 1
  /\ issuing' = FALSE
  /\ UNCHANGED <<bank, counter, top, used, fails, initFailed>>

InitWritten ==
  /\ pc = "init"
  /\ Programmed
  /\ nextBank' = Other(target)
  /\ counter' = seq
  /\ pc' = "run"
  /\ UNCHANGED <<seq, boot, target, histVars>>

\* The caller ignores the result: the counter is restored, s_next_bank is not
\* set.
InitFails ==
  /\ pc = "init"
  /\ bank' \in WriteOutcomes
  /\ counter' = seq
  /\ pc' = "run"
  /\ initFailed' = TRUE
  /\ UNCHANGED <<seq, boot, nextBank, target, boots, top, used, issuing, fails>>

(***************************************************************************)
(* gateway_ipc_next_seq, called by pmbus_poll_task only.  A number is      *)
(* issued when the call returns it.                                        *)
(***************************************************************************)
Issue(n) ==
  /\ top' = IF n = top THEN (n + 1) % M ELSE top
  /\ issuing' = TRUE
  /\ UNCHANGED <<boots, used>>

IncrementNoWrap == counter' = counter + 1
Increment == counter' = (counter + 1) % M

NextSeq ==
  /\ pc = "run" /\ counter % Interval # 0
  /\ Increment
  /\ Issue(counter)
  /\ UNCHANGED <<bank, seq, boot, nextBank, pc, target, fails, initFailed>>

\* persistent_seq_checkpoint, up to the row write.
NextSeqCheckpoint ==
  /\ pc = "run" /\ counter % Interval = 0
  /\ Increment
  /\ seq' = counter
  /\ target' = nextBank
  /\ pc' = "checkpoint"
  /\ UNCHANGED <<bank, boot, nextBank, histVars>>

CheckpointWritten ==
  /\ pc = "checkpoint"
  /\ Programmed
  /\ nextBank' = Other(nextBank)
  /\ pc' = "run"
  /\ Issue(seq)
  /\ UNCHANGED <<seq, boot, counter, target, fails, initFailed>>

CheckpointFailsAlternating ==
  /\ pc = "checkpoint" /\ fails < MaxFails
  /\ bank' \in WriteOutcomes
  /\ nextBank' = Other(nextBank)
  /\ pc' = "run"
  /\ fails' = fails + 1
  /\ Issue(seq)
  /\ UNCHANGED <<seq, boot, counter, target, initFailed>>
CheckpointFails ==
  /\ pc = "checkpoint" /\ fails < MaxFails
  /\ bank' \in WriteOutcomes
  /\ pc' = "run"
  /\ fails' = fails + 1
  /\ Issue(seq)
  /\ UNCHANGED <<seq, boot, nextBank, counter, target, initFailed>>

PowerLoss ==
  /\ pc # "off"
  /\ bank' \in WriteOutcomes
  /\ pc' = "off"
  /\ used' = IF issuing THEN used \union {boot} ELSE used
  /\ UNCHANGED <<ramVars, target, boots, top, issuing, fails, initFailed>>

(***************************************************************************)
(* Specification: a device whose banks have never been written.            *)
(***************************************************************************)
Init ==
  /\ bank = [b \in Banks |-> Invalid]
  /\ seq = 0 /\ boot = 0 /\ nextBank = 0 /\ counter = 0
  /\ pc = "off" /\ target = 0
  /\ boots = 0 /\ top = 0 /\ used = {} /\ issuing = FALSE
  /\ fails = 0 /\ initFailed = FALSE

Next ==
  \/ PowerOn \/ InitWritten \/ InitFails
  \/ NextSeq \/ NextSeqCheckpoint \/ CheckpointWritten \/ CheckpointFails
  \/ PowerLoss

Spec == Init /\ [][Next]_vars

(***************************************************************************)
(* Properties.                                                             *)
(***************************************************************************)
Row == [valid : BOOLEAN, seq : 0 .. M - 1, boot : Nat]

\* Types; a row that was never written or torn is Invalid.
TypeOK ==
  /\ bank \in [Banks -> Row]
  /\ seq \in 0 .. M - 1 /\ boot \in Nat
  /\ nextBank \in Banks /\ counter \in 0 .. M - 1
  /\ pc \in {"off", "init", "run", "checkpoint"} /\ target \in Banks
  /\ boots \in Nat /\ top \in 0 .. M - 1 /\ used \subseteq Nat
  /\ issuing \in BOOLEAN /\ fails \in Nat /\ initFailed \in BOOLEAN

\* Ping-pong (persistent_seq.c:224 "Write to the OPPOSITE bank"): as long as
\* no write at boot failed, a row write never takes the only bank the counter
\* could be recovered from, and a failed checkpoint does not spoil the next.
OneBankSurvives ==
  ~initFailed /\ (issuing \/ used # {}) =>
    \A bs \in WriteOutcomes : bs[0].valid \/ bs[1].valid

\* "Up to PERSISTENT_SEQ_CHECKPOINT_INTERVAL values can roll back after crash/
\* power loss" (docs/mqtt_topics.md:65): whatever moment power fails at, the
\* counter is recovered at most one interval behind the numbers issued, and
\* each failed checkpoint adds at most one more; across the wrap, too.
RollbackBounded ==
  ~initFailed =>
    \A bs \in WriteOutcomes :
      (top - Recovered(bs).seq) % M <= (fails + 1) * Interval

\* Numbers roll back, so consumers tell records of different boots apart by
\* boot_count (scripts/plot/plot.py groups by it): a boot that issues numbers
\* never shares its boot count with an earlier one that did.
BootCountFresh ==
  ~initFailed /\ pc \in {"run", "checkpoint"} => boot \notin used

=============================================================================
