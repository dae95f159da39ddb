----------------------------- MODULE PollTask -----------------------------
(***************************************************************************)
(* pmbus_poll_task.c on a shared PMBus, with the transfers and the bus     *)
(* recovery of pmbus_master.c, the status half of publish_filter.c and the *)
(* alert behaviour of the target simulator.                                *)
(*                                                                         *)
(* Every 10 ms the task answers a pending SMBALERT#, visits the configured *)
(* devices in order (telemetry, then status, each when it is due) and runs *)
(* at most one remote command.  Time is abstract: a poll that is due may   *)
(* happen at any visit, a backoff ends at any moment, and of the tick      *)
(* count only its half is kept, because the backoff arithmetic depends on  *)
(* it.  A poll reads Commands registers; a telemetry record is whether any *)
(* of them answered, a status record the set that answered and the value   *)
(* of the first, STATUS_WORD: fault or no fault.  The cached VOUT_MODE     *)
(* read is one more transfer nothing here depends on, and is left out.     *)
(* smbalert_enabled is set.                                                *)
(***************************************************************************)
EXTENDS Naturals, FiniteSets

CONSTANTS
  Devices,     \* addresses of the devices on the bus
  Configured,  \* those the gateway is configured to poll
  Commands,    \* reads of one poll
  Retries,     \* g_config.i2c.retries
  BusRecovery, \* g_config.i2c.bus_recovery
  Threshold,   \* OFFLINE_FAIL_THRESHOLD
  MaxEvents    \* bound of the model: faults, removals, stuck lines, glitches
               \* and full queues, together

ASSUME PollAssumption ==
  /\ Devices \subseteq Nat /\ IsFiniteSet(Devices)
  /\ Configured \subseteq Devices /\ Configured # {}
  /\ Commands \in Nat \ {0} /\ Retries \in Nat /\ BusRecovery \in BOOLEAN
  /\ Threshold \in Nat \ {0} /\ MaxEvents \in Nat

VARIABLES
  present,   \* devices that answer their address
  fault,     \* devices with s_fault_latched
  status,    \* configured devices whose STATUS_WORD shows the fault
  alert,     \* devices that drive SMBALERT# low
  low,       \* SCL or SDA is held low
  pending,   \* s_smbalert_pending
  urgent,    \* devices with status_poll_urgent
  busy,      \* CY_SCB_I2C_MASTER_BUSY
  backoff,   \* pmbus_bus_backoff_until: "none" for 0, else a deadline that
             \* lies "ahead" or has "passed"
  late,      \* the tick count is at least 2^31
  held,      \* devices whose deadlines were deferred to the tick's wrap
  fails,     \* consec_fails, up to Threshold
  online,    \* devices with online set
  baseline,  \* status_fs of each device; NoRecord without have_last
  pc,        \* where the task is
  left,      \* devices still to be visited in this tick, the current first
  cmd,       \* the command of the poll, Commands + 1 at its end
  attempt,   \* retries used up for cmd; ARA reads made
  got,       \* commands of the poll that were answered
  word,      \* STATUS_WORD as read by the poll
  reported,  \* history: the fault state last posted for each device
  missed,    \* history: SMBALERT# was low when its interrupt was armed, or an
             \* ARA loop left it low, and it has been low ever since
  events     \* what MaxEvents bounds

world == <<present, fault, status, alert, events>>
alarm == <<pending, urgent, missed>>
bus == <<low, busy, backoff, late>>
devices == <<held, fails, online, baseline, reported>>
poll == <<cmd, attempt, got, word>>
vars == <<world, alarm, bus, devices, pc, left, poll>>

NoRecord == [mask |-> {}, word |-> FALSE]

Lowest(S) == CHOOSE d \in S : \A e \in S : d <= e
cur == Lowest(left)

Event == events < MaxEvents /\ events' = events + 1

(***************************************************************************)
(* The shared backoff.  A deadline is set when a controller reset is       *)
(* skipped because a line is low; it counts while a line is low.  With no  *)
(* deadline the variable is 0, which lies ahead of every tick count from   *)
(* 2^31 on: then a low line counts as backoff, until the wrap, and a new   *)
(* deadline never looks later than 0, so that none is set.  Whoever finds  *)
(* the backoff inactive erases the deadline.                               *)
(***************************************************************************)
Active == low /\ (backoff = "ahead" \/ (backoff = "none" /\ late))

(***************************************************************************)
(* A transfer.  Its results: <<status, the master block remains busy>>.    *)
(***************************************************************************)
Results(d) ==
  IF busy THEN {<<"NOT_READY", TRUE>>}
  ELSE IF low THEN {<<"TIMEOUT", TRUE>>, <<"TIMEOUT", FALSE>>,
                    <<"NOT_READY", FALSE>>, <<"BUS_FAULT", FALSE>>}
  ELSE {<<IF d \in present THEN "OK" ELSE "NACK", FALSE>>}

\* What a disturbed transfer may end with although the lines are free.
Disturbed(d) ==
  IF busy \/ low THEN {}
  ELSE {"TIMEOUT", "ARB_LOST", "BUS_FAULT"} \X {FALSE}
       \cup IF d \in present THEN {<<"PEC", FALSE>>} ELSE {}

ResetsOnTimeout == {"TIMEOUT"}
ResetsOn == {"TIMEOUT", "NOT_READY"}
Aborts == {"TIMEOUT", "NACK", "ARB_LOST", "BUS_FAULT", "NOT_READY"}

\* wait_for_completion asks for a reset when the master is busy after the
\* abort, a reader also when a transfer does not start.
WantsReset(r, statuses) ==
  r[1] \in statuses /\ (r[1] = "TIMEOUT" => r[2])

\* pmbus_reset_controller_if_idle, when it is called.  Whoever starts a
\* transfer has found the backoff inactive: no deadline is in the way.
Controller(r, statuses) ==
  /\ busy' = (r[2] /\ ~(WantsReset(r, statuses) /\ ~low))
  /\ backoff' = IF WantsReset(r, statuses) /\ low /\ ~late THEN "ahead" ELSE "none"

(***************************************************************************)
(* The tick: SMBALERT# first.  The pin's interrupt is on the falling edge. *)
(***************************************************************************)
\* An alert raised (set S drives the line from now on) by the devices.
Edge(S) ==
  /\ alert' = S
  /\ pending' = (pending \/ (alert = {} /\ S # {}))
  /\ missed' = (missed /\ alert # {} /\ S # {})
\* s_smbalert_pending once the loop of ARA reads is over.
PendingAfterAraCleared == FALSE
PendingAfterAra == pending

Visit(devs) == pc' = "device" /\ left' = devs

\* Nothing pending, or the backoff keeps it for a later tick.
NoAlert ==
  /\ pc = "tick" /\ (pending => Active)
  /\ Visit(Configured)
  /\ UNCHANGED <<world, alarm, bus, devices, poll>>

TakeAlert ==
  /\ pc = "tick" /\ pending /\ ~Active
  /\ pc' = "ara" /\ pending' = FALSE /\ backoff' = "none"
  /\ UNCHANGED <<world, urgent, missed, low, busy, late, devices, left, poll>>

Reads == Cardinality(Configured)
AraReading == pc = "ara" /\ attempt < Reads

\* A device answers: the one with the lowest address, which then releases
\* the line.
AraAnswered ==
  /\ AraReading /\ ~busy /\ ~low /\ alert # {}
  /\ alert' = alert \ {Lowest(alert)}
  /\ urgent' = urgent \cup ({Lowest(alert)} \cap Configured)
  /\ attempt' = attempt + 1
  /\ UNCHANGED <<present, fault, status, events, pending, missed, bus, devices,
                 pc, left, cmd, got, word>>

\* No answer: nobody alerts.
AraNack ==
  /\ AraReading /\ ~busy /\ ~low /\ alert = {}
  /\ attempt' = Reads
  /\ UNCHANGED <<world, alarm, bus, devices, pc, left, cmd, got, word>>

\* The read waits for the master to be free, is not retried, and a refusal
\* to start does not reset the controller.
AraFails ==
  /\ AraReading /\ (busy \/ low)
  /\ \E r \in Results(Lowest(Devices)) : Controller(r, ResetsOnTimeout)
  /\ attempt' = Reads
  /\ UNCHANGED <<world, alarm, low, late, devices, pc, left, cmd, got, word>>

\* The answer is disturbed, before or after the device released the line.
AraDisturbed ==
  /\ AraReading /\ ~busy /\ ~low /\ Event
  /\ \/ alert' = alert
     \/ alert # {} /\ alert' = alert \ {Lowest(alert)}
  /\ attempt' = Reads
  /\ UNCHANGED <<present, fault, status, alarm, bus, devices, pc, left, cmd, got, word>>

\* After the limit of the loop, or its break.
AraOver ==
  /\ pc = "ara" /\ attempt = Reads
  /\ Visit(Configured) /\ attempt' = 0
  /\ pending' = PendingAfterAra /\ missed' = (alert # {} /\ ~pending)
  /\ UNCHANGED <<world, urgent, bus, devices, cmd, got, word>>

(***************************************************************************)
(* Visiting a device: defer_polls_for_bus_backoff before either poll.      *)
(***************************************************************************)
Leave ==
  /\ pc' = IF left = {cur} THEN "command" ELSE "device"
  /\ left' = left \ {cur}

Deferred ==
  /\ pc \in {"device", "between"} /\ Active
  /\ held' = IF backoff = "ahead" THEN held ELSE held \cup {cur}
  /\ Leave
  /\ UNCHANGED <<world, alarm, bus, fails, online, baseline, reported, poll>>

\* The backoff is inactive: its deadline is erased.
Start(p) ==
  /\ ~Active /\ backoff' = "none"
  /\ pc' = p /\ cmd' = 1
  /\ UNCHANGED <<world, pending, missed, low, busy, late, devices, left,
                 attempt, got, word>>

TelemetryDue(d) ==
  /\ pc = "device" /\ cur = d /\ d \notin held
  /\ Start("telemetry") /\ UNCHANGED urgent
TelemetryNotDue ==
  pc = "device" /\ Start("between") /\ UNCHANGED urgent

\* The urgent mark is taken before the poll, whatever becomes of the poll.
StatusDue(d) ==
  /\ pc = "between" /\ cur = d /\ (d \in urgent \/ d \notin held)
  /\ Start("status") /\ urgent' = urgent \ {d}
StatusNotDue ==
  /\ pc = "between" /\ cur \notin urgent
  /\ ~Active /\ backoff' = "none" /\ Leave
  /\ UNCHANGED <<world, alarm, low, busy, late, devices, poll>>

(***************************************************************************)
(* pmbus_read_word and pmbus_read_byte: one attempt of the current command.*)
(***************************************************************************)
Polling == pc \in {"telemetry", "status"} /\ cmd <= Commands

Succeeds(r) ==
  /\ r[1] = "OK"
  /\ cmd' = cmd + 1 /\ attempt' = 0 /\ got' = got \cup {cmd}
  /\ word' = IF pc = "status" /\ cmd = 1 THEN cur \in status ELSE word
  /\ Controller(r, ResetsOn) /\ UNCHANGED low

\* Another attempt, after nine clock pulses if the bus was at fault: they
\* restart the master and may make the device release the line.
Retried(r) ==
  /\ r[1] # "OK" /\ attempt < Retries
  /\ attempt' = attempt + 1
  /\ IF BusRecovery /\ r[1] = "BUS_FAULT"
     THEN busy' = FALSE /\ backoff' = "none" /\ low' \in {low, FALSE}
     ELSE Controller(r, ResetsOn) /\ UNCHANGED low
  /\ UNCHANGED <<cmd, got, word>>

\* The command has failed: the next one, unless the error ends the poll.
GivenUp(r) ==
  /\ r[1] # "OK" /\ attempt = Retries
  /\ attempt' = 0
  /\ cmd' = IF r[1] \in Aborts THEN Commands + 1 ELSE cmd + 1
  /\ Controller(r, ResetsOn)
  /\ UNCHANGED <<low, got, word>>

\* Every attempt first waits until the backoff is inactive.
Attempt(results) ==
  /\ Polling /\ ~Active
  /\ \E r \in results : Succeeds(r) \/ Retried(r) \/ GivenUp(r)
  /\ UNCHANGED <<present, fault, status, alert, alarm, late, devices, pc, left>>

Read == Attempt(Results(cur)) /\ UNCHANGED events
ReadDisturbed == Polling /\ Attempt(Disturbed(cur)) /\ Event

(***************************************************************************)
(* The end of a poll.                                                      *)
(***************************************************************************)
PollOver == cmd' = 1 /\ attempt' = 0 /\ got' = {} /\ word' = FALSE

FailsAfterUncapped == IF got # {} THEN 0 ELSE fails[cur] + 1
FailsAfterStuck == IF got # {} THEN 0 ELSE fails[cur]
FailsAfter ==
  IF got # {} THEN 0
  ELSE IF fails[cur] < Threshold THEN fails[cur] + 1 ELSE Threshold

\* Counting and check_online_transition: a device that comes online loses
\* its baseline, so that its next status is reported.
TelemetryDone ==
  /\ pc = "telemetry" /\ cmd > Commands
  /\ fails' = [fails EXCEPT ![cur] = FailsAfter]
  /\ IF got # {}
     THEN /\ online' = online \cup {cur}
          /\ baseline' = IF cur \in online THEN baseline
                         ELSE [baseline EXCEPT ![cur] = NoRecord]
     ELSE /\ online' = IF fails'[cur] >= Threshold THEN online \ {cur} ELSE online
          /\ UNCHANGED baseline
  /\ PollOver /\ pc' = "between"
  /\ UNCHANGED <<world, alarm, bus, held, reported, left>>

Record == [mask |-> got, word |-> word]

\* pf_should_emit_status with status_emit_initial set; NoRecord, with no
\* register valid, differs from every record that is offered.
Emits == Record # baseline[cur]

\* pf_advance_status_baseline, after an attempt to post that succeeded or not.
BaselineAfterAlways(posted) == [baseline EXCEPT ![cur] = Record]
BaselineAfter(posted) ==
  IF posted THEN [baseline EXCEPT ![cur] = Record] ELSE baseline

StatusOver == PollOver /\ Leave /\ UNCHANGED <<present, fault, status, alert, alarm,
                                               bus, held, fails, online>>
\* No register read, or nothing new: no record.
StatusSuppressed ==
  /\ pc = "status" /\ cmd > Commands /\ (got = {} \/ ~Emits)
  /\ StatusOver /\ UNCHANGED <<baseline, reported, events>>
StatusPosted ==
  /\ pc = "status" /\ cmd > Commands /\ got # {} /\ Emits
  /\ baseline' = BaselineAfter(TRUE)
  /\ reported' = IF 1 \in got THEN [reported EXCEPT ![cur] = word] ELSE reported
  /\ StatusOver /\ UNCHANGED events
\* The status queue and its rescue ring are full.
StatusDropped ==
  /\ pc = "status" /\ cmd > Commands /\ got # {} /\ Emits /\ Event
  /\ baseline' = BaselineAfter(FALSE)
  /\ StatusOver /\ UNCHANGED reported

(***************************************************************************)
(* At most one remote command: a single attempt that resets nothing when   *)
(* it cannot start.                                                        *)
(***************************************************************************)
NoCommand ==
  /\ pc = "command" /\ pc' = "tick"
  /\ UNCHANGED <<world, alarm, bus, devices, left, poll>>
TakeCommand ==
  /\ pc = "command" /\ pc' = "transfer"
  /\ UNCHANGED <<world, alarm, bus, devices, left, poll>>
Transfer ==
  /\ pc = "transfer" /\ ~Active
  /\ \E d \in Devices : \E r \in Results(d) : Controller(r, ResetsOnTimeout)
  /\ pc' = "tick"
  /\ UNCHANGED <<world, alarm, low, late, devices, left, poll>>

Task ==
  \/ NoAlert \/ TakeAlert \/ AraAnswered \/ AraNack \/ AraFails \/ AraOver
  \/ Deferred \/ TelemetryNotDue \/ StatusNotDue
  \/ \E d \in Configured : TelemetryDue(d) \/ StatusDue(d)
  \/ Read \/ TelemetryDone \/ StatusSuppressed \/ StatusPosted
  \/ NoCommand \/ TakeCommand \/ Transfer
Misfortune == AraDisturbed \/ ReadDisturbed \/ StatusDropped

(***************************************************************************)
(* The devices, the lines and the time.                                    *)
(***************************************************************************)
gateway == <<urgent, devices, pc, left, poll>>

\* The simulator drives SMBALERT# before it updates its registers, which are
\* read of a configured device only.
FaultRaised(d) ==
  /\ d \in present \ fault /\ Event
  /\ fault' = fault \cup {d} /\ Edge(alert \cup {d})
  /\ UNCHANGED <<present, status, bus, gateway>>
RegistersUpdated(d) ==
  /\ d \in fault \ status /\ status' = status \cup {d}
  /\ UNCHANGED <<present, fault, alert, events, alarm, bus, gateway>>
\* CLEAR_FAULTS, or the operator's command.
FaultCleared(d) ==
  /\ d \in fault /\ Event
  /\ fault' = fault \ {d} /\ status' = status \ {d} /\ Edge(alert \ {d})
  /\ UNCHANGED <<present, bus, gateway>>

\* A device loses power, and its faults, or gets it back.  One that is not
\* configured differs then in nothing from one without a fault.
Removed(d) ==
  /\ d \in present /\ Event
  /\ present' = present \ {d}
  /\ fault' = fault \ {d} /\ status' = status \ {d} /\ Edge(alert \ {d})
  /\ UNCHANGED <<bus, gateway>>
Inserted(d) ==
  /\ d \in Configured \ present /\ Event
  /\ present' = present \cup {d}
  /\ UNCHANGED <<fault, status, alert, alarm, bus, gateway>>

LineStuck ==
  /\ ~low /\ Event /\ low' = TRUE
  /\ UNCHANGED <<present, fault, status, alert, alarm, busy, backoff, late, gateway>>
\* The master may end an aborted transfer when the line is free again.
LineFreed ==
  /\ low /\ low' = FALSE /\ busy' \in {busy, FALSE}
  /\ UNCHANGED <<world, alarm, backoff, late, gateway>>
BackoffEnds ==
  /\ backoff = "ahead" /\ backoff' = "passed"
  /\ UNCHANGED <<world, alarm, low, busy, late, gateway>>
\* The tick count reaches 2^31.
HalfPassed ==
  /\ ~late /\ late' = TRUE
  /\ UNCHANGED <<world, alarm, low, busy, backoff, gateway>>
\* The tick count wraps to 0.
Wrap ==
  /\ late /\ late' = FALSE /\ held' = {}
  /\ UNCHANGED <<world, alarm, low, busy, backoff, urgent, fails, online,
                 baseline, reported, pc, left, poll>>

Environment ==
  \/ \E d \in Devices : FaultRaised(d) \/ FaultCleared(d)
  \/ \E d \in Configured : RegistersUpdated(d) \/ Removed(d) \/ Inserted(d)
  \/ LineStuck \/ LineFreed \/ BackoffEnds \/ HalfPassed \/ Wrap

Next == Task \/ Misfortune \/ Environment

\* The gateway boots at any time in the life of the devices, which may have
\* faults, drive SMBALERT# and hold a line.  The interrupt of the pin is armed
\* for its falling edge and the level is not read: a line that is low by then
\* leaves no mark.
Init ==
  /\ \E absent \in SUBSET Configured : present = Devices \ absent
  /\ fault \in SUBSET present
  /\ status \in SUBSET (fault \cap Configured) /\ alert \in SUBSET fault
  /\ low \in BOOLEAN /\ busy = FALSE /\ backoff = "none" /\ late = FALSE
  /\ pending = FALSE /\ urgent = {} /\ missed = (alert # {})
  /\ held = {} /\ fails = [d \in Configured |-> 0] /\ online = {}
  /\ baseline = [d \in Configured |-> NoRecord]
  /\ reported = [d \in Configured |-> FALSE]
  /\ pc = "tick" /\ left = {} /\ cmd = 1 /\ attempt = 0
  /\ got = {} /\ word = FALSE /\ events = 0

(***************************************************************************)
(* The task is scheduled, polls come due again and again, a target updates *)
(* its registers, lines are released and time passes.                      *)
(***************************************************************************)
Fairness ==
  /\ WF_vars(Task)
  /\ \A d \in Configured : SF_vars(TelemetryDue(d)) /\ SF_vars(StatusDue(d))
  /\ \A d \in Configured : WF_vars(RegistersUpdated(d))
  /\ WF_vars(LineFreed) /\ WF_vars(BackoffEnds) /\ WF_vars(Wrap)

Spec == Init /\ [][Next]_vars /\ Fairness

(***************************************************************************)
(* Properties.                                                             *)
(***************************************************************************)
Records == [mask : SUBSET (1 .. Commands), word : BOOLEAN]

\* Type invariant: consec_fails stays within what it needs to count, only
\* devices on the bus drive the alert line, and only configured ones are
\* marked urgent, deferred or online.
TypeOK ==
  /\ present \subseteq Devices /\ fault \subseteq present
  /\ status \subseteq fault /\ alert \subseteq fault
  /\ low \in BOOLEAN /\ busy \in BOOLEAN /\ late \in BOOLEAN
  /\ backoff \in {"none", "ahead", "passed"}
  /\ pending \in BOOLEAN /\ missed \in BOOLEAN
  /\ urgent \subseteq Configured /\ held \subseteq Configured
  /\ online \subseteq Configured
  /\ fails \in [Configured -> 0 .. Threshold]
  /\ baseline \in [Configured -> Records]
  /\ reported \in [Configured -> BOOLEAN]
  /\ pc \in {"tick", "ara", "device", "telemetry", "between", "status",
             "command", "transfer"}
  /\ left \subseteq Configured
  /\ cmd \in 1 .. Commands + 1 /\ attempt \in Nat
  /\ got \subseteq 1 .. Commands /\ word \in BOOLEAN
  /\ events \in 0 .. MaxEvents

\* While a device drives SMBALERT#, the task knows of it: the mark of the
\* interrupt is set or the ARA loop is under way.  The mark is cleared before
\* the loop, so that an edge during the loop is kept for the next tick.
\* Excepted is the line that has been low since before the interrupt was armed,
\* at boot, and the line an ARA loop left low by an error or by its limit,
\* either until it is released.
AlertNeverForgotten ==
  alert # {} /\ ~missed => pending \/ pc = "ara"

\* Whatever the bus, the alerts and the queues do for a while, in the end
\* the last status record posted for a device that answers shows whether it
\* has a fault: on-change filtering never swallows a change for good.
FaultReported ==
  <>[](\A d \in Configured \cap present : reported[d] = (d \in status))

\* In the end exactly the configured devices that answer are online, bus
\* failures that hit every device alike notwithstanding.
DeviceStateSettles == <>[](online = present \cap Configured)

\* A transfer that hangs on a stuck line leaves the master busy, and the
\* reset is skipped while the line is low: some later transfer makes up for it.
ControllerRecovers == <>[]~busy
=============================================================================
