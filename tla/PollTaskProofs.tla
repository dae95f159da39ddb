--------------------------- MODULE PollTaskProofs ---------------------------
(***************************************************************************)
(* Proofs about PollTask, for every set of devices, number of commands and *)
(* retries, threshold and number of events: its types, and that an alert   *)
(* is never forgotten.                                                     *)
(***************************************************************************)
EXTENDS PollTask, TLAPS, WellFoundedInduction, FiniteSetTheorems

(***************************************************************************)
(* The device a visit or an ARA read is about exists.                      *)
(***************************************************************************)
LEMMA LowestIn ==
  ASSUME NEW S \in SUBSET Nat, S # {} PROVE Lowest(S) \in S
<1>1. PICK R : /\ IsWellFoundedOn(R, Nat)
               /\ R = {ss \in Nat \X Nat : ss[1] < ss[2]}
  <2>1. IsWellFoundedOn(OpToRel(<, Nat), Nat)
    BY NatLessThanWellFounded, Zenon
  <2>2. OpToRel(<, Nat) = {ss \in Nat \X Nat : ss[1] < ss[2]}
    BY Zenon DEF OpToRel
  <2> QED BY <2>1, <2>2, Zenon
<1>2. PICK x \in S : \A y \in S : ~(<<y, x>> \in R)
  BY <1>1, WFMin
<1>3. ASSUME NEW y \in S PROVE x <= y
  <2>1. /\ <<y, x>> \in Nat \X Nat
        /\ <<y, x>>[1] = y /\ <<y, x>>[2] = x
    OBVIOUS
  <2>2. ~(<<y, x>>[1] < <<y, x>>[2])
    BY <1>1, <1>2, <2>1, Zenon
  <2> QED BY <2>1, <2>2
<1> QED BY <1>3, Zenon DEF Lowest

(***************************************************************************)
(* The parts of TypeOK, and what makes them inductive: while a device is   *)
(* visited, there is one left to visit.                                    *)
(***************************************************************************)
WorldTypes ==
  /\ present \subseteq Devices /\ fault \subseteq present
  /\ status \subseteq fault /\ alert \subseteq fault
  /\ events \in 0 .. MaxEvents
AlarmTypes ==
  pending \in BOOLEAN /\ missed \in BOOLEAN /\ urgent \subseteq Configured
Backoffs == {"none", "ahead", "passed"}
BusTypes ==
  low \in BOOLEAN /\ busy \in BOOLEAN /\ late \in BOOLEAN /\ backoff \in Backoffs
DeviceTypes ==
  /\ held \subseteq Configured /\ online \subseteq Configured
  /\ fails \in [Configured -> 0 .. Threshold]
  /\ baseline \in [Configured -> Records] /\ reported \in [Configured -> BOOLEAN]
PCs == {"tick", "ara", "device", "telemetry", "between", "status",
        "command", "transfer"}
PollTypes ==
  /\ pc \in PCs /\ left \subseteq Configured
  /\ cmd \in 1 .. Commands + 1 /\ attempt \in Nat
  /\ got \subseteq 1 .. Commands /\ word \in BOOLEAN

Visits == {"device", "telemetry", "between", "status"}
Visiting == pc \in Visits => left # {}
Typed == TypeOK /\ Visiting

LEMMA TypeParts ==
  /\ TypeOK <=> WorldTypes /\ AlarmTypes /\ BusTypes /\ DeviceTypes /\ PollTypes
  /\ TypeOK' <=> WorldTypes' /\ AlarmTypes' /\ BusTypes' /\ DeviceTypes' /\ PollTypes'
  BY DEF TypeOK, WorldTypes, AlarmTypes, BusTypes, Backoffs, DeviceTypes, PollTypes, PCs

LEMMA CurType == ASSUME Typed, pc \in Visits PROVE cur \in left /\ cur \in Configured
<1>1. left \in SUBSET Nat /\ left # {} /\ left \subseteq Configured
  BY PollAssumption DEF Typed, TypeOK, Visiting
<1> QED BY <1>1, LowestIn DEF cur

LEMMA RecordTypes == ASSUME Typed PROVE Record \in Records /\ NoRecord \in Records
<1>1. got \in SUBSET (1 .. Commands) /\ {} \in SUBSET (1 .. Commands)
  BY DEF Typed, TypeOK
<1>2. word \in BOOLEAN
  BY DEF Typed, TypeOK
<1>3. Record \in Records
  BY <1>1, <1>2, Zenon DEF Record, Records
<1>4. NoRecord \in Records
  BY <1>1, Zenon DEF NoRecord, Records
<1> QED BY <1>3, <1>4

LEMMA InitTyped == Init => Typed
<1> SUFFICES ASSUME Init PROVE Typed
  OBVIOUS
<1>1. WorldTypes
  BY PollAssumption DEF Init, WorldTypes
<1>2. AlarmTypes /\ BusTypes
  <2>1. FALSE \in BOOLEAN /\ (alert # {}) \in BOOLEAN /\ "none" \in Backoffs
    BY DEF Backoffs
  <2>2. {} \subseteq Configured
    OBVIOUS
  <2> QED BY <2>1, <2>2, Zenon DEF Init, AlarmTypes, BusTypes
<1>3. DeviceTypes
  <2>1. NoRecord \in Records
    BY Zenon DEF NoRecord, Records
  <2>2. 0 \in 0 .. Threshold
    BY PollAssumption
  <2>3. baseline \in [Configured -> Records]
    BY <2>1, Zenon DEF Init
  <2>4. fails \in [Configured -> 0 .. Threshold]
    BY <2>2 DEF Init
  <2>5. reported \in [Configured -> BOOLEAN]
    BY Zenon DEF Init
  <2>6. held \subseteq Configured /\ online \subseteq Configured
    BY Zenon DEF Init
  <2> QED BY <2>3, <2>4, <2>5, <2>6, Zenon DEF DeviceTypes
<1>4. PollTypes /\ Visiting
  <2>1. word \in BOOLEAN
    BY Zenon DEF Init
  <2> QED BY <2>1, PollAssumption DEF Init, PollTypes, PCs, Visiting, Visits
<1> QED BY <1>1, <1>2, <1>3, <1>4, TypeParts DEF Typed

(***************************************************************************)
(* Every step keeps the types, one lemma for each part of the machine.     *)
(***************************************************************************)
LEMMA Kept ==
  /\ WorldTypes /\ UNCHANGED world => WorldTypes'
  /\ AlarmTypes /\ UNCHANGED alarm => AlarmTypes'
  /\ BusTypes /\ UNCHANGED bus => BusTypes'
  /\ DeviceTypes /\ UNCHANGED devices => DeviceTypes'
<1>1. WorldTypes /\ UNCHANGED world => WorldTypes'
  BY DEF WorldTypes, world
<1>2. AlarmTypes /\ UNCHANGED alarm => AlarmTypes'
  BY Zenon DEF AlarmTypes, alarm
<1>3. BusTypes /\ UNCHANGED bus => BusTypes'
  BY Zenon DEF BusTypes, bus
<1>4. DeviceTypes /\ UNCHANGED devices => DeviceTypes'
  BY DEF DeviceTypes, devices
<1> QED BY <1>1, <1>2, <1>3, <1>4

\* What is left to show of a step once its parts are known to be kept.
LEMMA Together ==
  WorldTypes' /\ AlarmTypes' /\ BusTypes' /\ DeviceTypes' /\ PollTypes' /\ Visiting'
    => Typed'
  BY TypeParts DEF Typed

LEMMA Apart ==
  Typed => WorldTypes /\ AlarmTypes /\ BusTypes /\ DeviceTypes /\ PollTypes /\ Visiting
  BY TypeParts DEF Typed

LEMMA ControllerTypes ==
  ASSUME NEW r, NEW S, Controller(r, S), UNCHANGED late, BusTypes, low' \in BOOLEAN
  PROVE BusTypes'
<1>1. busy' \in BOOLEAN /\ backoff' \in Backoffs
  <2>1. backoff' \in Backoffs
    BY DEF Controller, Backoffs
  <2>2. busy' \in BOOLEAN
    BY Zenon DEF Controller
  <2> QED BY <2>1, <2>2
<1>2. late' \in BOOLEAN
  BY Zenon DEF BusTypes
<1> QED BY <1>1, <1>2, Zenon DEF BusTypes

LEMMA AlertSteps ==
  ASSUME Typed,
         NoAlert \/ TakeAlert \/ AraAnswered \/ AraNack \/ AraFails
           \/ AraDisturbed \/ AraOver
  PROVE Typed'
<1> USE Apart, Kept, Together
<1>1. CASE NoAlert
  <2>1. PollTypes' /\ Visiting'
    BY <1>1, PollAssumption
    DEF NoAlert, Visit, PollTypes, PCs, Visiting, Visits, poll
  <2> QED BY <1>1, <2>1 DEF NoAlert
<1>2. CASE TakeAlert
  <2>1. PollTypes' /\ Visiting'
    BY <1>2 DEF TakeAlert, PollTypes, PCs, Visiting, Visits, poll
  <2>2. AlarmTypes' /\ BusTypes'
    <3>1. FALSE \in BOOLEAN /\ "none" \in Backoffs
      BY DEF Backoffs
    <3> QED BY <1>2, <3>1, Zenon DEF TakeAlert, AlarmTypes, BusTypes
  <2> QED BY <1>2, <2>1, <2>2 DEF TakeAlert
<1>3. CASE AraAnswered
  <2>1. PollTypes' /\ Visiting'
    BY <1>3 DEF AraAnswered, AraReading, PollTypes, PCs, Visiting, Visits
  <2>2. WorldTypes'
    BY <1>3 DEF AraAnswered, WorldTypes
  <2>3. AlarmTypes'
    <3>1. urgent' \subseteq Configured
      BY <1>3 DEF AraAnswered, AlarmTypes
    <3> QED BY <1>3, <3>1, Zenon DEF AraAnswered, AlarmTypes
  <2> QED BY <1>3, <2>1, <2>2, <2>3 DEF AraAnswered
<1>4. Reads \in Nat
  <2>1. IsFiniteSet(Configured)
    BY PollAssumption, FS_Subset
  <2> QED BY <2>1, FS_CardinalityType DEF Reads
<1>5. CASE AraNack
  <2>1. PollTypes' /\ Visiting'
    BY <1>5, <1>4 DEF AraNack, AraReading, PollTypes, PCs, Visiting, Visits
  <2> QED BY <1>5, <2>1 DEF AraNack
<1>6. CASE AraFails
  <2>1. PollTypes' /\ Visiting'
    BY <1>6, <1>4 DEF AraFails, AraReading, PollTypes, PCs, Visiting, Visits
  <2>2. BusTypes'
    <3>1. PICK r : Controller(r, ResetsOnTimeout)
      BY <1>6, Zenon DEF AraFails
    <3>2. low' \in BOOLEAN /\ UNCHANGED late
      BY <1>6, Zenon DEF AraFails, BusTypes
    <3> QED BY <3>1, <3>2, ControllerTypes
  <2> QED BY <1>6, <2>1, <2>2 DEF AraFails
<1>7. CASE AraDisturbed
  <2>1. PollTypes' /\ Visiting'
    BY <1>7, <1>4 DEF AraDisturbed, AraReading, PollTypes, PCs, Visiting, Visits
  <2>2. WorldTypes'
    BY <1>7, PollAssumption DEF AraDisturbed, Event, WorldTypes
  <2> QED BY <1>7, <2>1, <2>2 DEF AraDisturbed
<1>8. CASE AraOver
  <2>1. PollTypes' /\ Visiting'
    BY <1>8, PollAssumption
    DEF AraOver, Visit, PollTypes, PCs, Visiting, Visits
  <2>2. AlarmTypes'
    <3>1. (alert # {} /\ ~pending) \in BOOLEAN
      OBVIOUS
    <3> QED BY <1>8, <3>1, Zenon DEF AraOver, PendingAfterAra, AlarmTypes
  <2> QED BY <1>8, <2>1, <2>2 DEF AraOver
<1> QED BY <1>1, <1>2, <1>3, <1>5, <1>6, <1>7, <1>8

\* left \ {cur} is empty exactly when the visit that ends was the last one.
LEMMA LeaveTypes ==
  ASSUME Typed, pc \in Visits, Leave
  PROVE left' \subseteq Configured /\ pc' \in PCs /\ Visiting'
<1>1. cur \in left /\ left \subseteq Configured
  BY CurType DEF Typed, TypeOK
<1> QED BY <1>1 DEF Leave, PCs, Visiting, Visits

LEMMA VisitSteps ==
  ASSUME Typed,
         \/ Deferred \/ TelemetryNotDue \/ StatusNotDue
         \/ \E d \in Configured : TelemetryDue(d) \/ StatusDue(d)
  PROVE Typed'
<1> USE Apart, Kept, Together
<1>1. FALSE \in BOOLEAN /\ "none" \in Backoffs
  BY DEF Backoffs
<1>2. ASSUME NEW p \in {"telemetry", "between", "status"}, pc \in Visits, Start(p)
      PROVE PollTypes' /\ Visiting' /\ BusTypes'
  <2>1. PollTypes' /\ Visiting'
    <3>1. 1 \in 1 .. Commands + 1
      BY PollAssumption
    <3>2. pc' \in PCs /\ left' = left /\ cmd' = 1
      BY <1>2, Zenon DEF Start, PCs
    <3>3. UNCHANGED <<attempt, got, word>>
      BY <1>2, Zenon DEF Start
    <3> QED BY <1>2, <3>1, <3>2, <3>3 DEF PollTypes, Visiting
  <2>2. BusTypes'
    BY <1>1, <1>2, Zenon DEF Start, BusTypes
  <2> QED BY <2>1, <2>2
<1>3. CASE Deferred
  <2>1. pc \in Visits /\ Leave
    BY <1>3 DEF Deferred, Visits
  <2>2. DeviceTypes'
    BY <1>3, <2>1, CurType DEF Deferred, DeviceTypes
  <2>3. PollTypes' /\ Visiting'
    BY <1>3, <2>1, LeaveTypes DEF Deferred, PollTypes, poll
  <2> QED BY <1>3, <2>2, <2>3 DEF Deferred
<1>4. CASE TelemetryNotDue
  <2>1. pc \in Visits /\ Start("between")
    BY <1>4 DEF TelemetryNotDue, Visits
  <2>2. AlarmTypes'
    BY <1>4, <2>1 DEF TelemetryNotDue, Start, alarm
  <2> QED BY <2>1, <2>2, <1>2 DEF Start
<1>5. CASE StatusNotDue
  <2>1. pc \in Visits /\ Leave
    BY <1>5 DEF StatusNotDue, Visits
  <2>2. PollTypes' /\ Visiting'
    BY <1>5, <2>1, LeaveTypes DEF StatusNotDue, PollTypes, poll
  <2>3. BusTypes'
    BY <1>1, <1>5, Zenon DEF StatusNotDue, BusTypes
  <2> QED BY <1>5, <2>2, <2>3 DEF StatusNotDue
<1>6. ASSUME NEW d \in Configured, TelemetryDue(d)
      PROVE Typed'
  <2>1. pc \in Visits /\ Start("telemetry")
    BY <1>6 DEF TelemetryDue, Visits
  <2>2. AlarmTypes'
    BY <1>6, <2>1 DEF TelemetryDue, Start, alarm
  <2> QED BY <2>1, <2>2, <1>2 DEF Start
<1>7. ASSUME NEW d \in Configured, StatusDue(d)
      PROVE Typed'
  <2>1. pc \in Visits /\ Start("status")
    BY <1>7 DEF StatusDue, Visits
  <2>2. AlarmTypes'
    <3>1. urgent' \subseteq Configured
      BY <1>7 DEF StatusDue, AlarmTypes
    <3> QED BY <2>1, <3>1, Zenon DEF Start, AlarmTypes
  <2> QED BY <2>1, <2>2, <1>2 DEF Start
<1> QED BY <1>3, <1>4, <1>5, <1>6, <1>7

LEMMA AttemptTypes ==
  ASSUME Typed, NEW results, Attempt(results)
  PROVE BusTypes' /\ PollTypes' /\ Visiting' /\ DeviceTypes' /\ AlarmTypes'
<1> USE Apart, Kept
<1>1. PICK r \in results : Succeeds(r) \/ Retried(r) \/ GivenUp(r)
  BY Zenon DEF Attempt
<1>2. /\ pc \in Visits /\ cmd \in 1 .. Commands
      /\ UNCHANGED <<alarm, late, devices, pc, left>>
  BY PollAssumption DEF Attempt, Polling, PollTypes, Visits
<1>3. PollTypes
  BY Zenon
<1>4. /\ cmd + 1 \in 1 .. Commands + 1 /\ cmd \in 1 .. Commands + 1
      /\ Commands + 1 \in 1 .. Commands + 1
  BY <1>2, PollAssumption
<1>5. CASE Succeeds(r)
  <2>1. word' \in BOOLEAN
    <3>1. word \in BOOLEAN /\ (cur \in status) \in BOOLEAN
      <4>1. word \in BOOLEAN
        BY <1>3, Zenon DEF PollTypes
      <4>2. (cur \in status) \in BOOLEAN
        OBVIOUS
      <4> QED BY <4>1, <4>2
    <3>2. word' = (cur \in status) \/ word' = word
      <4>1. CASE pc = "status" /\ cmd = 1
        BY <1>5, <4>1 DEF Succeeds
      <4>2. CASE ~(pc = "status" /\ cmd = 1)
        BY <1>5, <4>2 DEF Succeeds
      <4> QED BY <4>1, <4>2
    <3> QED BY <3>1, <3>2, Zenon
  <2>2. cmd' \in 1 .. Commands + 1 /\ attempt' \in Nat /\ got' \subseteq 1 .. Commands
    BY <1>2, <1>3, <1>4, <1>5 DEF Succeeds, PollTypes
  <2>3. BusTypes'
    <3>1. low' \in BOOLEAN /\ Controller(r, ResetsOn)
      BY <1>5, Zenon DEF Succeeds, BusTypes
    <3> QED BY <1>2, <3>1, ControllerTypes
  <2> QED BY <1>2, <1>3, <2>1, <2>2, <2>3 DEF PollTypes, Visiting
<1>6. CASE Retried(r)
  <2>1. UNCHANGED <<cmd, got, word>> /\ attempt' \in Nat
    BY <1>3, <1>6 DEF Retried, PollTypes
  <2>2. BusTypes'
    <3>1. CASE BusRecovery /\ r[1] = "BUS_FAULT"
      <4>1. low' \in {low, FALSE} /\ busy' = FALSE /\ backoff' = "none"
        BY <1>6, <3>1, Zenon DEF Retried
      <4>2. low' = low \/ low' = FALSE
        BY <4>1
      <4>3. FALSE \in BOOLEAN /\ "none" \in Backoffs
        BY DEF Backoffs
      <4> QED BY <1>2, <4>1, <4>2, <4>3, Zenon DEF BusTypes
    <3>2. CASE ~(BusRecovery /\ r[1] = "BUS_FAULT")
      <4>1. low' \in BOOLEAN /\ Controller(r, ResetsOn)
        BY <1>6, <3>2, Zenon DEF Retried, BusTypes
      <4> QED BY <1>2, <4>1, ControllerTypes
    <3> QED BY <3>1, <3>2
  <2> QED BY <1>2, <1>3, <2>1, <2>2 DEF PollTypes, Visiting
<1>7. CASE GivenUp(r)
  <2>1. attempt' \in Nat /\ cmd' \in 1 .. Commands + 1 /\ UNCHANGED <<got, word>>
    BY <1>4, <1>7 DEF GivenUp
  <2>2. BusTypes'
    <3>1. low' \in BOOLEAN /\ Controller(r, ResetsOn)
      BY <1>7, Zenon DEF GivenUp, BusTypes
    <3> QED BY <1>2, <3>1, ControllerTypes
  <2> QED BY <1>2, <1>3, <2>1, <2>2 DEF PollTypes, Visiting
<1> QED BY <1>1, <1>5, <1>6, <1>7

LEMMA ReadSteps ==
  ASSUME Typed, Read \/ ReadDisturbed PROVE Typed'
<1> USE Apart, Kept, Together
<1>1. CASE Read
  <2>1. WorldTypes'
    BY <1>1 DEF Read, Attempt, WorldTypes
  <2>2. Attempt(Results(cur))
    BY <1>1 DEF Read
  <2> QED BY <2>1, <2>2, AttemptTypes
<1>2. CASE ReadDisturbed
  <2>1. Attempt(Disturbed(cur))
    BY <1>2 DEF ReadDisturbed
  <2>2. WorldTypes'
    BY <1>2, <2>1, PollAssumption DEF ReadDisturbed, Event, Attempt, WorldTypes
  <2> QED BY <2>1, <2>2, AttemptTypes
<1> QED BY <1>1, <1>2

LEMMA PollOverTypes ==
  ASSUME PollOver
  PROVE cmd' \in 1 .. Commands + 1 /\ attempt' \in Nat /\ got' \subseteq 1 .. Commands
        /\ word' \in BOOLEAN
<1>1. FALSE \in BOOLEAN /\ 1 \in 1 .. Commands + 1 /\ 0 \in Nat
  BY PollAssumption
<1> QED BY <1>1, Zenon DEF PollOver

LEMMA PollEnds ==
  ASSUME Typed, TelemetryDone \/ StatusSuppressed \/ StatusPosted \/ StatusDropped
  PROVE Typed'
<1> USE Apart, Kept, Together
<1>1. pc \in Visits /\ cur \in Configured
  BY CurType DEF TelemetryDone, StatusSuppressed, StatusPosted, StatusDropped, Visits
<1>2. DeviceTypes /\ PollTypes
  BY Zenon
<1>3. CASE TelemetryDone
  <2>1. PollTypes' /\ Visiting'
    BY <1>1, <1>2, <1>3, PollOverTypes
    DEF TelemetryDone, PollTypes, PCs, Visiting, Visits
  <2>2. FailsAfter \in 0 .. Threshold
    <3>1. fails[cur] \in 0 .. Threshold
      BY <1>1, <1>2 DEF DeviceTypes
    <3> QED BY <3>1, PollAssumption DEF FailsAfter
  <2>3. fails' \in [Configured -> 0 .. Threshold]
    BY <1>1, <1>2, <1>3, <2>2 DEF TelemetryDone, DeviceTypes
  <2>4. online' \subseteq Configured
    BY <1>1, <1>2, <1>3 DEF TelemetryDone, DeviceTypes
  <2>5. baseline' \in [Configured -> Records]
    <3>1. [baseline EXCEPT ![cur] = NoRecord] \in [Configured -> Records]
      BY <1>1, <1>2, RecordTypes DEF DeviceTypes
    <3>2. baseline' = baseline \/ baseline' = [baseline EXCEPT ![cur] = NoRecord]
      BY <1>3 DEF TelemetryDone
    <3> QED BY <1>2, <3>1, <3>2, Zenon DEF DeviceTypes
  <2>6. DeviceTypes'
    BY <1>2, <1>3, <2>3, <2>4, <2>5, Zenon DEF TelemetryDone, DeviceTypes
  <2> QED BY <1>3, <2>1, <2>6 DEF TelemetryDone
<1>4. ASSUME StatusOver PROVE PollTypes' /\ Visiting' /\ AlarmTypes' /\ BusTypes'
  BY <1>1, <1>2, <1>4, PollOverTypes, LeaveTypes DEF StatusOver, PollTypes
<1>5. [baseline EXCEPT ![cur] = Record] \in [Configured -> Records]
  BY <1>1, <1>2, RecordTypes DEF DeviceTypes
<1>6. CASE StatusSuppressed
  <2>1. WorldTypes' /\ DeviceTypes'
    BY <1>6 DEF StatusSuppressed, StatusOver, world, devices
  <2> QED BY <1>4, <1>6, <2>1 DEF StatusSuppressed
<1>7. CASE StatusPosted
  <2>1. WorldTypes'
    BY <1>7 DEF StatusPosted, StatusOver, world
  <2>2. reported' \in [Configured -> BOOLEAN]
    <3>1. [reported EXCEPT ![cur] = word] \in [Configured -> BOOLEAN]
      BY <1>1, <1>2, Zenon DEF DeviceTypes, PollTypes
    <3>2. reported' = reported \/ reported' = [reported EXCEPT ![cur] = word]
      BY <1>7 DEF StatusPosted
    <3> QED BY <1>2, <3>1, <3>2, Zenon DEF DeviceTypes
  <2>3. baseline' \in [Configured -> Records]
    BY <1>5, <1>7, Zenon DEF StatusPosted, BaselineAfter
  <2>4. DeviceTypes'
    BY <1>2, <1>7, <2>2, <2>3, Zenon DEF StatusPosted, StatusOver, DeviceTypes
  <2> QED BY <1>4, <1>7, <2>1, <2>4 DEF StatusPosted
<1>8. CASE StatusDropped
  <2>1. WorldTypes'
    BY <1>8, PollAssumption DEF StatusDropped, StatusOver, Event, WorldTypes
  <2>2. DeviceTypes'
    BY <1>8 DEF StatusDropped, StatusOver, BaselineAfter, devices
  <2> QED BY <1>4, <1>8, <2>1, <2>2 DEF StatusDropped
<1> QED BY <1>3, <1>6, <1>7, <1>8

LEMMA CommandSteps ==
  ASSUME Typed, NoCommand \/ TakeCommand \/ Transfer PROVE Typed'
<1> USE Apart, Kept, Together
<1>1. CASE NoCommand \/ TakeCommand
  <2>1. PollTypes' /\ Visiting'
    BY <1>1 DEF NoCommand, TakeCommand, PollTypes, PCs, Visiting, Visits, poll
  <2> QED BY <1>1, <2>1 DEF NoCommand, TakeCommand
<1>2. CASE Transfer
  <2>1. PollTypes' /\ Visiting'
    BY <1>2 DEF Transfer, PollTypes, PCs, Visiting, Visits, poll
  <2>2. BusTypes'
    <3>1. PICK r : Controller(r, ResetsOnTimeout)
      BY <1>2, Zenon DEF Transfer
    <3>2. low' \in BOOLEAN /\ UNCHANGED late
      BY <1>2, Zenon DEF Transfer, BusTypes
    <3> QED BY <3>1, <3>2, ControllerTypes
  <2> QED BY <1>2, <2>1, <2>2 DEF Transfer
<1> QED BY <1>1, <1>2

LEMMA EdgeTypes ==
  ASSUME NEW S, Edge(S), UNCHANGED urgent, AlarmTypes
  PROVE alert' = S /\ AlarmTypes'
<1>1. (pending \/ (alert = {} /\ S # {})) \in BOOLEAN /\ (missed /\ alert # {} /\ S # {}) \in BOOLEAN
  OBVIOUS
<1> QED BY <1>1, Zenon DEF Edge, AlarmTypes

LEMMA EnvironmentSteps == ASSUME Typed, Environment PROVE Typed'
<1> USE Apart, Kept, Together
<1>1. ASSUME UNCHANGED gateway
      PROVE DeviceTypes' /\ PollTypes' /\ Visiting' /\ UNCHANGED urgent
  BY <1>1 DEF gateway, PollTypes, Visiting, poll
<1>2. ASSUME NEW d,
             \/ FaultRaised(d) \/ RegistersUpdated(d) \/ FaultCleared(d)
             \/ Removed(d) \/ Inserted(d)
      PROVE Typed'
  <2>1. UNCHANGED <<bus, gateway>>
    BY <1>2 DEF FaultRaised, RegistersUpdated, FaultCleared, Removed, Inserted
  <2>2. AlarmTypes'
    <3>1. UNCHANGED alarm \/ \E S : Edge(S)
      BY <1>2 DEF FaultRaised, RegistersUpdated, FaultCleared, Removed, Inserted
    <3> QED BY <1>1, <2>1, <3>1, EdgeTypes
  <2>3. WorldTypes'
    <3>1. CASE RegistersUpdated(d)
      BY <3>1 DEF RegistersUpdated, WorldTypes
    <3>2. CASE FaultRaised(d)
      BY <3>2, PollAssumption DEF FaultRaised, Edge, Event, WorldTypes
    <3>3. CASE FaultCleared(d)
      BY <3>3, PollAssumption DEF FaultCleared, Edge, Event, WorldTypes
    <3>4. CASE Removed(d)
      BY <3>4, PollAssumption DEF Removed, Edge, Event, WorldTypes
    <3>5. CASE Inserted(d)
      BY <3>5, PollAssumption DEF Inserted, Event, WorldTypes
    <3> QED BY <1>2, <3>1, <3>2, <3>3, <3>4, <3>5
  <2> QED BY <1>1, <2>1, <2>2, <2>3
<1>3. FALSE \in BOOLEAN /\ TRUE \in BOOLEAN /\ "passed" \in Backoffs
  BY DEF Backoffs
<1>4. CASE LineStuck
  <2>1. BusTypes'
    BY <1>3, <1>4, Zenon DEF LineStuck, BusTypes
  <2>2. WorldTypes'
    BY <1>4, PollAssumption DEF LineStuck, Event, WorldTypes
  <2> QED BY <1>1, <1>4, <2>1, <2>2 DEF LineStuck
<1>5. CASE LineFreed
  <2>1. busy' = busy \/ busy' = FALSE
    BY <1>5 DEF LineFreed
  <2>2. BusTypes'
    BY <1>3, <1>5, <2>1, Zenon DEF LineFreed, BusTypes
  <2> QED BY <1>1, <1>5, <2>2 DEF LineFreed
<1>6. CASE BackoffEnds
  <2>1. BusTypes'
    BY <1>3, <1>6, Zenon DEF BackoffEnds, BusTypes
  <2> QED BY <1>1, <1>6, <2>1 DEF BackoffEnds
<1>7. CASE HalfPassed
  <2>1. BusTypes'
    BY <1>3, <1>7, Zenon DEF HalfPassed, BusTypes
  <2> QED BY <1>1, <1>7, <2>1 DEF HalfPassed
<1>8. CASE Wrap
  <2>1. BusTypes'
    BY <1>3, <1>8, Zenon DEF Wrap, BusTypes
  <2>2. DeviceTypes'
    BY <1>8 DEF Wrap, DeviceTypes
  <2>3. AlarmTypes' /\ PollTypes' /\ Visiting'
    BY <1>8 DEF Wrap, alarm, PollTypes, Visiting, poll
  <2> QED BY <1>8, <2>1, <2>2, <2>3 DEF Wrap
<1> QED BY <1>2, <1>4, <1>5, <1>6, <1>7, <1>8, Zenon DEF Environment

LEMMA StepTyped == Typed /\ [Next]_vars => Typed'
<1> SUFFICES ASSUME Typed, [Next]_vars PROVE Typed'
  OBVIOUS
<1>1. CASE Task
  BY <1>1, AlertSteps, VisitSteps, ReadSteps, PollEnds, CommandSteps, Zenon DEF Task
<1>2. CASE Misfortune
  BY <1>2, AlertSteps, ReadSteps, PollEnds, Zenon DEF Misfortune
<1>3. CASE Environment
  BY <1>3, EnvironmentSteps
<1>4. CASE UNCHANGED vars
  <2>1. /\ UNCHANGED <<world, alarm, bus, devices>>
        /\ PollTypes' /\ Visiting'
    BY <1>4, Apart DEF vars, PollTypes, Visiting, poll
  <2> QED BY <2>1, Apart, Kept, Together
<1> QED BY <1>1, <1>2, <1>3, <1>4, Zenon DEF Next

\* Whatever the devices, the bus and the queues do, every variable of the
\* loop of pmbus_poll_task.c keeps its range: consec_fails never exceeds
\* Threshold, faults and alerts come from devices on the bus, and nothing
\* but a configured device is ever marked urgent, deferred or online.
THEOREM TypeCorrect == Spec => []TypeOK
<1>1. Typed => TypeOK
  BY DEF Typed
<1> QED BY <1>1, InitTyped, StepTyped, PTL DEF Spec

(***************************************************************************)
(* AlertNeverForgotten is inductive by itself: a line that is low at boot  *)
(* counts as missed, the mark is taken only to enter the ARA loop, the     *)
(* loop ends with the mark as it then is, and a line that was high goes    *)
(* low only with an edge.                                                  *)
(***************************************************************************)
LEMMA EdgeKept ==
  ASSUME AlertNeverForgotten, NEW S, Edge(S), UNCHANGED pc
  PROVE AlertNeverForgotten'
  BY Zenon DEF AlertNeverForgotten, Edge

LEMMA StepKeepsAlert == AlertNeverForgotten /\ [Next]_vars => AlertNeverForgotten'
<1> SUFFICES ASSUME AlertNeverForgotten, [Next]_vars PROVE AlertNeverForgotten'
  OBVIOUS
<1>1. CASE AraOver
  BY <1>1, Zenon DEF AraOver, PendingAfterAra, Visit, AlertNeverForgotten, world
<1>2. CASE TakeAlert
  BY <1>2, Zenon DEF TakeAlert, AlertNeverForgotten
<1>3. CASE NoAlert
  BY <1>3, Zenon DEF NoAlert, AlertNeverForgotten, world, alarm
<1>4. CASE AraAnswered \/ AraNack \/ AraFails \/ AraDisturbed
  BY <1>4 DEF AraAnswered, AraNack, AraFails, AraDisturbed, AlertNeverForgotten,
              world, alarm
<1>5. ASSUME NEW d,
             \/ FaultRaised(d) \/ RegistersUpdated(d) \/ FaultCleared(d)
             \/ Removed(d) \/ Inserted(d)
      PROVE AlertNeverForgotten'
  BY <1>5, EdgeKept
  DEF FaultRaised, RegistersUpdated, FaultCleared, Removed, Inserted, gateway,
      alarm, AlertNeverForgotten
<1>6. ASSUME UNCHANGED <<alert, pending, missed>>, pc # "ara"
      PROVE AlertNeverForgotten'
  BY <1>6 DEF AlertNeverForgotten
<1>7. ASSUME UNCHANGED <<alert, pending, missed, pc>>
      PROVE AlertNeverForgotten'
  BY <1>7, Zenon DEF AlertNeverForgotten
<1>8. CASE \/ Deferred \/ TelemetryNotDue \/ StatusNotDue
           \/ \E d \in Configured : TelemetryDue(d) \/ StatusDue(d)
  <2>1. UNCHANGED <<alert, pending, missed>> /\ pc # "ara"
    BY <1>8 DEF Deferred, TelemetryNotDue, StatusNotDue, TelemetryDue, StatusDue,
                Start, world, alarm
  <2> QED BY <2>1, <1>6
<1>9. CASE Read \/ ReadDisturbed
  <2>1. \E results : Attempt(results)
    BY <1>9 DEF Read, ReadDisturbed
  <2>2. UNCHANGED <<alert, pending, missed, pc>>
    BY <2>1 DEF Attempt, alarm
  <2> QED BY <2>2, <1>7
<1>10. CASE TelemetryDone \/ StatusSuppressed \/ StatusPosted \/ StatusDropped
  <2>1. UNCHANGED <<alert, pending, missed>> /\ pc # "ara"
    BY <1>10 DEF TelemetryDone, StatusSuppressed, StatusPosted, StatusDropped,
                 StatusOver, world, alarm
  <2> QED BY <2>1, <1>6
<1>11. CASE NoCommand \/ TakeCommand \/ Transfer
  <2>1. UNCHANGED <<alert, pending, missed>> /\ pc # "ara"
    BY <1>11 DEF NoCommand, TakeCommand, Transfer, world, alarm
  <2> QED BY <2>1, <1>6
<1>12. CASE LineStuck \/ LineFreed \/ BackoffEnds \/ HalfPassed \/ Wrap
  <2>1. UNCHANGED <<alert, pending, missed, pc>>
    BY <1>12 DEF LineStuck, LineFreed, BackoffEnds, HalfPassed, Wrap, world, alarm, gateway
  <2> QED BY <2>1, <1>7
<1>13. CASE UNCHANGED vars
  <2>1. UNCHANGED <<alert, pending, missed, pc>>
    BY <1>13 DEF vars, world, alarm
  <2> QED BY <2>1, <1>7
<1>14. CASE Task
  BY <1>1, <1>2, <1>3, <1>4, <1>8, <1>9, <1>10, <1>11, <1>14, Zenon DEF Task
<1>15. CASE Misfortune
  BY <1>4, <1>9, <1>10, <1>15, Zenon DEF Misfortune
<1>16. CASE Environment
  BY <1>5, <1>12, <1>16, Zenon DEF Environment
<1> QED BY <1>13, <1>14, <1>15, <1>16, Zenon DEF Next

\* From whatever state of the devices the gateway boots in, and however edges
\* of SMBALERT#, the visit that takes the mark and the reads of the alert
\* response address interleave, an asserted line stays known to the task -
\* except a line that has been low since before its interrupt was armed, or
\* since an ARA loop ended and left it low.
THEOREM AlertNeverForgottenCorrect == Spec => []AlertNeverForgotten
<1>1. Init => AlertNeverForgotten
  BY DEF Init, AlertNeverForgotten
<1> QED BY <1>1, StepKeepsAlert, PTL DEF Spec

=============================================================================
