------------------------------ MODULE IpcDrain ------------------------------
(***************************************************************************)
(* The way of a record from the task that makes it to the RAM ring: the    *)
(* queues of gateway_ipc.c, the rescue rings of emergency_ring.c behind    *)
(* them, and buffer_task, which sleeps until it is notified and then       *)
(* drains each queue and its ring into buffer_mgr.                         *)
(*                                                                         *)
(* A record is <<lane, number>>; the overflow events the code posts itself *)
(* are all <<"event", 0>>.  One step is one queue operation, one critical  *)
(* section or one notification; tasks interleave at every step, whatever   *)
(* their priorities.  The RAM ring is a bounded sequence here: this is the *)
(* profile without a persistent tier, and BufferMgr has the two tiers.     *)
(***************************************************************************)
EXTENDS Naturals, Sequences, FiniteSets

CONSTANTS
  QueueDepth,  \* IPC_*_QUEUE_DEPTH
  RingCap,     \* EMERGENCY_*_RING_CAPACITY, one slot of which stays free
  RamCap,      \* g_config.buffer.ram_max_records
  DropOldest,  \* g_config.buffer.drop_oldest
  MaxPosts     \* bound of the model: records made in each lane

Lanes == {"telemetry", "status", "event"}
Producers == {"poll", "mqtt", "buffer"}

ASSUME IpcAssumption ==
  /\ QueueDepth \in Nat \ {0} /\ RingCap \in Nat \ {0, 1}
  /\ RamCap \in Nat \ {0} /\ DropOldest \in BOOLEAN
  /\ MaxPosts \in [Lanes -> Nat]

VARIABLES
  queue,     \* lane -> its FreeRTOS queue
  slots,     \* lane -> the array of its rescue ring
  ringHead,  \* lane -> s_head, s_status_head, s_event_head
  ringTail,  \* lane -> s_tail, s_status_tail, s_event_tail
  ppc,       \* task -> where it is in posting a record
  hold,      \* task -> the record it is posting
  posted,    \* lane -> number of records made
  bpc,       \* where buffer_task is
  stage,     \* which queue or ring it is draining, 1 to 6
  taken,     \* the record it took from there
  notified,  \* its notification is pending
  ram,       \* s_ring, oldest first
  gone       \* history: records published, or dropped and counted

rings == <<slots, ringHead, ringTail>>
laneVars == <<queue, rings>>
postVars == <<ppc, hold>>
taskVars == <<bpc, stage, taken, notified>>
vars == <<laneVars, postVars, posted, taskVars, ram, gone>>

None == <<"event", 0>>
Overflow == <<"event", 0>>
\* Overflow events are all alike and not followed through the history.
Known(r) == r[2] # 0
Counted(r) == IF Known(r) THEN {r} ELSE {}

(***************************************************************************)
(* emergency_ring.c.                                                       *)
(***************************************************************************)
IncNoWrap(i) == i + 1
Inc(i) == (i + 1) % RingCap
RingEmpty(l) == ringHead[l] = ringTail[l]
RingFullNever(l) == FALSE
RingFull(l) == Inc(ringHead[l]) = ringTail[l]
\* The slots in use.
RingSlots(l) ==
  IF ringTail[l] <= ringHead[l]
  THEN ringTail[l] .. ringHead[l] - 1
  ELSE (ringTail[l] .. RingCap - 1) \union (0 .. ringHead[l] - 1)

RingPut(l, r) ==
  /\ slots' = [slots EXCEPT ![l][ringHead[l]] = r]
  /\ ringHead' = [ringHead EXCEPT ![l] = Inc(@)]
  /\ UNCHANGED ringTail

(***************************************************************************)
(* Posting a record: gateway_ipc_try_post_status, gateway_ipc_post_event   *)
(* and the end of poll_telemetry.                                          *)
(***************************************************************************)
\* pmbus_poll_task makes telemetry, status and events, mqtt_gw_task events;
\* buffer_task posts overflow events while it puts a record (BufferPut).
Makes(p, l) == p = "poll" \/ (p = "mqtt" /\ l = "event")

Make(p, l) ==
  /\ Makes(p, l)
  /\ ppc[p] = "idle" /\ posted[l] < MaxPosts[l]
  /\ posted' = [posted EXCEPT ![l] = @ + 1]
  /\ hold' = [hold EXCEPT ![p] = <<l, posted[l] + 1>>]
  /\ ppc' = [ppc EXCEPT ![p] = "send"]
  /\ UNCHANGED <<laneVars, taskVars, ram, gone>>

\* xQueueSend without waiting.
Send(p) ==
  LET l == hold[p][1] IN
  /\ ppc[p] = "send"
  /\ \/ /\ Len(queue[l]) < QueueDepth
        /\ queue' = [queue EXCEPT ![l] = Append(@, hold[p])]
        /\ ppc' = [ppc EXCEPT ![p] = "signal"]
     \/ /\ Len(queue[l]) >= QueueDepth
        /\ ppc' = [ppc EXCEPT ![p] = "rescue"]
        /\ UNCHANGED queue
  /\ UNCHANGED <<rings, hold, posted, taskVars, ram, gone>>

RescuedSilently == "idle"
Rescued == "signal"

Rescue(p) ==
  LET l == hold[p][1] IN
  /\ ppc[p] = "rescue" /\ ~RingFull(l)
  /\ RingPut(l, hold[p])
  /\ ppc' = [ppc EXCEPT ![p] = Rescued]
  /\ UNCHANGED <<queue, hold, posted, taskVars, ram, gone>>

\* Queue and ring are full: the record is dropped and counted.  A dropped
\* status record is always announced by an event, a dropped telemetry record
\* unless the last announcement was less than WARN_THROTTLE_TICKS ago, and a
\* dropped event never.
Announces(l) ==
  CASE l = "telemetry" -> BOOLEAN [] l = "status" -> {TRUE} [] OTHER -> {FALSE}

Refuse(p) ==
  LET l == hold[p][1] IN
  /\ ppc[p] = "rescue" /\ RingFull(l)
  /\ gone' = gone \union Counted(hold[p])
  /\ \E announce \in Announces(l) :
       /\ ppc' = [ppc EXCEPT ![p] = IF announce THEN "send" ELSE "idle"]
       /\ hold' = [hold EXCEPT ![p] = IF announce THEN Overflow ELSE None]
  /\ UNCHANGED <<laneVars, posted, taskVars, ram>>

\* buffer_mgr_signal_spill_task: buffer_task has no handle before it started.
Signal(p) ==
  /\ ppc[p] = "signal"
  /\ notified' = (notified \/ bpc # "start")
  /\ ppc' = [ppc EXCEPT ![p] = "idle"]
  /\ hold' = [hold EXCEPT ![p] = None]
  /\ UNCHANGED <<laneVars, posted, bpc, stage, taken, ram, gone>>

Post(p) == Send(p) \/ Rescue(p) \/ Refuse(p) \/ Signal(p)

(***************************************************************************)
(* buffer_task: buffer_mgr_drain_once goes through the stages, and takes   *)
(* from each until it is empty.                                            *)
(***************************************************************************)
LaneOf(s) ==
  IF s \in {1, 2} THEN "telemetry" ELSE IF s \in {3, 4} THEN "status" ELSE "event"
IsQueue(s) == s \in {1, 3, 5}
StageEmpty(s) ==
  IF IsQueue(s) THEN queue[LaneOf(s)] = <<>> ELSE RingEmpty(LaneOf(s))

Register ==
  /\ bpc = "start"
  /\ bpc' = "drain" /\ stage' = 1
  /\ UNCHANGED <<laneVars, postVars, posted, taken, notified, ram, gone>>

TakeFromQueue ==
  LET l == LaneOf(stage) IN
  /\ bpc = "drain" /\ ppc["buffer"] = "idle"
  /\ IsQueue(stage) /\ ~StageEmpty(stage)
  /\ taken' = Head(queue[l])
  /\ queue' = [queue EXCEPT ![l] = Tail(@)]
  /\ bpc' = "put"
  /\ UNCHANGED <<rings, postVars, posted, stage, notified, ram, gone>>

TakeFromRing ==
  LET l == LaneOf(stage) IN
  /\ bpc = "drain" /\ ppc["buffer"] = "idle"
  /\ ~IsQueue(stage) /\ ~StageEmpty(stage)
  /\ taken' = slots[l][ringTail[l]]
  /\ ringTail' = [ringTail EXCEPT ![l] = Inc(@)]
  /\ bpc' = "put"
  /\ UNCHANGED <<queue, slots, ringHead, postVars, posted, stage, notified,
                 ram, gone>>

LastStageForgotten == 5
LastStage == 6

NextStage ==
  /\ bpc = "drain" /\ ppc["buffer"] = "idle" /\ StageEmpty(stage)
  /\ IF stage < LastStage
     THEN stage' = stage + 1 /\ bpc' = bpc
     ELSE stage' = 1 /\ bpc' = "wait"
  /\ UNCHANGED <<laneVars, postVars, posted, taken, notified, ram, gone>>

\* buffer_mgr_put_record_internal, without a persistent tier.
BufferPut ==
  /\ bpc = "put" /\ Len(ram) < RamCap
  /\ ram' = Append(ram, taken)
  /\ bpc' = "drain" /\ taken' = None
  /\ UNCHANGED <<laneVars, postVars, posted, stage, notified, gone>>

\* A full ring drops a record, counts it, and posts EVT_BUFFER_OVERFLOW.
BufferPutFull ==
  /\ bpc = "put" /\ Len(ram) >= RamCap
  /\ ram' = IF DropOldest THEN Append(Tail(ram), taken) ELSE ram
  /\ gone' = gone \union Counted(IF DropOldest THEN Head(ram) ELSE taken)
  /\ ppc' = [ppc EXCEPT !["buffer"] = "send"]
  /\ hold' = [hold EXCEPT !["buffer"] = Overflow]
  /\ bpc' = "drain" /\ taken' = None
  /\ UNCHANGED <<laneVars, posted, stage, notified>>

\* ulTaskNotifyTake(pdTRUE, ..) returns: notified, or after its timeout.
Wake ==
  /\ bpc = "wait" /\ notified
  /\ notified' = FALSE
  /\ bpc' = "drain"
  /\ UNCHANGED <<laneVars, postVars, posted, stage, taken, ram, gone>>

WakeTimeout ==
  /\ bpc = "wait" /\ ~notified
  /\ bpc' = "drain"
  /\ UNCHANGED <<laneVars, postVars, posted, stage, taken, notified,
                 ram, gone>>

\* mqtt_gw_task publishes the oldest record and consumes it.
Flush ==
  /\ ram # <<>>
  /\ gone' = gone \union Counted(Head(ram))
  /\ ram' = Tail(ram)
  /\ UNCHANGED <<laneVars, postVars, posted, taskVars>>

(***************************************************************************)
(* Specification.                                                          *)
(***************************************************************************)
Init ==
  /\ queue = [l \in Lanes |-> <<>>]
  /\ slots = [l \in Lanes |-> [i \in 0 .. RingCap - 1 |-> None]]
  /\ ringHead = [l \in Lanes |-> 0] /\ ringTail = [l \in Lanes |-> 0]
  /\ ppc = [p \in Producers |-> "idle"] /\ hold = [p \in Producers |-> None]
  /\ posted = [l \in Lanes |-> 0]
  /\ bpc = "start" /\ stage = 1 /\ taken = None /\ notified = FALSE
  /\ ram = <<>> /\ gone = {}

Drain == TakeFromQueue \/ TakeFromRing \/ NextStage \/ BufferPut \/ BufferPutFull

Next ==
  \/ \E p \in Producers : Post(p) \/ \E l \in Lanes : Make(p, l)
  \/ Register \/ Drain \/ Wake \/ WakeTimeout \/ Flush

Spec == Init /\ [][Next]_vars

(***************************************************************************)
(* Fairness: a task that is ready runs.  The timeout is not needed for     *)
(* progress and gets none.                                                 *)
(***************************************************************************)
TaskFairness ==
  /\ \A p \in Producers : WF_vars(Post(p))
  /\ WF_vars(Register) /\ WF_vars(Drain) /\ WF_vars(Wake)

\* The broker may be out of reach for good, or flushing goes on.
OfflineSpec == Spec /\ TaskFairness
OnlineSpec == OfflineSpec /\ WF_vars(Flush)

(***************************************************************************)
(* Properties.                                                             *)
(***************************************************************************)
Record == Lanes \X Nat

\* Types; a queue never exceeds its depth, nor the RAM ring its capacity.
TypeOK ==
  /\ queue \in [Lanes -> Seq(Record)]
  /\ \A l \in Lanes : Len(queue[l]) <= QueueDepth
  /\ slots \in [Lanes -> [0 .. RingCap - 1 -> Record]]
  /\ ringHead \in [Lanes -> 0 .. RingCap - 1]
  /\ ringTail \in [Lanes -> 0 .. RingCap - 1]
  /\ ppc \in [Producers -> {"idle", "send", "rescue", "signal"}]
  /\ hold \in [Producers -> Record]
  /\ posted \in [Lanes -> Nat]
  /\ bpc \in {"start", "drain", "put", "wait"} /\ stage \in 1 .. 6
  /\ taken \in Record /\ notified \in BOOLEAN
  /\ ram \in Seq(Record) /\ Len(ram) <= RamCap
  /\ gone \subseteq Record

\* Nothing waits in a queue or ring while buffer_task sleeps unnotified
\* (every accepting path of gateway_ipc.c and poll_telemetry signals), however
\* a post falls between the last look at its lane and the sleep.
LanesEmpty == \A s \in 1 .. 6 : StageEmpty(s)
NoLostWakeup ==
  bpc = "wait" /\ ~LanesEmpty =>
    notified \/ \E p \in Producers : ppc[p] = "signal"

\* Through queues, rings, retries into the rescue ring and overflows of the
\* RAM ring, a record is never forgotten and never doubled.
Copies(r) ==
  LET l == r[1] IN
    {<<"queue", i>> : i \in {j \in 1 .. Len(queue[l]) : queue[l][j] = r}}
    \union {<<"ring", i>> : i \in {j \in RingSlots(l) : slots[l][j] = r}}
    \union {<<p, 0>> : p \in {q \in Producers :
                                ppc[q] \in {"send", "rescue"} /\ hold[q] = r}}
    \union {<<"taken", 0>> : x \in {y \in {taken} : y = r}}
    \union {<<"ram", i>> : i \in {j \in 1 .. Len(ram) : ram[j] = r}}
    \union {<<"gone", 0>> : x \in {r} \cap gone}
RecordInOnePlace ==
  \A l \in Lanes : \A n \in 1 .. posted[l] : Cardinality(Copies(<<l, n>>)) = 1

\* "records rescued later do not overtake records that were already queued"
\* (docs/architecture.md:129): buffer_task takes no record from a rescue ring
\* while an older one of that lane, made by the same task, waits in the queue.
RescuedNeverOvertake ==
  [][\A l \in {"telemetry", "status"} :
       TakeFromRing /\ LaneOf(stage) = l =>
         \A i \in 1 .. Len(queue[l]) : queue[l][i][2] > taken'[2]]_vars

\* While flushing goes on, everything made is drained, without the help of the
\* timeout: the overflow events the drain itself posts die out.
EverythingDrained == []<>(LanesEmpty /\ bpc = "wait")

\* "Sleep - queues accumulate while we sleep, drained on next wake"
\* (buffer_mgr.c:554): a drain ends, and buffer_task sleeps again.
DrainEnds == (bpc = "drain") ~> (bpc = "wait")

=============================================================================
