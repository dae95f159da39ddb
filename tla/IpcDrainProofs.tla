--------------------------- MODULE IpcDrainProofs ---------------------------
(***************************************************************************)
(* Proofs about IpcDrain, for every depth, capacity and number of records: *)
(* its types, that no wake-up of buffer_task is lost, and that no record   *)
(* is forgotten or doubled on its way.                                     *)
(***************************************************************************)
EXTENDS IpcDrain, FiniteSetTheorems, TLAPS

Slots == 0 .. RingCap - 1
PCs == {"idle", "send", "rescue", "signal"}

LEMMA IncType == ASSUME NEW i \in Slots PROVE Inc(i) \in Slots
<1>1. i + 1 \in Nat /\ RingCap \in Nat \ {0}
  BY IpcAssumption DEF Slots
<1> QED BY <1>1 DEF Inc, Slots

LEMMA LaneOfType == ASSUME NEW s PROVE LaneOf(s) \in Lanes
  BY DEF LaneOf, Lanes

LEMMA OverflowType == Overflow \in Record /\ None \in Record
  BY DEF Overflow, None, Record, Lanes

LEMMA HoldType ==
  ASSUME TypeOK, NEW p \in Producers
  PROVE  hold[p] \in Record /\ hold[p][1] \in Lanes /\ ppc[p] \in PCs
<1>1. hold[p] \in Record /\ ppc[p] \in PCs
  BY DEF TypeOK, PCs
<1> QED BY <1>1 DEF Record

LEMMA CountedType ==
  ASSUME NEW r \in Record PROVE Counted(r) \subseteq Record
  BY DEF Counted

\* The parts of TypeOK that different actions disturb.
LaneTypes ==
  /\ queue \in [Lanes -> Seq(Record)]
  /\ \A l \in Lanes : Len(queue[l]) <= QueueDepth
  /\ slots \in [Lanes -> [Slots -> Record]]
  /\ ringHead \in [Lanes -> Slots] /\ ringTail \in [Lanes -> Slots]
PostTypes ==
  ppc \in [Producers -> PCs] /\ hold \in [Producers -> Record]
  /\ posted \in [Lanes -> Nat]
TaskTypes ==
  /\ bpc \in {"start", "drain", "put", "wait"} /\ stage \in 1 .. 6
  /\ taken \in Record /\ notified \in BOOLEAN
RamTypes ==
  /\ ram \in Seq(Record) /\ Len(ram) <= RamCap
  /\ gone \subseteq Record

LEMMA TypeParts ==
  /\ TypeOK <=> LaneTypes /\ PostTypes /\ TaskTypes /\ RamTypes
  /\ TypeOK' <=> LaneTypes' /\ PostTypes' /\ TaskTypes' /\ RamTypes'
  BY DEF TypeOK, LaneTypes, PostTypes, TaskTypes, RamTypes, Slots, PCs

LEMMA InitType == Init => TypeOK
<1> SUFFICES ASSUME Init PROVE TypeOK
  OBVIOUS
<1>1. LaneTypes
  <2>1. 0 \in Slots
    BY IpcAssumption DEF Slots
  <2> QED BY <2>1, OverflowType, IpcAssumption DEF Init, LaneTypes, Slots
<1>2. PostTypes
  BY OverflowType DEF Init, PostTypes, PCs
<1>3. TaskTypes
  <2>1. None \in Record /\ 1 \in 1 .. 6
    BY OverflowType
  <2> QED BY <2>1, Zenon DEF Init, TaskTypes
<1>4. RamTypes
  BY IpcAssumption DEF Init, RamTypes
<1> QED BY <1>1, <1>2, <1>3, <1>4, TypeParts

(***************************************************************************)
(* One lemma per group of actions; each says which parts stay as they are. *)
(***************************************************************************)
LEMMA MakeType ==
  ASSUME TypeOK, NEW p \in Producers, NEW l \in Lanes, Make(p, l)
  PROVE  TypeOK'
<1>1. <<l, posted[l] + 1>> \in Record
  BY TypeParts DEF PostTypes, Record
<1>2. PostTypes'
  BY <1>1, TypeParts DEF Make, PostTypes, PCs
<1>3. LaneTypes' /\ TaskTypes' /\ RamTypes'
  BY TypeParts DEF Make, LaneTypes, TaskTypes, RamTypes,
     laneVars, rings, taskVars
<1> QED BY <1>2, <1>3, TypeParts

LEMMA SendType ==
  ASSUME TypeOK, NEW p \in Producers, Send(p) PROVE TypeOK'
<1> DEFINE l == hold[p][1]
<1>1. hold[p] \in Record /\ l \in Lanes
  BY HoldType
<1>2. PostTypes'
  BY TypeParts DEF Send, PostTypes, PCs
<1>3. TaskTypes' /\ RamTypes'
  BY TypeParts DEF Send, TaskTypes, RamTypes, taskVars
<1>4. LaneTypes'
  <2>1. CASE UNCHANGED queue
    BY <2>1, TypeParts DEF Send, LaneTypes, rings
  <2>2. CASE /\ Len(queue[l]) < QueueDepth
             /\ queue' = [queue EXCEPT ![l] = Append(@, hold[p])]
    <3>1. queue[l] \in Seq(Record)
      BY <1>1, TypeParts DEF LaneTypes
    <3>2. Append(queue[l], hold[p]) \in Seq(Record)
          /\ Len(Append(queue[l], hold[p])) = Len(queue[l]) + 1
      BY <1>1, <3>1
    <3>3. Len(queue[l]) + 1 <= QueueDepth
      BY <2>2, <3>1, IpcAssumption
    <3> QED BY <1>1, <2>2, <3>2, <3>3, TypeParts DEF Send, LaneTypes, rings
  <2> QED BY <2>1, <2>2 DEF Send
<1> QED BY <1>2, <1>3, <1>4, TypeParts

LEMMA RescueType ==
  ASSUME TypeOK, NEW p \in Producers, Rescue(p) PROVE TypeOK'
<1> DEFINE l == hold[p][1]
<1>1. hold[p] \in Record /\ l \in Lanes
  BY HoldType
<1>2. PostTypes'
  BY TypeParts DEF Rescue, Rescued, PostTypes, PCs
<1>3. TaskTypes' /\ RamTypes'
  BY TypeParts DEF Rescue, TaskTypes, RamTypes, taskVars
<1>4. LaneTypes'
  <2>1. ringHead[l] \in Slots /\ Inc(ringHead[l]) \in Slots
    BY <1>1, IncType, TypeParts DEF LaneTypes
  <2> QED BY <1>1, <2>1, TypeParts DEF Rescue, RingPut, LaneTypes
<1> QED BY <1>2, <1>3, <1>4, TypeParts

LEMMA RefuseType ==
  ASSUME TypeOK, NEW p \in Producers, Refuse(p) PROVE TypeOK'
<1>1. hold[p] \in Record
  BY HoldType
<1>2. PostTypes'
  BY OverflowType, TypeParts DEF Refuse, PostTypes, PCs
<1>3. RamTypes'
  BY <1>1, CountedType, TypeParts DEF Refuse, RamTypes
<1>4. LaneTypes' /\ TaskTypes'
  BY TypeParts DEF Refuse, LaneTypes, TaskTypes, laneVars, rings, taskVars
<1> QED BY <1>2, <1>3, <1>4, TypeParts

LEMMA SignalType ==
  ASSUME TypeOK, NEW p \in Producers, Signal(p) PROVE TypeOK'
<1>1. PostTypes'
  BY OverflowType, TypeParts DEF Signal, PostTypes, PCs
<1>2. LaneTypes' /\ TaskTypes' /\ RamTypes'
  BY TypeParts DEF Signal, LaneTypes, TaskTypes, RamTypes, laneVars, rings
<1> QED BY <1>1, <1>2, TypeParts

LEMMA DrainType == ASSUME TypeOK, Drain PROVE TypeOK'
<1> DEFINE l == LaneOf(stage)
<1>l. l \in Lanes
  BY LaneOfType
<1>1. CASE TakeFromQueue
  <2>1. queue[l] \in Seq(Record) /\ queue[l] # <<>> /\ Len(queue[l]) <= QueueDepth
    BY <1>1, <1>l, TypeParts DEF TakeFromQueue, StageEmpty, LaneTypes
  <2>2. /\ Head(queue[l]) \in Record /\ Tail(queue[l]) \in Seq(Record)
        /\ Len(Tail(queue[l])) <= QueueDepth
    BY <2>1, IpcAssumption
  <2>3. LaneTypes'
    BY <1>1, <1>l, <2>2, TypeParts DEF TakeFromQueue, LaneTypes, rings
  <2>4. PostTypes' /\ TaskTypes' /\ RamTypes'
    BY <1>1, <2>2, TypeParts
       DEF TakeFromQueue, PostTypes, TaskTypes, RamTypes, postVars
  <2> QED BY <2>3, <2>4, TypeParts
<1>2. CASE TakeFromRing
  <2>1. ringTail[l] \in Slots /\ Inc(ringTail[l]) \in Slots
    BY <1>l, IncType, TypeParts DEF LaneTypes
  <2>2. slots[l][ringTail[l]] \in Record
    BY <1>l, <2>1, TypeParts DEF LaneTypes
  <2>3. LaneTypes'
    BY <1>2, <1>l, <2>1, TypeParts DEF TakeFromRing, LaneTypes
  <2>4. PostTypes' /\ TaskTypes' /\ RamTypes'
    BY <1>2, <2>2, TypeParts
       DEF TakeFromRing, PostTypes, TaskTypes, RamTypes, postVars
  <2> QED BY <2>3, <2>4, TypeParts
<1>3. CASE NextStage
  <2>1. TaskTypes'
    BY <1>3, TypeParts DEF NextStage, LastStage, TaskTypes
  <2>2. LaneTypes' /\ PostTypes' /\ RamTypes'
    BY <1>3, TypeParts
       DEF NextStage, LaneTypes, PostTypes, RamTypes, laneVars, rings, postVars
  <2> QED BY <2>1, <2>2, TypeParts
<1>4. CASE BufferPut
  <2>1. RamTypes'
    BY <1>4, TypeParts, IpcAssumption DEF BufferPut, RamTypes, TaskTypes
  <2>2. LaneTypes' /\ PostTypes' /\ TaskTypes'
    BY <1>4, OverflowType, TypeParts
       DEF BufferPut, LaneTypes, PostTypes, TaskTypes, laneVars, rings, postVars
  <2> QED BY <2>1, <2>2, TypeParts
<1>5. CASE BufferPutFull
  <2>1. /\ ram \in Seq(Record) /\ ram # <<>> /\ Len(ram) <= RamCap
        /\ taken \in Record /\ Head(ram) \in Record
    BY <1>5, TypeParts, IpcAssumption DEF BufferPutFull, RamTypes, TaskTypes
  <2>2. /\ Append(Tail(ram), taken) \in Seq(Record)
        /\ Len(Append(Tail(ram), taken)) = Len(ram)
    BY <2>1
  <2>3. ram' \in Seq(Record) /\ Len(ram') <= RamCap
    BY <1>5, <2>1, <2>2 DEF BufferPutFull
  <2>4. gone' \subseteq Record
    BY <1>5, <2>1, CountedType, TypeParts DEF BufferPutFull, RamTypes
  <2>5. PostTypes'
    BY <1>5, OverflowType, TypeParts DEF BufferPutFull, PostTypes, PCs
  <2>6. LaneTypes' /\ TaskTypes'
    BY <1>5, OverflowType, TypeParts
       DEF BufferPutFull, LaneTypes, TaskTypes, laneVars, rings
  <2> QED BY <2>3, <2>4, <2>5, <2>6, TypeParts DEF RamTypes
<1> QED BY <1>1, <1>2, <1>3, <1>4, <1>5 DEF Drain

LEMMA OtherType ==
  ASSUME TypeOK, Register \/ Wake \/ WakeTimeout \/ Flush \/ UNCHANGED vars
  PROVE  TypeOK'
<1>1. CASE Register \/ Wake \/ WakeTimeout
  <2>1. TaskTypes'
    <3>1. TaskTypes /\ 1 \in 1 .. 6
      BY TypeParts
    <3> QED BY <1>1, <3>1, Zenon DEF Register, Wake, WakeTimeout, TaskTypes
  <2>2. LaneTypes' /\ PostTypes' /\ RamTypes'
    BY <1>1, TypeParts DEF Register, Wake, WakeTimeout,
       LaneTypes, PostTypes, RamTypes, laneVars, rings, postVars
  <2> QED BY <2>1, <2>2, TypeParts
<1>2. CASE Flush
  <2>1. ram \in Seq(Record) /\ ram # <<>> /\ Len(ram) <= RamCap
    BY <1>2, TypeParts DEF Flush, RamTypes
  <2>2. /\ Head(ram) \in Record /\ Tail(ram) \in Seq(Record)
        /\ Len(Tail(ram)) <= RamCap
    BY <2>1, IpcAssumption
  <2>3. RamTypes'
    BY <1>2, <2>2, CountedType, TypeParts DEF Flush, RamTypes
  <2>4. LaneTypes' /\ PostTypes' /\ TaskTypes'
    BY <1>2, TypeParts DEF Flush, LaneTypes, PostTypes, TaskTypes,
       laneVars, rings, postVars, taskVars
  <2> QED BY <2>3, <2>4, TypeParts
<1>3. CASE UNCHANGED vars
  BY <1>3 DEF vars, laneVars, rings, postVars, taskVars, TypeOK
<1> QED BY <1>1, <1>2, <1>3

LEMMA StepType == TypeOK /\ [Next]_vars => TypeOK'
  BY MakeType, SendType, RescueType, RefuseType, SignalType, DrainType,
     OtherType DEF Next, Post

\* Queues and the RAM ring stay within their bounds and every variable keeps
\* its type.
THEOREM TypeCorrect == Spec => []TypeOK
<1> QED BY InitType, StepType, PTL DEF Spec

(***************************************************************************)
(* No lost wake-up.  Whatever stage a drain has left behind, a record that *)
(* enters it later comes with a notification, given or about to be given.  *)
(* A notification is consumed only at the start of a drain, when no stage  *)
(* has been left behind yet, so it may be consumed for good.               *)
(***************************************************************************)
WakeDue == notified \/ \E p \in Producers : ppc[p] = "signal"
LeftBehind(s) == bpc = "wait" \/ (bpc \in {"drain", "put"} /\ s < stage)
StagesCovered ==
  \A s \in 1 .. 6 : LeftBehind(s) /\ ~StageEmpty(s) => WakeDue
SleepsAtStart == bpc = "wait" => stage = 1
PutIsQuiet == bpc = "put" => ppc["buffer"] = "idle"
Covered == TypeOK /\ StagesCovered /\ SleepsAtStart /\ PutIsQuiet

\* Lanes and buffer_task as they were: the same stages are left behind and
\* empty.
LEMMA CoveredUnchanged ==
  ASSUME StagesCovered, UNCHANGED <<laneVars, bpc, stage>>, WakeDue => WakeDue'
  PROVE  StagesCovered'
  BY DEF StagesCovered, LeftBehind, StageEmpty, RingEmpty, laneVars, rings

LEMMA CoveredSignalled ==
  ASSUME NEW p \in Producers, ppc'[p] = "signal" PROVE StagesCovered'
  BY DEF StagesCovered, WakeDue

\* A task that moves on without signalling was not about to signal.
LEMMA WakeStaysDue ==
  ASSUME NEW p \in Producers, ppc[p] # "signal", UNCHANGED notified,
         NEW v, ppc' = [ppc EXCEPT ![p] = v], TypeOK
  PROVE  WakeDue => WakeDue'
<1>1. ppc \in [Producers -> PCs]
  BY TypeParts DEF PostTypes
<1> QED BY <1>1 DEF WakeDue

LEMMA StepPost ==
  ASSUME Covered, NEW p \in Producers,
         Post(p) \/ \E l \in Lanes : Make(p, l)
  PROVE  StagesCovered' /\ SleepsAtStart' /\ PutIsQuiet'
<1>0. TypeOK /\ StagesCovered /\ SleepsAtStart /\ PutIsQuiet
  BY DEF Covered
<1>1. ppc \in [Producers -> PCs] /\ "buffer" \in Producers
  BY <1>0, TypeParts DEF PostTypes, Producers
<1>2. UNCHANGED <<bpc, stage>>
  BY DEF Post, Make, Send, Rescue, Refuse, Signal, taskVars
<1>3. PutIsQuiet'
  <2>1. ASSUME bpc = "put" PROVE p # "buffer"
    BY <1>0, <2>1 DEF PutIsQuiet, Post, Make, Makes,
       Send, Rescue, Refuse, Signal, Producers
  <2>2. p # "buffer" => ppc'["buffer"] = ppc["buffer"]
    BY <1>1 DEF Post, Make, Send, Rescue, Refuse, Signal
  <2> QED BY <1>0, <1>2, <2>1, <2>2 DEF PutIsQuiet
<1>4. StagesCovered'
  <2>1. CASE \E l \in Lanes : Make(p, l)
    BY <1>0, <1>2, <2>1, CoveredUnchanged, WakeStaysDue DEF Make, taskVars
  <2>2. CASE Send(p)
    <3>1. CASE ppc' = [ppc EXCEPT ![p] = "signal"]
      BY <1>1, <3>1, CoveredSignalled
    <3>2. CASE UNCHANGED queue /\ ppc' = [ppc EXCEPT ![p] = "rescue"]
      BY <1>0, <1>2, <2>2, <3>2, CoveredUnchanged, WakeStaysDue
         DEF Send, taskVars, laneVars
    <3> QED BY <2>2, <3>1, <3>2 DEF Send
  <2>3. CASE Rescue(p)
    BY <1>1, <2>3, CoveredSignalled DEF Rescue, Rescued
  <2>4. CASE Refuse(p)
    BY <1>0, <1>2, <2>4, CoveredUnchanged, WakeStaysDue DEF Refuse, taskVars
  <2>5. CASE Signal(p)
    <3>1. bpc = "start" \/ notified'
      BY <2>5 DEF Signal
    <3> QED BY <1>2, <3>1 DEF StagesCovered, LeftBehind, WakeDue
  <2> QED BY <2>1, <2>2, <2>3, <2>4, <2>5 DEF Post
<1> QED BY <1>0, <1>2, <1>3, <1>4 DEF SleepsAtStart

\* Taking from one stage leaves the emptiness of the others alone.
LEMMA TakeKeepsOthers ==
  ASSUME TypeOK, TakeFromQueue \/ TakeFromRing, NEW s \in 1 .. 6, s # stage
  PROVE  StageEmpty(s)' <=> StageEmpty(s)
<1>1. stage \in 1 .. 6 /\ queue \in [Lanes -> Seq(Record)]
      /\ ringTail \in [Lanes -> Slots]
  BY TypeParts DEF TaskTypes, LaneTypes
<1>2. LaneOf(s) \in Lanes /\ LaneOf(stage) \in Lanes
  BY LaneOfType
<1>3. UNCHANGED stage
  BY DEF TakeFromQueue, TakeFromRing
<1>4. (IsQueue(s) <=> IsQueue(stage)) => LaneOf(s) # LaneOf(stage)
  BY <1>1 DEF IsQueue, LaneOf
<1>5. CASE TakeFromQueue
  <2>1. IsQueue(s) => queue'[LaneOf(s)] = queue[LaneOf(s)]
    BY <1>1, <1>2, <1>4, <1>5 DEF TakeFromQueue
  <2> QED BY <1>5, <2>1 DEF TakeFromQueue, StageEmpty, RingEmpty, rings
<1>6. CASE TakeFromRing
  <2>1. ~IsQueue(s) => ringTail'[LaneOf(s)] = ringTail[LaneOf(s)]
    BY <1>1, <1>2, <1>4, <1>6 DEF TakeFromRing
  <2> QED BY <1>6, <2>1 DEF TakeFromRing, StageEmpty, RingEmpty
<1> QED BY <1>5, <1>6

LEMMA StepDrain ==
  ASSUME Covered, Drain
  PROVE  StagesCovered' /\ SleepsAtStart' /\ PutIsQuiet'
<1>0. TypeOK /\ StagesCovered /\ SleepsAtStart /\ PutIsQuiet
  BY DEF Covered
<1>s. stage \in 1 .. 6
  BY <1>0, TypeParts DEF TaskTypes
<1>1. CASE TakeFromQueue \/ TakeFromRing
  <2>1. /\ UNCHANGED <<stage, notified, ppc>>
        /\ bpc = "drain" /\ bpc' = "put" /\ ppc["buffer"] = "idle"
    BY <1>1 DEF TakeFromQueue, TakeFromRing, postVars
  <2>2. ASSUME NEW s \in 1 .. 6, LeftBehind(s)', ~StageEmpty(s)' PROVE WakeDue'
    <3>1. s < stage
      BY <2>1, <2>2 DEF LeftBehind
    <3>2. ~StageEmpty(s)
      BY <1>0, <1>1, <1>s, <2>2, <3>1, TakeKeepsOthers
    <3> QED BY <1>0, <2>1, <3>1, <3>2 DEF StagesCovered, LeftBehind, WakeDue
  <2> QED BY <2>1, <2>2 DEF StagesCovered, SleepsAtStart, PutIsQuiet
<1>2. CASE NextStage
  <2>1. /\ UNCHANGED <<laneVars, notified, ppc>>
        /\ bpc = "drain" /\ StageEmpty(stage)
        /\ \/ stage < 6 /\ stage' = stage + 1 /\ bpc' = "drain"
           \/ stage >= 6 /\ stage' = 1 /\ bpc' = "wait"
    BY <1>2, <1>s DEF NextStage, LastStage, postVars
  <2>2. ASSUME NEW s \in 1 .. 6, LeftBehind(s)', ~StageEmpty(s)' PROVE WakeDue'
    <3>1. ~StageEmpty(s)
      BY <2>1, <2>2 DEF StageEmpty, RingEmpty, laneVars, rings
    <3>2. s < stage
      BY <1>s, <2>1, <2>2, <3>1 DEF LeftBehind
    <3> QED BY <1>0, <2>1, <3>1, <3>2 DEF StagesCovered, LeftBehind, WakeDue
  <2> QED BY <2>1, <2>2 DEF StagesCovered, SleepsAtStart, PutIsQuiet
<1>3. CASE BufferPut \/ BufferPutFull
  <2>1. /\ UNCHANGED <<laneVars, stage, notified>>
        /\ bpc = "put" /\ bpc' = "drain" /\ ppc["buffer"] = "idle"
    BY <1>0, <1>3 DEF BufferPut, BufferPutFull, PutIsQuiet
  <2>2. WakeDue => WakeDue'
    <3>1. CASE BufferPut
      BY <3>1 DEF BufferPut, postVars, WakeDue
    <3>2. CASE BufferPutFull
      BY <1>0, <2>1, <3>2, WakeStaysDue DEF BufferPutFull, Producers
    <3> QED BY <1>3, <3>1, <3>2
  <2>3. ASSUME NEW s \in 1 .. 6, LeftBehind(s)', ~StageEmpty(s)' PROVE WakeDue'
    <3>1. ~StageEmpty(s) /\ LeftBehind(s)
      BY <2>1, <2>3 DEF StageEmpty, RingEmpty, laneVars, rings, LeftBehind
    <3> QED BY <1>0, <2>2, <3>1 DEF StagesCovered
  <2> QED BY <2>1, <2>3 DEF StagesCovered, SleepsAtStart, PutIsQuiet
<1> QED BY <1>1, <1>2, <1>3 DEF Drain

LEMMA StepOther ==
  ASSUME Covered,
         Register \/ Wake \/ WakeTimeout \/ Flush \/ UNCHANGED vars
  PROVE  StagesCovered' /\ SleepsAtStart' /\ PutIsQuiet'
<1>0. TypeOK /\ StagesCovered /\ SleepsAtStart /\ PutIsQuiet
  BY DEF Covered
<1>1. CASE Register \/ Wake \/ WakeTimeout
  <2>1. bpc' = "drain" /\ stage' = 1
    BY <1>0, <1>1 DEF Register, Wake, WakeTimeout, SleepsAtStart
  <2> QED BY <2>1 DEF StagesCovered, LeftBehind, SleepsAtStart, PutIsQuiet
<1>2. CASE Flush \/ UNCHANGED vars
  <2>1. UNCHANGED <<laneVars, ppc, bpc, stage, notified>>
    BY <1>2 DEF Flush, vars, postVars, taskVars
  <2>2. WakeDue => WakeDue'
    BY <2>1 DEF WakeDue
  <2> QED BY <1>0, <2>1, <2>2, CoveredUnchanged DEF SleepsAtStart, PutIsQuiet
<1> QED BY <1>1, <1>2

LEMMA StepCovered == Covered /\ [Next]_vars => Covered'
<1> SUFFICES ASSUME Covered, [Next]_vars PROVE Covered'
  OBVIOUS
<1>1. TypeOK'
  BY StepType DEF Covered
<1>2. StagesCovered' /\ SleepsAtStart' /\ PutIsQuiet'
  BY StepPost, StepDrain, StepOther DEF Next
<1> QED BY <1>1, <1>2 DEF Covered

\* However a post falls between buffer_task's last look at a lane and its
\* sleep, it sleeps over a record only with a notification given or coming.
THEOREM NoLostWakeupCorrect == Spec => []NoLostWakeup
<1>1. Init => Covered
  <2>1. Init => StagesCovered /\ SleepsAtStart /\ PutIsQuiet
    BY DEF Init, StagesCovered, LeftBehind, SleepsAtStart, PutIsQuiet
  <2> QED BY <2>1, InitType DEF Covered
<1>2. Covered => NoLostWakeup
  BY DEF Covered, StagesCovered, LeftBehind, WakeDue, NoLostWakeup, LanesEmpty
<1> QED BY <1>1, <1>2, StepCovered, PTL DEF Spec

(***************************************************************************)
(* Counting copies.  A record is counted in each part of its way, 0, 1 or  *)
(* 2 (more than once) times; a step moves it from one part to the next, or *)
(* not at all.                                                             *)
(***************************************************************************)
One(b) == IF b THEN 1 ELSE 0
Times(S) == IF S = {} THEN 0 ELSE IF \E x : S = {x} THEN 1 ELSE 2
\* The places of r in a sequence, and in the slots S of a ring.
Spots(q, r) == {i \in 1 .. Len(q) : q[i] = r}
RingSpots(S, a, r) == {i \in S : a[i] = r}
Ring(h, t) == IF t <= h THEN t .. h - 1 ELSE (t .. RingCap - 1) \union (0 .. h - 1)

\* What Times returns.
LEMMA TimesValue ==
  ASSUME NEW S
  PROVE  /\ Times(S) \in 0 .. 2
         /\ Times(S) = 0 <=> S = {}
         /\ Times(S) = 1 <=> \E x : S = {x}
<1>1. \A x : {x} # {}
  OBVIOUS
<1>2. QED BY <1>1 DEF Times

\* One more place.
LEMMA AddTimes ==
  ASSUME NEW S, NEW e, e \notin S, Times(S) <= 1
  PROVE  Times(S \union {e}) = Times(S) + 1
<1>1. CASE S = {}
  <2>1. S \union {e} = {e}
    BY <1>1
  <2>2. Times(S) = 0 /\ Times(S \union {e}) = 1
    BY <1>1, <2>1, TimesValue
  <2>3. QED BY <2>2
<1>2. CASE S # {}
  <2>1. Times(S) = 1
    BY <1>2, TimesValue
  <2>2. PICK x : S = {x}
    BY <2>1, TimesValue
  <2>3. S \union {e} # {} /\ ~\E y : S \union {e} = {y}
    <3>1. x \in S \union {e} /\ e \in S \union {e} /\ x # e
      BY <2>2
    <3>2. QED BY <3>1
  <2>4. Times(S \union {e}) = 2
    BY <2>3, Zenon DEF Times
  <2>5. QED BY <2>1, <2>4
<1>3. QED BY <1>1, <1>2

\* One place fewer.
LEMMA RemoveTimes ==
  ASSUME NEW S, NEW e \in S, Times(S) <= 1
  PROVE  Times(S \ {e}) + 1 = Times(S)
<1>1. Times(S) = 1
  BY TimesValue
<1>2. PICK x : S = {x}
  BY <1>1, TimesValue
<1>3. S \ {e} = {}
  BY <1>2
<1>4. Times(S \ {e}) = 0
  BY <1>3, TimesValue
<1>5. QED BY <1>1, <1>4

\* Two parts, one of them without the record.
LEMMA UnionTimes ==
  ASSUME NEW A, NEW B, Times(A) + Times(B) <= 1
  PROVE  Times(A \union B) = Times(A) + Times(B)
<1>1. Times(A) \in 0 .. 2 /\ Times(B) \in 0 .. 2
  BY TimesValue
<1>2. CASE Times(A) = 0
  <2>1. A \union B = B
    BY <1>2, TimesValue
  <2>2. QED BY <1>1, <1>2, <2>1
<1>3. CASE Times(B) = 0
  <2>1. A \union B = A
    BY <1>3, TimesValue
  <2>2. QED BY <1>1, <1>3, <2>1
<1>4. QED BY <1>1, <1>2, <1>3

\* A queue or ring named by a tag.
LEMMA TagTimes ==
  ASSUME NEW S, NEW tag, Times(S) <= 1
  PROVE  Times({<<tag, i>> : i \in S}) = Times(S)
<1>1. CASE S = {}
  <2>1. {<<tag, i>> : i \in S} = {}
    BY <1>1
  <2>2. QED BY <1>1, <2>1
<1>2. CASE S # {}
  <2>1. Times(S) = 1
    BY <1>2, TimesValue
  <2>2. PICK x : S = {x}
    BY <2>1, TimesValue
  <2>3. {<<tag, i>> : i \in S} = {<<tag, x>>}
    BY <2>2
  <2>4. Times({<<tag, i>> : i \in S}) = 1
    BY <2>3, TimesValue
  <2>5. QED BY <2>1, <2>4
<1>3. QED BY <1>1, <1>2

\* A record at the end of a sequence.
LEMMA AppendTimes ==
  ASSUME NEW S, NEW q \in Seq(S), NEW x \in S, NEW r, Times(Spots(q, r)) <= 1
  PROVE  Times(Spots(Append(q, x), r)) = Times(Spots(q, r)) + One(x = r)
<1>1. /\ Len(q) \in Nat /\ Len(Append(q, x)) = Len(q) + 1 /\ Append(q, x)[Len(q) + 1] = x
      /\ \A i \in 1 .. Len(q) : Append(q, x)[i] = q[i]
  OBVIOUS
<1>2. CASE x = r
  <2>1. Spots(Append(q, x), r) = Spots(q, r) \union {Len(q) + 1}
    BY <1>1, <1>2 DEF Spots
  <2>2. Len(q) + 1 \notin Spots(q, r)
    BY <1>1 DEF Spots
  <2>3. QED BY <1>2, <2>1, <2>2, AddTimes DEF One
<1>3. CASE x # r
  <2>1. Spots(Append(q, x), r) = Spots(q, r)
    BY <1>1, <1>3 DEF Spots
  <2>2. Times(Spots(q, r)) + 0 = Times(Spots(q, r))
    BY TimesValue
  <2>3. QED BY <1>3, <2>1, <2>2 DEF One
<1>4. QED BY <1>2, <1>3

\* Moving every place by one.
LEMMA ShiftTimes ==
  ASSUME NEW A \in SUBSET Int, NEW B \in SUBSET Int, \A i \in Int : i \in A <=> i + 1 \in B
  PROVE  Times(A) = Times(B)
<1>1. \A j \in Int : j \in B <=> j - 1 \in A
  <2>1. ASSUME NEW j \in Int PROVE j \in B <=> j - 1 \in A
    <3>1. j - 1 \in Int /\ (j - 1) + 1 = j
      OBVIOUS
    <3>2. QED BY <3>1
  <2>2. QED BY <2>1
<1>2. A = {} <=> B = {}
  BY <1>1
<1>3. ASSUME NEW x, A = {x} PROVE \E y : B = {y}
  <2>1. x \in Int /\ x + 1 \in Int
    BY <1>3
  <2>2. ASSUME NEW j \in B PROVE j = x + 1
    <3>1. j \in Int /\ j - 1 \in A
      BY <1>1
    <3>2. j - 1 = x
      BY <1>3, <3>1
    <3>3. QED BY <2>1, <3>1, <3>2
  <2>3. x + 1 \in B
    BY <1>3, <2>1
  <2>4. B = {x + 1}
    BY <2>2, <2>3
  <2>5. QED BY <2>4
<1>4. ASSUME NEW y, B = {y} PROVE \E x : A = {x}
  <2>1. y \in Int /\ y - 1 \in Int
    BY <1>4
  <2>2. ASSUME NEW i \in A PROVE i = y - 1
    <3>1. i \in Int /\ i + 1 \in B
      OBVIOUS
    <3>2. i + 1 = y
      BY <1>4, <3>1
    <3>3. QED BY <2>1, <3>1, <3>2
  <2>3. y - 1 \in A
    BY <1>1, <1>4, <2>1
  <2>4. A = {y - 1}
    BY <2>2, <2>3
  <2>5. QED BY <2>4
<1>5. (\E x : A = {x}) <=> (\E y : B = {y})
  BY <1>3, <1>4, Zenon
<1>6. QED BY <1>2, <1>5, Zenon DEF Times

\* A record at the front of a sequence.
LEMMA TailTimes ==
  ASSUME NEW S, NEW q \in Seq(S), q # <<>>, NEW r, Times(Spots(q, r)) <= 1
  PROVE  Times(Spots(q, r)) = Times(Spots(Tail(q), r)) + One(Head(q) = r)
<1>1. /\ Len(q) \in Nat /\ Len(q) > 0 /\ Len(Tail(q)) = Len(q) - 1 /\ Head(q) = q[1]
      /\ \A i \in 1 .. Len(q) - 1 : Tail(q)[i] = q[i + 1]
  OBVIOUS
<1> DEFINE B == Spots(q, r) \ {1}
<1>2. Times(Spots(Tail(q), r)) = Times(B)
  <2>1. Spots(Tail(q), r) \in SUBSET Int /\ B \in SUBSET Int
    BY <1>1 DEF Spots
  <2>2. ASSUME NEW i \in Int PROVE i \in Spots(Tail(q), r) <=> i + 1 \in B
    <3>1. i \in 1 .. Len(q) - 1 <=> i + 1 \in 1 .. Len(q) /\ i + 1 # 1
      BY <1>1
    <3>2. i \in Spots(Tail(q), r) <=> i \in 1 .. Len(q) - 1 /\ Tail(q)[i] = r
      BY <1>1 DEF Spots
    <3>3. i + 1 \in B <=> i + 1 \in 1 .. Len(q) /\ i + 1 # 1 /\ q[i + 1] = r
      BY DEF Spots
    <3>4. QED BY <1>1, <3>1, <3>2, <3>3
  <2>3. QED BY <2>1, <2>2, ShiftTimes
<1>3. CASE Head(q) = r
  <2>1. 1 \in Spots(q, r)
    BY <1>1, <1>3 DEF Spots
  <2>2. QED BY <1>2, <1>3, <2>1, RemoveTimes DEF One
<1>4. CASE Head(q) # r
  <2>1. B = Spots(q, r)
    BY <1>1, <1>4 DEF Spots
  <2>2. Times(Spots(q, r)) + 0 = Times(Spots(q, r))
    BY TimesValue
  <2>3. QED BY <1>2, <1>4, <2>1, <2>2 DEF One
<1>5. QED BY <1>3, <1>4

(***************************************************************************)
(* The slots of a ring.                                                    *)
(***************************************************************************)
\* Inc, without the remainder.
LEMMA IncValue ==
  ASSUME NEW i \in Slots
  PROVE  /\ Inc(i) = IF i + 1 < RingCap THEN i + 1 ELSE 0
         /\ Inc(i) \in Slots /\ RingCap \in Nat /\ RingCap > 1
<1>1. RingCap \in Nat /\ RingCap > 1 /\ i \in Nat /\ i < RingCap
  BY IpcAssumption DEF Slots
<1>2. QED BY <1>1 DEF Inc, Slots

\* A put takes a slot that was free, unless the ring is full.
LEMMA RingGrows ==
  ASSUME NEW h \in Slots, NEW t \in Slots, Inc(h) # t
  PROVE  h \notin Ring(h, t) /\ Ring(Inc(h), t) = Ring(h, t) \union {h}
<1>1. /\ h \in Nat /\ t \in Nat /\ h < RingCap /\ t < RingCap
      /\ RingCap \in Nat /\ RingCap > 1
  BY IncValue DEF Slots
<1>2. PICK n \in Slots : n = Inc(h) /\ n = IF h + 1 < RingCap THEN h + 1 ELSE 0
  BY IncValue
<1>3. n # t
  BY <1>2
<1>4. h \notin Ring(h, t)
  BY <1>1 DEF Ring
<1>5. Ring(n, t) = Ring(h, t) \union {h}
  <2>1. CASE h + 1 < RingCap
    BY <1>1, <1>2, <1>3, <2>1 DEF Ring
  <2>2. CASE h + 1 >= RingCap
    BY <1>1, <1>2, <1>3, <2>2 DEF Ring
  <2>3. QED BY <1>1, <2>1, <2>2
<1>6. QED BY <1>2, <1>4, <1>5

\* A get frees one that was in use.
LEMMA RingShrinks ==
  ASSUME NEW h \in Slots, NEW t \in Slots, h # t
  PROVE  t \in Ring(h, t) /\ Ring(h, Inc(t)) = Ring(h, t) \ {t}
<1>1. /\ h \in Nat /\ t \in Nat /\ h < RingCap /\ t < RingCap
      /\ RingCap \in Nat /\ RingCap > 1
  BY IncValue DEF Slots
<1>2. PICK n \in Slots : n = Inc(t) /\ n = IF t + 1 < RingCap THEN t + 1 ELSE 0
  BY IncValue
<1>3. t \in Ring(h, t)
  BY <1>1 DEF Ring
<1>4. Ring(h, n) = Ring(h, t) \ {t}
  <2>1. CASE t + 1 < RingCap
    BY <1>1, <1>2, <2>1 DEF Ring
  <2>2. CASE t + 1 >= RingCap
    BY <1>1, <1>2, <2>2 DEF Ring
  <2>3. QED BY <1>1, <2>1, <2>2
<1>5. QED BY <1>2, <1>3, <1>4

\* The slots in use are slots.
LEMMA RingSubset ==
  ASSUME NEW h \in Slots, NEW t \in Slots PROVE Ring(h, t) \subseteq Slots
<1>1. h \in Nat /\ t \in Nat /\ h < RingCap /\ t < RingCap /\ RingCap \in Nat
  BY IncValue DEF Slots
<1>2. QED BY <1>1 DEF Ring, Slots

\* A record put into a ring.
LEMMA RingAddTimes ==
  ASSUME NEW S, NEW h, h \notin S, NEW a, NEW b, NEW x, b[h] = x,
         \A i \in S : b[i] = a[i], NEW r, Times(RingSpots(S, a, r)) <= 1
  PROVE  Times(RingSpots(S \union {h}, b, r)) = Times(RingSpots(S, a, r)) + One(x = r)
<1>1. CASE x = r
  <2>1. RingSpots(S \union {h}, b, r) = RingSpots(S, a, r) \union {h}
    BY <1>1 DEF RingSpots
  <2>2. h \notin RingSpots(S, a, r)
    BY DEF RingSpots
  <2>3. QED BY <1>1, <2>1, <2>2, AddTimes DEF One
<1>2. CASE x # r
  <2>1. RingSpots(S \union {h}, b, r) = RingSpots(S, a, r)
    BY <1>2 DEF RingSpots
  <2>2. Times(RingSpots(S, a, r)) + 0 = Times(RingSpots(S, a, r))
    BY TimesValue
  <2>3. QED BY <1>2, <2>1, <2>2 DEF One
<1>3. QED BY <1>1, <1>2

\* A record taken from a ring.
LEMMA RingRemoveTimes ==
  ASSUME NEW S, NEW t \in S, NEW a, NEW r, Times(RingSpots(S, a, r)) <= 1
  PROVE  Times(RingSpots(S, a, r)) = Times(RingSpots(S \ {t}, a, r)) + One(a[t] = r)
<1>1. CASE a[t] = r
  <2>1. RingSpots(S \ {t}, a, r) = RingSpots(S, a, r) \ {t} /\ t \in RingSpots(S, a, r)
    BY <1>1 DEF RingSpots
  <2>2. QED BY <1>1, <2>1, RemoveTimes DEF One
<1>2. CASE a[t] # r
  <2>1. RingSpots(S \ {t}, a, r) = RingSpots(S, a, r)
    BY <1>2 DEF RingSpots
  <2>2. Times(RingSpots(S, a, r)) + 0 = Times(RingSpots(S, a, r))
    BY TimesValue
  <2>3. QED BY <1>2, <2>1, <2>2 DEF One
<1>3. QED BY <1>1, <1>2

(***************************************************************************)
(* A record in one place.  Its copies in each part of its way, and the     *)
(* invariant: one in all once it is made, none before.  What a lane's      *)
(* queue and ring hold is of that lane, and buffer_task has forgotten a    *)
(* record it has put.                                                      *)
(***************************************************************************)
Holding(p, r) == ppc[p] \in {"send", "rescue"} /\ hold[p] = r
QueueTimes(r) == Times(Spots(queue[r[1]], r))
RingTimes(r) ==
  Times(RingSpots(Ring(ringHead[r[1]], ringTail[r[1]]), slots[r[1]], r))
HeldTimes(r) ==
  One(Holding("poll", r)) + One(Holding("mqtt", r)) + One(Holding("buffer", r))
TakenTimes(r) == One(taken = r)
RamTimes(r) == Times(Spots(ram, r))
GoneTimes(r) == One(r \in gone)
Total(r) ==
  QueueTimes(r) + RingTimes(r) + HeldTimes(r) + TakenTimes(r) + RamTimes(r)
    + GoneTimes(r)

InLane(l) ==
  /\ \A i \in 1 .. Len(queue[l]) : queue[l][i][1] = l
  /\ \A i \in Ring(ringHead[l], ringTail[l]) : slots[l][i][1] = l
OwnLanes == \A l \in Lanes : InLane(l)
TakenForgotten == bpc # "put" => ~Known(taken)
Once == \A r \in Record : Known(r) => Total(r) = One(r[2] <= posted[r[1]])
Placed == Covered /\ OwnLanes /\ TakenForgotten /\ Once

\* Every count is a number.
LEMMA CountTypes ==
  ASSUME NEW r
  PROVE  /\ QueueTimes(r) \in 0 .. 2 /\ RingTimes(r) \in 0 .. 2 /\ HeldTimes(r) \in 0 .. 3
         /\ TakenTimes(r) \in 0 .. 1 /\ RamTimes(r) \in 0 .. 2 /\ GoneTimes(r) \in 0 .. 1
         /\ QueueTimes(r)' \in 0 .. 2 /\ RingTimes(r)' \in 0 .. 2 /\ HeldTimes(r)' \in 0 .. 3
         /\ TakenTimes(r)' \in 0 .. 1 /\ RamTimes(r)' \in 0 .. 2 /\ GoneTimes(r)' \in 0 .. 1
<1>1. \A b : One(b) \in 0 .. 1
  BY DEF One
<1>2. \A S : Times(S) \in 0 .. 2
  BY TimesValue
<1>3. QueueTimes(r) \in 0 .. 2 /\ RingTimes(r) \in 0 .. 2 /\ RamTimes(r) \in 0 .. 2
  BY <1>2 DEF QueueTimes, RingTimes, RamTimes
<1>4. QueueTimes(r)' \in 0 .. 2 /\ RingTimes(r)' \in 0 .. 2 /\ RamTimes(r)' \in 0 .. 2
  BY <1>2 DEF QueueTimes, RingTimes, RamTimes
<1>5. TakenTimes(r) \in 0 .. 1 /\ GoneTimes(r) \in 0 .. 1
  BY DEF TakenTimes, GoneTimes, One
<1>6. TakenTimes(r)' \in 0 .. 1 /\ GoneTimes(r)' \in 0 .. 1
  BY DEF TakenTimes, GoneTimes, One
<1>7. HeldTimes(r) \in 0 .. 3 /\ HeldTimes(r)' \in 0 .. 3
  BY DEF HeldTimes, One
<1>8. QED BY <1>3, <1>4, <1>5, <1>6, <1>7

\* Only one task's hold changes.
LEMMA HeldChange ==
  ASSUME NEW r, NEW p \in Producers,
         \A q \in Producers \ {p} : ppc'[q] = ppc[q] /\ hold'[q] = hold[q]
  PROVE  HeldTimes(r)' + One(Holding(p, r)) = HeldTimes(r) + One(Holding(p, r)')
<1>1. \A q \in Producers \ {p} : Holding(q, r)' <=> Holding(q, r)
  BY DEF Holding
<1>2. CASE p = "poll"
  BY <1>1, <1>2 DEF HeldTimes, Producers, One
<1>3. CASE p = "mqtt"
  BY <1>1, <1>3 DEF HeldTimes, Producers, One
<1>4. CASE p = "buffer"
  BY <1>1, <1>4 DEF HeldTimes, Producers, One
<1>5. QED BY <1>2, <1>3, <1>4 DEF Producers

\* Parts that a step leaves alone.
LEMMA SameCounts ==
  ASSUME NEW r
  PROVE  /\ queue' = queue => QueueTimes(r)' = QueueTimes(r)
         /\ UNCHANGED rings => RingTimes(r)' = RingTimes(r)
         /\ UNCHANGED postVars => HeldTimes(r)' = HeldTimes(r)
         /\ taken' = taken => TakenTimes(r)' = TakenTimes(r)
         /\ ram' = ram => RamTimes(r)' = RamTimes(r)
         /\ gone' = gone => GoneTimes(r)' = GoneTimes(r)
<1>1. queue' = queue => QueueTimes(r)' = QueueTimes(r)
  BY DEF QueueTimes
<1>2. UNCHANGED rings => RingTimes(r)' = RingTimes(r)
  BY DEF RingTimes, rings
<1>3. UNCHANGED postVars => HeldTimes(r)' = HeldTimes(r)
  BY DEF HeldTimes, Holding, postVars
<1>4. /\ taken' = taken => TakenTimes(r)' = TakenTimes(r)
      /\ ram' = ram => RamTimes(r)' = RamTimes(r)
      /\ gone' = gone => GoneTimes(r)' = GoneTimes(r)
  BY DEF TakenTimes, RamTimes, GoneTimes
<1>5. QED BY <1>1, <1>2, <1>3, <1>4

\* Records published or dropped.
LEMMA GoneChange ==
  ASSUME NEW r, Known(r), NEW x, gone' = gone \union Counted(x), x = r => r \notin gone
  PROVE  GoneTimes(r)' = GoneTimes(r) + One(x = r)
<1>1. CASE x = r
  <2>1. r \in gone' /\ r \notin gone
    BY <1>1 DEF Counted
  <2>2. QED BY <1>1, <2>1 DEF GoneTimes, One
<1>2. CASE x # r
  <2>1. r \in gone' <=> r \in gone
    BY <1>2 DEF Counted
  <2>2. QED BY <1>2, <2>1 DEF GoneTimes, One
<1>3. QED BY <1>1, <1>2

\* buffer_task's record.
LEMMA TakenChange ==
  ASSUME NEW r, Known(r)
  PROVE  /\ ~Known(taken) => TakenTimes(r) = 0
         /\ taken' = None => TakenTimes(r)' = 0
BY DEF TakenTimes, One, Known, None

\* The types the counting needs.
LEMMA PlacedTypes ==
  ASSUME Placed
  PROVE  /\ queue \in [Lanes -> Seq(Record)] /\ slots \in [Lanes -> [Slots -> Record]]
         /\ ringHead \in [Lanes -> Slots] /\ ringTail \in [Lanes -> Slots]
         /\ ppc \in [Producers -> PCs] /\ hold \in [Producers -> Record]
         /\ posted \in [Lanes -> Nat] /\ taken \in Record /\ ram \in Seq(Record)
         /\ stage \in 1 .. 6 /\ PutIsQuiet /\ OwnLanes /\ TakenForgotten /\ TypeOK
BY TypeParts DEF Placed, Covered, LaneTypes, PostTypes, TaskTypes, RamTypes

\* Making a record.
LEMMA MakeTotal ==
  ASSUME Placed, NEW r \in Record, Known(r), NEW p \in Producers, NEW l \in Lanes, Make(p, l)
  PROVE  Total(r)' = Total(r) + One(r = <<l, posted[l] + 1>>)
<1>1. /\ UNCHANGED <<queue, rings, taken, ram, gone>> /\ ppc[p] = "idle"
      /\ ppc' = [ppc EXCEPT ![p] = "send"]
      /\ hold' = [hold EXCEPT ![p] = <<l, posted[l] + 1>>]
  BY DEF Make, laneVars, taskVars
<1>2. /\ \A q \in Producers \ {p} : ppc'[q] = ppc[q] /\ hold'[q] = hold[q]
      /\ ppc'[p] = "send" /\ hold'[p] = <<l, posted[l] + 1>>
  BY <1>1, PlacedTypes
<1>3. One(Holding(p, r)) = 0 /\ One(Holding(p, r)') = One(r = <<l, posted[l] + 1>>)
  BY <1>1, <1>2 DEF Holding, One
<1>4. HeldTimes(r)' = HeldTimes(r) + One(r = <<l, posted[l] + 1>>)
  <2>1. HeldTimes(r)' + One(Holding(p, r)) = HeldTimes(r) + One(Holding(p, r)')
    BY <1>2, HeldChange
  <2>2. HeldTimes(r)' \in Nat
    BY CountTypes
  <2>3. QED BY <1>3, <2>1, <2>2
<1>5. One(r = <<l, posted[l] + 1>>) \in 0 .. 1
  BY DEF One
<1>6. QED BY <1>1, <1>4, <1>5, CountTypes, SameCounts DEF Total

\* Sending one: it goes from the task to the queue of its lane, or stays.
LEMMA SendTotal ==
  ASSUME Placed, NEW r \in Record, Known(r), Total(r) <= 1, NEW p \in Producers, Send(p)
  PROVE  Total(r)' = Total(r)
<1> DEFINE l == hold[p][1]
<1>1. /\ UNCHANGED <<rings, hold, taken, ram, gone>> /\ ppc[p] = "send"
  BY DEF Send, taskVars
<1>2. hold[p] \in Record /\ l \in Lanes /\ queue[l] \in Seq(Record) /\ r[1] \in Lanes
  BY PlacedTypes, HoldType DEF Record
<1>3. One(Holding(p, r)) = One(hold[p] = r)
  BY <1>1 DEF Holding, One
<1>4. One(hold[p] = r) \in 0 .. 1
  BY DEF One
<1>5. CASE queue' = queue /\ ppc' = [ppc EXCEPT ![p] = "rescue"]
  <2>1. /\ \A q \in Producers \ {p} : ppc'[q] = ppc[q] /\ hold'[q] = hold[q]
        /\ ppc'[p] = "rescue" /\ hold'[p] = hold[p]
    BY <1>1, <1>5, PlacedTypes
  <2>2. One(Holding(p, r)') = One(hold[p] = r)
    BY <2>1 DEF Holding, One
  <2>3. HeldTimes(r)' + One(Holding(p, r)) = HeldTimes(r) + One(Holding(p, r)')
    BY <2>1, HeldChange
  <2>4. HeldTimes(r)' = HeldTimes(r)
    BY <1>3, <1>4, <2>2, <2>3, CountTypes
  <2>5. QED BY <1>1, <1>5, <2>4, SameCounts DEF Total
<1>6. CASE /\ queue' = [queue EXCEPT ![l] = Append(@, hold[p])]
           /\ ppc' = [ppc EXCEPT ![p] = "signal"]
  <2>1. /\ \A q \in Producers \ {p} : ppc'[q] = ppc[q] /\ hold'[q] = hold[q]
        /\ ppc'[p] = "signal"
    BY <1>1, <1>6, PlacedTypes
  <2>2. One(Holding(p, r)') = 0
    BY <2>1 DEF Holding, One
  <2>3. HeldTimes(r)' + One(Holding(p, r)) = HeldTimes(r) + One(Holding(p, r)')
    BY <2>1, HeldChange
  <2>4. QueueTimes(r)' = QueueTimes(r) + One(hold[p] = r)
    <3>1. CASE r[1] = l
      <4>1. queue'[r[1]] = Append(queue[l], hold[p])
        BY <1>2, <1>6, <3>1, PlacedTypes
      <4>2. QueueTimes(r) = Times(Spots(queue[l], r))
        BY <3>1 DEF QueueTimes
      <4>3. Times(Spots(queue[l], r)) <= 1
        BY <4>2, CountTypes DEF Total
      <4>4. Times(Spots(Append(queue[l], hold[p]), r))
              = Times(Spots(queue[l], r)) + One(hold[p] = r)
        BY <1>2, <4>3, AppendTimes
      <4>5. QueueTimes(r)' = Times(Spots(Append(queue[l], hold[p]), r))
        BY <4>1 DEF QueueTimes
      <4>6. QED BY <4>2, <4>4, <4>5
    <3>2. CASE r[1] # l
      <4>1. queue'[r[1]] = queue[r[1]] /\ hold[p] # r
        BY <1>2, <1>6, <3>2, PlacedTypes
      <4>2. QueueTimes(r)' = QueueTimes(r) /\ One(hold[p] = r) = 0
        BY <4>1 DEF QueueTimes, One
      <4>3. QED BY <4>2, CountTypes
    <3>3. QED BY <3>1, <3>2
  <2>5. QED BY <1>1, <1>3, <1>4, <2>2, <2>3, <2>4, SameCounts, CountTypes DEF Total
<1>7. QED BY <1>5, <1>6 DEF Send

\* Rescuing one: from the task to the ring of its lane.
LEMMA RescueTotal ==
  ASSUME Placed, NEW r \in Record, Known(r), Total(r) <= 1, NEW p \in Producers, Rescue(p)
  PROVE  Total(r)' = Total(r)
<1> DEFINE l == hold[p][1]
           h == ringHead[l]
           t == ringTail[l]
<1>1. /\ UNCHANGED <<queue, hold, taken, ram, gone, ringTail>> /\ ppc[p] = "rescue"
      /\ slots' = [slots EXCEPT ![l][h] = hold[p]]
      /\ ringHead' = [ringHead EXCEPT ![l] = Inc(@)] /\ Inc(h) # t
      /\ ppc' = [ppc EXCEPT ![p] = "signal"]
  BY DEF Rescue, RingPut, Rescued, RingFull, taskVars
<1>2. /\ hold[p] \in Record /\ l \in Lanes /\ r[1] \in Lanes
      /\ h \in Slots /\ t \in Slots /\ slots[l] \in [Slots -> Record]
  BY PlacedTypes, HoldType DEF Record
<1>3. One(Holding(p, r)) = One(hold[p] = r) /\ One(hold[p] = r) \in 0 .. 1
  BY <1>1 DEF Holding, One
<1>4. /\ \A q \in Producers \ {p} : ppc'[q] = ppc[q] /\ hold'[q] = hold[q]
      /\ ppc'[p] = "signal"
  BY <1>1, PlacedTypes
<1>5. One(Holding(p, r)') = 0
  BY <1>4 DEF Holding, One
<1>6. HeldTimes(r)' + One(Holding(p, r)) = HeldTimes(r) + One(Holding(p, r)')
  BY <1>4, HeldChange
<1>7. RingTimes(r)' = RingTimes(r) + One(hold[p] = r)
  <2>1. CASE r[1] = l
    <3>1. h \notin Ring(h, t) /\ Ring(Inc(h), t) = Ring(h, t) \union {h}
      BY <1>1, <1>2, RingGrows
    <3>2. PICK S : S = Ring(h, t)
      OBVIOUS
    <3>3. PICK b : b = slots'[l]
      OBVIOUS
    <3>4. S \subseteq Slots
      BY <1>2, <3>2, RingSubset
    <3>5. b[h] = hold[p] /\ \A i \in S : b[i] = slots[l][i]
      BY <1>1, <1>2, <3>1, <3>2, <3>3, <3>4, PlacedTypes
    <3>6. RingTimes(r) = Times(RingSpots(S, slots[l], r))
      BY <2>1, <3>2 DEF RingTimes
    <3>7. Times(RingSpots(S, slots[l], r)) <= 1
      BY <3>6, CountTypes DEF Total
    <3>8. Times(RingSpots(S \union {h}, b, r))
            = Times(RingSpots(S, slots[l], r)) + One(hold[p] = r)
      BY <3>1, <3>2, <3>5, <3>7, RingAddTimes
    <3>9. ringHead'[l] = Inc(h) /\ ringTail'[l] = t
      BY <1>1, <1>2, PlacedTypes
    <3>10. Ring(ringHead'[l], ringTail'[l]) = S \union {h}
      BY <3>1, <3>2, <3>9
    <3>11. RingTimes(r)' = Times(RingSpots(S \union {h}, b, r))
      BY <2>1, <3>3, <3>10 DEF RingTimes
    <3>12. QED BY <3>6, <3>8, <3>11
  <2>2. CASE r[1] # l
    <3>1. /\ slots'[r[1]] = slots[r[1]] /\ ringHead'[r[1]] = ringHead[r[1]]
          /\ ringTail'[r[1]] = ringTail[r[1]] /\ hold[p] # r
      BY <1>1, <1>2, <2>2, PlacedTypes
    <3>2. RingTimes(r)' = RingTimes(r) /\ One(hold[p] = r) = 0
      BY <3>1 DEF RingTimes, One
    <3>3. QED BY <3>2, CountTypes
  <2>3. QED BY <2>1, <2>2
<1>8. QED BY <1>1, <1>3, <1>5, <1>6, <1>7, SameCounts, CountTypes DEF Total

\* Refusing one: it is counted as dropped; what is announced is not followed.
LEMMA RefuseTotal ==
  ASSUME Placed, NEW r \in Record, Known(r), Total(r) <= 1, NEW p \in Producers, Refuse(p)
  PROVE  Total(r)' = Total(r)
<1>1. /\ UNCHANGED <<queue, rings, taken, ram>> /\ ppc[p] = "rescue"
      /\ gone' = gone \union Counted(hold[p])
      /\ \E v : ppc' = [ppc EXCEPT ![p] = v]
      /\ \E x \in {Overflow, None} : hold' = [hold EXCEPT ![p] = x]
  BY DEF Refuse, laneVars, taskVars
<1>2. /\ \A q \in Producers \ {p} : ppc'[q] = ppc[q] /\ hold'[q] = hold[q]
      /\ hold'[p] = <<"event", 0>>
  BY <1>1, PlacedTypes DEF Overflow, None
<1>3. One(Holding(p, r)') = 0
  BY <1>2 DEF Holding, One, Known
<1>4. HeldTimes(r)' + One(Holding(p, r)) = HeldTimes(r) + One(Holding(p, r)')
  BY <1>2, HeldChange
<1>5. One(Holding(p, r)) = One(hold[p] = r) /\ One(hold[p] = r) \in 0 .. 1
  BY <1>1 DEF Holding, One
<1>6. hold[p] = r => r \notin gone
  <2>1. ASSUME hold[p] = r PROVE GoneTimes(r) = 0
    <3>1. One(Holding(p, r)) = 1
      BY <1>5, <2>1 DEF One
    <3>2. HeldTimes(r) >= 1
      BY <1>3, <1>4, <3>1, CountTypes
    <3>3. QED BY <3>2, CountTypes DEF Total
  <2>2. QED BY <2>1 DEF GoneTimes, One
<1>7. GoneTimes(r)' = GoneTimes(r) + One(hold[p] = r)
  BY <1>1, <1>6, GoneChange
<1>8. QED BY <1>1, <1>3, <1>4, <1>5, <1>7, SameCounts, CountTypes DEF Total

\* Signalling: the record has left the task before.
LEMMA SignalTotal ==
  ASSUME Placed, NEW r \in Record, Known(r), NEW p \in Producers, Signal(p)
  PROVE  Total(r)' = Total(r)
<1>1. /\ UNCHANGED <<queue, rings, taken, ram, gone>> /\ ppc[p] = "signal"
      /\ ppc' = [ppc EXCEPT ![p] = "idle"] /\ hold' = [hold EXCEPT ![p] = None]
  BY DEF Signal, laneVars
<1>2. /\ \A q \in Producers \ {p} : ppc'[q] = ppc[q] /\ hold'[q] = hold[q]
      /\ ppc'[p] = "idle"
  BY <1>1, PlacedTypes
<1>3. One(Holding(p, r)') = 0 /\ One(Holding(p, r)) = 0
  BY <1>1, <1>2 DEF Holding, One
<1>4. HeldTimes(r)' + One(Holding(p, r)) = HeldTimes(r) + One(Holding(p, r)')
  BY <1>2, HeldChange
<1>5. HeldTimes(r)' = HeldTimes(r)
  BY <1>3, <1>4, CountTypes
<1>6. QED BY <1>1, <1>5, SameCounts DEF Total

\* Taking a record from the queue of a lane ...
LEMMA TakeQueueTotal ==
  ASSUME Placed, NEW r \in Record, Known(r), Total(r) <= 1, TakeFromQueue
  PROVE  Total(r)' = Total(r)
<1> DEFINE l == LaneOf(stage)
<1>1. /\ UNCHANGED <<rings, postVars, ram, gone>> /\ bpc = "drain"
      /\ queue[l] # <<>> /\ taken' = Head(queue[l])
      /\ queue' = [queue EXCEPT ![l] = Tail(@)]
  BY DEF TakeFromQueue, StageEmpty
<1>2. l \in Lanes /\ queue[l] \in Seq(Record) /\ r[1] \in Lanes
  BY LaneOfType, PlacedTypes DEF Record
<1>3. TakenTimes(r) = 0 /\ TakenTimes(r)' = One(Head(queue[l]) = r)
  <2>1. ~Known(taken)
    BY <1>1, PlacedTypes DEF TakenForgotten
  <2>2. TakenTimes(r) = 0
    BY <2>1, TakenChange
  <2>3. QED BY <1>1, <2>2 DEF TakenTimes
<1>4. QueueTimes(r) = QueueTimes(r)' + One(Head(queue[l]) = r)
  <2>1. CASE r[1] = l
    <3>1. queue'[r[1]] = Tail(queue[l])
      BY <1>1, <1>2, <2>1, PlacedTypes
    <3>2. QueueTimes(r) = Times(Spots(queue[l], r))
      BY <2>1 DEF QueueTimes
    <3>3. Times(Spots(queue[l], r)) <= 1
      BY <3>2, CountTypes DEF Total
    <3>4. Times(Spots(queue[l], r))
            = Times(Spots(Tail(queue[l]), r)) + One(Head(queue[l]) = r)
      BY <1>1, <1>2, <3>3, TailTimes
    <3>5. QueueTimes(r)' = Times(Spots(Tail(queue[l]), r))
      BY <3>1 DEF QueueTimes
    <3>6. QED BY <3>2, <3>4, <3>5
  <2>2. CASE r[1] # l
    <3>1. queue'[r[1]] = queue[r[1]]
      BY <1>1, <1>2, <2>2, PlacedTypes
    <3>2. Head(queue[l]) # r
      <4>1. queue[l][1][1] = l
        <5>1. 1 \in 1 .. Len(queue[l])
          BY <1>1, <1>2
        <5>2. InLane(l)
          BY <1>2, PlacedTypes DEF OwnLanes
        <5>3. QED BY <5>1, <5>2 DEF InLane
      <4>2. Head(queue[l]) = queue[l][1]
        BY <1>1, <1>2
      <4>3. QED BY <2>2, <4>1, <4>2
    <3>3. QueueTimes(r)' = QueueTimes(r) /\ One(Head(queue[l]) = r) = 0
      BY <3>1, <3>2 DEF QueueTimes, One
    <3>4. QED BY <3>3, CountTypes
  <2>3. QED BY <2>1, <2>2
<1>5. QED BY <1>1, <1>3, <1>4, SameCounts, CountTypes DEF Total

\* ... or from its ring.
LEMMA TakeRingTotal ==
  ASSUME Placed, NEW r \in Record, Known(r), Total(r) <= 1, TakeFromRing
  PROVE  Total(r)' = Total(r)
<1> DEFINE l == LaneOf(stage)
           h == ringHead[l]
           t == ringTail[l]
<1>1. /\ UNCHANGED <<queue, slots, ringHead, postVars, ram, gone>> /\ bpc = "drain"
      /\ h # t /\ taken' = slots[l][t]
      /\ ringTail' = [ringTail EXCEPT ![l] = Inc(@)]
  BY DEF TakeFromRing, StageEmpty, RingEmpty
<1>2. /\ l \in Lanes /\ r[1] \in Lanes /\ h \in Slots /\ t \in Slots
  BY LaneOfType, PlacedTypes DEF Record
<1>3. TakenTimes(r) = 0 /\ TakenTimes(r)' = One(slots[l][t] = r)
  <2>1. ~Known(taken)
    BY <1>1, PlacedTypes DEF TakenForgotten
  <2>2. TakenTimes(r) = 0
    BY <2>1, TakenChange
  <2>3. QED BY <1>1, <2>2 DEF TakenTimes
<1>4. t \in Ring(h, t) /\ Ring(h, Inc(t)) = Ring(h, t) \ {t}
  BY <1>1, <1>2, RingShrinks
<1>5. RingTimes(r) = RingTimes(r)' + One(slots[l][t] = r)
  <2>1. CASE r[1] = l
    <3>1. PICK S : S = Ring(h, t)
      OBVIOUS
    <3>2. RingTimes(r) = Times(RingSpots(S, slots[l], r))
      BY <2>1, <3>1 DEF RingTimes
    <3>3. Times(RingSpots(S, slots[l], r)) <= 1
      BY <3>2, CountTypes DEF Total
    <3>4. Times(RingSpots(S, slots[l], r))
            = Times(RingSpots(S \ {t}, slots[l], r)) + One(slots[l][t] = r)
      <4>1. PICK a : a = slots[l]
        OBVIOUS
      <4>2. t \in S
        BY <1>4, <3>1
      <4>3. Times(RingSpots(S, a, r)) <= 1
        BY <3>3, <4>1, Zenon
      <4>4. Times(RingSpots(S, a, r)) = Times(RingSpots(S \ {t}, a, r)) + One(a[t] = r)
        BY <4>2, <4>3, RingRemoveTimes
      <4>5. QED BY <4>1, <4>4, Zenon
    <3>5. ringHead'[l] = h /\ ringTail'[l] = Inc(t) /\ slots'[l] = slots[l]
      BY <1>1, <1>2, PlacedTypes
    <3>6. Ring(ringHead'[l], ringTail'[l]) = S \ {t}
      BY <1>4, <3>1, <3>5
    <3>7. RingTimes(r)' = Times(RingSpots(S \ {t}, slots[l], r))
      BY <2>1, <3>5, <3>6 DEF RingTimes
    <3>8. QED BY <3>2, <3>4, <3>7
  <2>2. CASE r[1] # l
    <3>1. /\ slots'[r[1]] = slots[r[1]] /\ ringHead'[r[1]] = ringHead[r[1]]
          /\ ringTail'[r[1]] = ringTail[r[1]]
      BY <1>1, <1>2, <2>2, PlacedTypes
    <3>2. slots[l][t] # r
      <4>1. InLane(l)
        BY <1>2, PlacedTypes DEF OwnLanes
      <4>2. slots[l][t][1] = l
        BY <1>4, <4>1 DEF InLane
      <4>3. QED BY <2>2, <4>2
    <3>3. RingTimes(r)' = RingTimes(r) /\ One(slots[l][t] = r) = 0
      BY <3>1, <3>2 DEF RingTimes, One
    <3>4. QED BY <3>3, CountTypes
  <2>3. QED BY <2>1, <2>2
<1>6. QED BY <1>1, <1>3, <1>5, SameCounts, CountTypes DEF Total, rings

\* Putting it into the RAM ring; a full one drops the oldest record or the new.
LEMMA PutTotal ==
  ASSUME Placed, NEW r \in Record, Known(r), Total(r) <= 1, BufferPut \/ BufferPutFull
  PROVE  Total(r)' = Total(r)
<1>1. UNCHANGED <<queue, rings>> /\ bpc = "put" /\ taken' = None
  BY DEF BufferPut, BufferPutFull, laneVars
<1>2. TakenTimes(r)' = 0 /\ TakenTimes(r) = One(taken = r)
  BY <1>1, TakenChange DEF TakenTimes
<1>3. taken \in Record /\ ram \in Seq(Record)
  BY PlacedTypes
<1>4. RamTimes(r) = Times(Spots(ram, r)) /\ RamTimes(r) <= 1
  BY CountTypes DEF Total, RamTimes
<1>5. CASE BufferPut
  <2>1. UNCHANGED <<postVars, gone>> /\ ram' = Append(ram, taken)
    BY <1>5 DEF BufferPut
  <2>2. Times(Spots(Append(ram, taken), r)) = Times(Spots(ram, r)) + One(taken = r)
    BY <1>3, <1>4, AppendTimes
  <2>3. RamTimes(r)' = RamTimes(r) + One(taken = r)
    BY <1>4, <2>1, <2>2 DEF RamTimes
  <2>4. QED BY <1>1, <1>2, <2>1, <2>3, SameCounts, CountTypes DEF Total
<1>6. CASE BufferPutFull
  <2>1. /\ ram' = IF DropOldest THEN Append(Tail(ram), taken) ELSE ram
        /\ gone' = gone \union Counted(IF DropOldest THEN Head(ram) ELSE taken)
        /\ ppc' = [ppc EXCEPT !["buffer"] = "send"]
        /\ hold' = [hold EXCEPT !["buffer"] = <<"event", 0>>]
    BY <1>6 DEF BufferPutFull, Overflow
  <2>2. HeldTimes(r)' = HeldTimes(r)
    <3>1. /\ \A q \in Producers \ {"buffer"} : ppc'[q] = ppc[q] /\ hold'[q] = hold[q]
          /\ hold'["buffer"] = <<"event", 0>> /\ "buffer" \in Producers
      BY <2>1, PlacedTypes DEF Producers
    <3>2. ppc["buffer"] = "idle"
      BY <1>1, PlacedTypes DEF PutIsQuiet
    <3>3. One(Holding("buffer", r)') = 0 /\ One(Holding("buffer", r)) = 0
      BY <3>1, <3>2 DEF Holding, One, Known
    <3>4. HeldTimes(r)' + One(Holding("buffer", r)) = HeldTimes(r) + One(Holding("buffer", r)')
      BY <3>1, HeldChange
    <3>5. QED BY <3>3, <3>4, CountTypes
  <2>3. CASE DropOldest
    <3>1. ram # <<>>
      BY <1>3, <1>6, IpcAssumption DEF BufferPutFull
    <3>2. Head(ram) \in Record /\ Tail(ram) \in Seq(Record)
      BY <1>3, <3>1
    <3>3. Times(Spots(ram, r)) = Times(Spots(Tail(ram), r)) + One(Head(ram) = r)
      BY <1>3, <1>4, <3>1, TailTimes
    <3>4. /\ One(Head(ram) = r) \in 0 .. 1 /\ Times(Spots(Tail(ram), r)) \in 0 .. 2
          /\ One(taken = r) \in 0 .. 1
      BY TimesValue DEF One
    <3>5. Times(Spots(Tail(ram), r)) <= 1
      BY <1>4, <3>3, <3>4
    <3>6. Times(Spots(Append(Tail(ram), taken), r))
            = Times(Spots(Tail(ram), r)) + One(taken = r)
      <4>1. PICK q \in Seq(Record) : q = Tail(ram)
        BY <3>2
      <4>2. Times(Spots(q, r)) <= 1
        BY <3>5, <4>1, Zenon
      <4>3. Times(Spots(Append(q, taken), r)) = Times(Spots(q, r)) + One(taken = r)
        BY <1>3, <4>2, AppendTimes
      <4>4. QED BY <4>1, <4>3, Zenon
    <3>7. RamTimes(r)' = Times(Spots(Tail(ram), r)) + One(taken = r)
      BY <2>1, <2>3, <3>6 DEF RamTimes
    <3>8. Head(ram) = r => r \notin gone
      <4>1. ASSUME Head(ram) = r PROVE GoneTimes(r) = 0
        <5>1. RamTimes(r) >= 1
          BY <1>4, <3>3, <3>4, <4>1 DEF One
        <5>2. QED BY <5>1, CountTypes DEF Total
      <4>2. QED BY <4>1 DEF GoneTimes, One
    <3>9. GoneTimes(r)' = GoneTimes(r) + One(Head(ram) = r)
      BY <2>1, <2>3, <3>8, GoneChange
    <3>10. QED BY <1>1, <1>2, <1>4, <2>2, <3>3, <3>4, <3>7, <3>9, SameCounts, CountTypes
               DEF Total
  <2>4. CASE ~DropOldest
    <3>1. ram' = ram /\ gone' = gone \union Counted(taken)
      BY <2>1, <2>4
    <3>2. taken = r => r \notin gone
      <4>1. ASSUME taken = r PROVE GoneTimes(r) = 0
        <5>1. TakenTimes(r) = 1
          BY <4>1 DEF TakenTimes, One
        <5>2. QED BY <5>1, CountTypes DEF Total
      <4>2. QED BY <4>1 DEF GoneTimes, One
    <3>3. GoneTimes(r)' = GoneTimes(r) + One(taken = r)
      BY <3>1, <3>2, GoneChange
    <3>4. QED BY <1>1, <1>2, <2>2, <3>1, <3>3, SameCounts, CountTypes DEF Total
  <2>5. QED BY <2>3, <2>4
<1>7. QED BY <1>5, <1>6

\* Publishing the oldest record.
LEMMA FlushTotal ==
  ASSUME Placed, NEW r \in Record, Known(r), Total(r) <= 1, Flush
  PROVE  Total(r)' = Total(r)
<1>1. /\ UNCHANGED <<queue, rings, postVars, taken>> /\ ram # <<>>
      /\ gone' = gone \union Counted(Head(ram)) /\ ram' = Tail(ram)
  BY DEF Flush, laneVars, taskVars
<1>2. ram \in Seq(Record)
  BY PlacedTypes
<1>3. RamTimes(r) = Times(Spots(ram, r)) /\ RamTimes(r) <= 1
  BY CountTypes DEF Total, RamTimes
<1>4. Times(Spots(ram, r)) = Times(Spots(Tail(ram), r)) + One(Head(ram) = r)
  BY <1>1, <1>2, <1>3, TailTimes
<1>5. RamTimes(r) = RamTimes(r)' + One(Head(ram) = r)
  BY <1>1, <1>3, <1>4 DEF RamTimes
<1>6. Head(ram) = r => r \notin gone
  <2>1. ASSUME Head(ram) = r PROVE GoneTimes(r) = 0
    <3>1. RamTimes(r) >= 1
      BY <1>5, <2>1, CountTypes DEF One
    <3>2. QED BY <3>1, CountTypes DEF Total
  <2>2. QED BY <2>1 DEF GoneTimes, One
<1>7. GoneTimes(r)' = GoneTimes(r) + One(Head(ram) = r)
  BY <1>1, <1>6, GoneChange
<1>8. One(Head(ram) = r) \in 0 .. 1
  BY DEF One
<1>9. QED BY <1>1, <1>5, <1>7, <1>8, SameCounts, CountTypes DEF Total

\* Every step: a record is counted once from the step that makes it.
LEMMA StepOnce == ASSUME Placed, [Next]_vars PROVE Once'
<1>1. \A r \in Record : Known(r) => Total(r) = One(r[2] <= posted[r[1]]) /\ Total(r) <= 1
  BY DEF Placed, Once, One
<1>2. SUFFICES ASSUME NEW r \in Record, Known(r)
               PROVE  Total(r)' = One(r[2] <= posted'[r[1]])
  BY DEF Once
<1>3. Total(r) = One(r[2] <= posted[r[1]]) /\ Total(r) <= 1
  BY <1>1, <1>2
<1>4. CASE \E p \in Producers, l \in Lanes : Make(p, l)
  <2>1. PICK p \in Producers, l \in Lanes : Make(p, l)
    BY <1>4
  <2>2. Total(r)' = Total(r) + One(r = <<l, posted[l] + 1>>)
    BY <1>2, <2>1, MakeTotal
  <2>3. posted' = [posted EXCEPT ![l] = @ + 1] /\ posted \in [Lanes -> Nat]
    BY <2>1, PlacedTypes DEF Make
  <2>4. r[1] \in Lanes /\ r[2] \in Nat /\ r = <<r[1], r[2]>>
    BY DEF Record
  <2>5. CASE r[1] = l
    <3>1. posted'[r[1]] = posted[l] + 1 /\ posted[l] \in Nat
      BY <2>3, <2>5
    <3>2. r = <<l, posted[l] + 1>> <=> r[2] = posted[l] + 1
      BY <2>4, <2>5
    <3>3. QED BY <1>3, <2>2, <2>4, <2>5, <3>1, <3>2 DEF One
  <2>6. CASE r[1] # l
    <3>1. posted'[r[1]] = posted[r[1]] /\ r # <<l, posted[l] + 1>>
      BY <2>3, <2>4, <2>6
    <3>2. One(r = <<l, posted[l] + 1>>) = 0 /\ One(r[2] <= posted[r[1]]) \in 0 .. 1
      BY <3>1 DEF One
    <3>3. QED BY <1>3, <2>2, <3>1, <3>2
  <2>7. QED BY <2>5, <2>6
<1>5. CASE ~\E p \in Producers, l \in Lanes : Make(p, l)
  <2>1. posted' = posted
    BY <1>5 DEF Next, Post, Send, Rescue, Refuse, Signal, Register, Drain, TakeFromQueue,
       TakeFromRing, NextStage, BufferPut, BufferPutFull, Wake, WakeTimeout, Flush, vars
  <2>2. Total(r)' = Total(r)
    <3>1. CASE \E p \in Producers : Post(p)
      BY <1>2, <1>3, <3>1, SendTotal, RescueTotal, RefuseTotal, SignalTotal DEF Post
    <3>2. CASE TakeFromQueue \/ TakeFromRing \/ BufferPut \/ BufferPutFull \/ Flush
      BY <1>2, <1>3, <3>2, TakeQueueTotal, TakeRingTotal, PutTotal, FlushTotal
    <3>3. CASE Register \/ NextStage \/ Wake \/ WakeTimeout \/ UNCHANGED vars
      <4>1. UNCHANGED <<queue, rings, postVars, taken, ram, gone>>
        BY <3>3 DEF Register, NextStage, Wake, WakeTimeout, vars, laneVars, taskVars
      <4>2. QED BY <4>1, SameCounts DEF Total
    <3>4. QED BY <1>5, <3>1, <3>2, <3>3 DEF Next, Drain
  <2>3. QED BY <1>3, <2>1, <2>2
<1>6. QED BY <1>4, <1>5

\* What a lane's queue and ring hold is of that lane.
LEMMA StepLanes == ASSUME Placed, [Next]_vars PROVE OwnLanes'
<1>1. SUFFICES ASSUME NEW k \in Lanes PROVE InLane(k)'
  BY DEF OwnLanes
<1>2. /\ InLane(k) /\ queue[k] \in Seq(Record) /\ ringHead[k] \in Slots /\ ringTail[k] \in Slots
      /\ slots[k] \in [Slots -> Record]
  BY PlacedTypes DEF OwnLanes
<1>3. ASSUME queue'[k] = queue[k], slots'[k] = slots[k], ringHead'[k] = ringHead[k],
             ringTail'[k] = ringTail[k]
      PROVE  InLane(k)'
  BY <1>2, <1>3 DEF InLane
<1>4. CASE \E p \in Producers : Send(p)
  <2>1. PICK p \in Producers : Send(p)
    BY <1>4
  <2>2. CASE k = hold[p][1] /\ queue' = [queue EXCEPT ![k] = Append(@, hold[p])]
    <3>1. queue'[k] = Append(queue[k], hold[p]) /\ UNCHANGED rings
      BY <2>1, <2>2, PlacedTypes DEF Send
    <3>2. /\ Len(queue'[k]) = Len(queue[k]) + 1 /\ queue'[k][Len(queue[k]) + 1] = hold[p]
          /\ \A i \in 1 .. Len(queue[k]) : queue'[k][i] = queue[k][i]
          /\ Len(queue[k]) \in Nat
      BY <1>2, <3>1, PlacedTypes
    <3>3. \A i \in 1 .. Len(queue'[k]) : queue'[k][i][1] = k
      BY <1>2, <2>2, <3>2 DEF InLane
    <3>4. QED BY <1>2, <3>1, <3>3 DEF InLane, rings
  <2>3. CASE ~(k = hold[p][1] /\ queue' = [queue EXCEPT ![k] = Append(@, hold[p])])
    <3>1. queue'[k] = queue[k] /\ UNCHANGED rings
      BY <1>2, <2>1, <2>3, PlacedTypes DEF Send
    <3>2. QED BY <1>3, <3>1 DEF rings
  <2>4. QED BY <2>2, <2>3
<1>5. CASE \E p \in Producers : Rescue(p)
  <2>1. PICK p \in Producers : Rescue(p)
    BY <1>5
  <2>2. /\ queue' = queue /\ ringTail' = ringTail
        /\ Inc(ringHead[hold[p][1]]) # ringTail[hold[p][1]]
        /\ slots' = [slots EXCEPT ![hold[p][1]][ringHead[hold[p][1]]] = hold[p]]
        /\ ringHead' = [ringHead EXCEPT ![hold[p][1]] = Inc(@)]
    BY <2>1 DEF Rescue, RingPut, RingFull
  <2>3. CASE k = hold[p][1]
    <3>1. /\ ringHead[k] \notin Ring(ringHead[k], ringTail[k])
          /\ Ring(Inc(ringHead[k]), ringTail[k])
               = Ring(ringHead[k], ringTail[k]) \union {ringHead[k]}
          /\ Ring(ringHead[k], ringTail[k]) \subseteq Slots
      BY <1>2, <2>2, <2>3, RingGrows, RingSubset
    <3>2. ringHead'[k] = Inc(ringHead[k]) /\ ringTail'[k] = ringTail[k]
      BY <2>2, <2>3, PlacedTypes
    <3>3. slots'[k] = [slots[k] EXCEPT ![ringHead[k]] = hold[p]]
      BY <2>2, <2>3, PlacedTypes
    <3>4. \A i \in Ring(ringHead[k], ringTail[k]) \union {ringHead[k]} : slots'[k][i][1] = k
      BY <1>2, <2>3, <3>1, <3>3 DEF InLane
    <3>5. Ring(ringHead'[k], ringTail'[k]) = Ring(ringHead[k], ringTail[k]) \union {ringHead[k]}
      BY <3>1, <3>2
    <3>6. QED BY <1>2, <2>2, <3>4, <3>5 DEF InLane
  <2>4. CASE k # hold[p][1]
    <3>1. slots'[k] = slots[k] /\ ringHead'[k] = ringHead[k]
      BY <2>2, <2>4, PlacedTypes
    <3>2. QED BY <1>3, <2>2, <3>1
  <2>5. QED BY <2>3, <2>4
<1>6. CASE TakeFromQueue
  <2>1. /\ UNCHANGED rings /\ queue[LaneOf(stage)] # <<>>
        /\ queue' = [queue EXCEPT ![LaneOf(stage)] = Tail(@)]
    BY <1>6 DEF TakeFromQueue, StageEmpty
  <2>2. CASE k = LaneOf(stage)
    <3>1. queue'[k] = Tail(queue[k]) /\ queue[k] # <<>>
      BY <2>1, <2>2, PlacedTypes
    <3>2. /\ Len(queue'[k]) = Len(queue[k]) - 1 /\ Len(queue[k]) \in Nat
          /\ \A i \in 1 .. Len(queue[k]) - 1 : queue'[k][i] = queue[k][i + 1]
      BY <1>2, <3>1
    <3>3. \A i \in 1 .. Len(queue'[k]) : queue'[k][i][1] = k
      <4>1. \A i \in 1 .. Len(queue[k]) - 1 : i + 1 \in 1 .. Len(queue[k])
        BY <3>2
      <4>2. QED BY <1>2, <3>2, <4>1 DEF InLane
    <3>4. QED BY <1>2, <2>1, <3>3 DEF InLane, rings
  <2>3. CASE k # LaneOf(stage)
    <3>1. queue'[k] = queue[k]
      BY <2>1, <2>3, PlacedTypes
    <3>2. QED BY <1>3, <2>1, <3>1 DEF rings
  <2>4. QED BY <2>2, <2>3
<1>7. CASE TakeFromRing
  <2>1. /\ UNCHANGED <<queue, slots, ringHead>> /\ ringHead[LaneOf(stage)] # ringTail[LaneOf(stage)]
        /\ ringTail' = [ringTail EXCEPT ![LaneOf(stage)] = Inc(@)]
    BY <1>7 DEF TakeFromRing, StageEmpty, RingEmpty
  <2>2. CASE k = LaneOf(stage)
    <3>1. ringTail'[k] = Inc(ringTail[k]) /\ ringHead[k] # ringTail[k]
      BY <2>1, <2>2, PlacedTypes
    <3>2. Ring(ringHead[k], Inc(ringTail[k])) = Ring(ringHead[k], ringTail[k]) \ {ringTail[k]}
      BY <1>2, <3>1, RingShrinks
    <3>3. Ring(ringHead'[k], ringTail'[k]) \subseteq Ring(ringHead[k], ringTail[k])
      BY <2>1, <3>1, <3>2
    <3>4. QED BY <1>2, <2>1, <3>3 DEF InLane
  <2>3. CASE k # LaneOf(stage)
    <3>1. ringTail'[k] = ringTail[k]
      BY <2>1, <2>3, PlacedTypes
    <3>2. QED BY <1>3, <2>1, <3>1
  <2>4. QED BY <2>2, <2>3
<1>8. CASE \/ \E p \in Producers : Refuse(p) \/ Signal(p) \/ \E l \in Lanes : Make(p, l)
           \/ Register \/ NextStage \/ BufferPut \/ BufferPutFull \/ Wake \/ WakeTimeout
           \/ Flush \/ UNCHANGED vars
  <2>1. UNCHANGED <<queue, slots, ringHead, ringTail>>
    BY <1>8 DEF Refuse, Signal, Make, Register, NextStage, BufferPut, BufferPutFull, Wake,
       WakeTimeout, Flush, vars, laneVars, rings
  <2>2. QED BY <1>3, <2>1
<1>9. QED BY <1>4, <1>5, <1>6, <1>7, <1>8 DEF Next, Post, Drain

\* buffer_task holds a record only between taking it and putting it.
LEMMA StepTaken == ASSUME Placed, [Next]_vars PROVE TakenForgotten'
<1>1. TakenForgotten /\ ~Known(None)
  BY PlacedTypes DEF None, Known
<1>2. CASE TakeFromQueue \/ TakeFromRing
  BY <1>2 DEF TakeFromQueue, TakeFromRing, TakenForgotten
<1>3. CASE BufferPut \/ BufferPutFull
  BY <1>1, <1>3 DEF BufferPut, BufferPutFull, TakenForgotten, Known
<1>4. CASE Register \/ NextStage \/ Wake \/ WakeTimeout
  <2>1. taken' = taken /\ bpc # "put"
    BY <1>4 DEF Register, NextStage, Wake, WakeTimeout
  <2>2. QED BY <1>1, <2>1 DEF TakenForgotten, Known
<1>5. CASE \/ \E p \in Producers : Post(p) \/ \E l \in Lanes : Make(p, l)
           \/ Flush \/ UNCHANGED vars
  <2>1. taken' = taken /\ bpc' = bpc
    BY <1>5 DEF Post, Send, Rescue, Refuse, Signal, Make, Flush, vars, taskVars
  <2>2. QED BY <1>1, <2>1 DEF TakenForgotten, Known
<1>6. QED BY <1>2, <1>3, <1>4, <1>5 DEF Next, Drain

\* The invariant is inductive.
LEMMA StepPlaced == Placed /\ [Next]_vars => Placed'
<1> SUFFICES ASSUME Placed, [Next]_vars PROVE Placed'
  OBVIOUS
<1>1. Covered'
  BY StepCovered DEF Placed
<1>2. QED BY <1>1, StepLanes, StepTaken, StepOnce DEF Placed

\* Nothing is anywhere at first.
LEMMA InitPlaced == Init => Placed
<1> SUFFICES ASSUME Init PROVE Placed
  OBVIOUS
<1>1. Covered
  <2>1. StagesCovered /\ SleepsAtStart /\ PutIsQuiet
    BY DEF Init, StagesCovered, LeftBehind, SleepsAtStart, PutIsQuiet
  <2>2. QED BY <2>1, InitType DEF Covered
<1>2. \A l \in Lanes : queue[l] = <<>> /\ ringHead[l] = 0 /\ ringTail[l] = 0 /\ posted[l] = 0
  BY DEF Init
<1>3. Ring(0, 0) = {}
  BY DEF Ring
<1>4. OwnLanes
  BY <1>2, <1>3 DEF OwnLanes, InLane
<1>5. TakenForgotten
  BY DEF Init, TakenForgotten, Known, None
<1>6. ASSUME NEW r \in Record, Known(r) PROVE Total(r) = One(r[2] <= posted[r[1]])
  <2>1. r[1] \in Lanes /\ r[2] \in Nat /\ r[2] # 0
    BY <1>6 DEF Record, Known
  <2>2. Spots(<<>>, r) = {} /\ \A a : RingSpots({}, a, r) = {}
    BY DEF Spots, RingSpots
  <2>3. QueueTimes(r) = 0
    BY <1>2, <2>1, <2>2, TimesValue DEF QueueTimes
  <2>4. RingTimes(r) = 0
    <3>1. Ring(ringHead[r[1]], ringTail[r[1]]) = {}
      BY <1>2, <1>3, <2>1
    <3>2. RingSpots(Ring(ringHead[r[1]], ringTail[r[1]]), slots[r[1]], r) = {}
      BY <3>1 DEF RingSpots
    <3>3. QED BY <3>2, TimesValue DEF RingTimes
  <2>5. HeldTimes(r) = 0
    BY DEF Init, HeldTimes, Holding, One, Producers
  <2>6. TakenTimes(r) = 0 /\ GoneTimes(r) = 0
    BY <1>6 DEF Init, TakenTimes, GoneTimes, One, Known, None
  <2>7. RamTimes(r) = 0
    BY <2>2, TimesValue DEF Init, RamTimes
  <2>8. ~(r[2] <= posted[r[1]])
    BY <1>2, <2>1
  <2>9. QED BY <2>3, <2>4, <2>5, <2>6, <2>7, <2>8 DEF Total, One
<1>7. QED BY <1>1, <1>4, <1>5, <1>6 DEF Placed, Once

\* The parts of Copies, each with its tag.
LEMMA CopiesTimes ==
  ASSUME Placed, NEW r \in Record, Total(r) = 1
  PROVE  Times(Copies(r)) = 1
<1> DEFINE l == r[1]
           Q == {<<"queue", i>> : i \in {j \in 1 .. Len(queue[l]) : queue[l][j] = r}}
           R == {<<"ring", i>> : i \in {j \in RingSlots(l) : slots[l][j] = r}}
           H == {<<p, 0>> : p \in {q \in Producers :
                               ppc[q] \in {"send", "rescue"} /\ hold[q] = r}}
           T == {<<"taken", 0>> : x \in {y \in {taken} : y = r}}
           M == {<<"ram", i>> : i \in {j \in 1 .. Len(ram) : ram[j] = r}}
           G == {<<"gone", 0>> : x \in {r} \cap gone}
<1>1. /\ QueueTimes(r) <= 1 /\ RingTimes(r) <= 1 /\ HeldTimes(r) <= 1 /\ RamTimes(r) <= 1
  BY CountTypes DEF Total
<1>2. Times(Q) = QueueTimes(r)
  <2>1. Q = {<<"queue", i>> : i \in Spots(queue[l], r)}
    BY DEF Spots
  <2>2. QED BY <1>1, <2>1, TagTimes DEF QueueTimes
<1>3. Times(R) = RingTimes(r)
  <2>1. RingSlots(l) = Ring(ringHead[l], ringTail[l])
    BY DEF RingSlots, Ring
  <2>2. PICK S : S = RingSpots(Ring(ringHead[l], ringTail[l]), slots[l], r)
    OBVIOUS
  <2>3. R = {<<"ring", i>> : i \in S}
    BY <2>1, <2>2 DEF RingSpots
  <2>4. Times(S) = RingTimes(r)
    BY <2>2, Zenon DEF RingTimes
  <2>5. Times(S) <= 1
    BY <1>1, <2>4, Zenon
  <2>6. Times({<<"ring", i>> : i \in S}) = Times(S)
    BY <2>5, TagTimes
  <2>7. QED BY <2>3, <2>4, <2>6, Zenon
<1>4. Times(M) = RamTimes(r)
  <2>1. M = {<<"ram", i>> : i \in Spots(ram, r)}
    BY DEF Spots
  <2>2. QED BY <1>1, <2>1, TagTimes DEF RamTimes
<1>5. Times(T) = TakenTimes(r)
  <2>1. CASE taken = r
    <3>1. T = {<<"taken", 0>>}
      BY <2>1
    <3>2. QED BY <2>1, <3>1, TimesValue DEF TakenTimes, One
  <2>2. CASE taken # r
    <3>1. T = {}
      BY <2>2
    <3>2. QED BY <2>2, <3>1, TimesValue DEF TakenTimes, One
  <2>3. QED BY <2>1, <2>2
<1>6. Times(G) = GoneTimes(r)
  <2>1. CASE r \in gone
    <3>1. G = {<<"gone", 0>>}
      BY <2>1
    <3>2. QED BY <2>1, <3>1, TimesValue DEF GoneTimes, One
  <2>2. CASE r \notin gone
    <3>1. G = {}
      BY <2>2
    <3>2. QED BY <2>2, <3>1, TimesValue DEF GoneTimes, One
  <2>3. QED BY <2>1, <2>2
<1>7. Times(H) = HeldTimes(r)
  <2>1. H = {<<p, 0>> : p \in {q \in Producers : Holding(q, r)}}
    BY DEF Holding
  <2>2. CASE HeldTimes(r) = 0
    <3>1. \A q \in Producers : ~Holding(q, r)
      BY <2>2 DEF HeldTimes, Producers, One
    <3>2. H = {}
      BY <2>1, <3>1
    <3>3. QED BY <2>2, <3>2, TimesValue
  <2>3. CASE HeldTimes(r) = 1
    <3>1. \E p \in Producers : Holding(p, r) /\ \A q \in Producers : Holding(q, r) => q = p
      BY <2>3 DEF HeldTimes, Producers, One
    <3>2. PICK p \in Producers : Holding(p, r) /\ \A q \in Producers : Holding(q, r) => q = p
      BY <3>1
    <3>3. H = {<<p, 0>>}
      BY <2>1, <3>2
    <3>4. QED BY <2>3, <3>3, TimesValue
  <2>4. QED BY <1>1, <2>2, <2>3, CountTypes
<1>8. Copies(r) = ((((Q \union R) \union H) \union T) \union M) \union G
  BY DEF Copies
<1> HIDE DEF Q, R, H, T, M, G
<1>9. Times(Q \union R) = QueueTimes(r) + RingTimes(r)
  BY <1>2, <1>3, CountTypes, UnionTimes DEF Total
<1>10. Times((Q \union R) \union H) = QueueTimes(r) + RingTimes(r) + HeldTimes(r)
  BY <1>7, <1>9, CountTypes, UnionTimes DEF Total
<1>11. Times(((Q \union R) \union H) \union T)
         = QueueTimes(r) + RingTimes(r) + HeldTimes(r) + TakenTimes(r)
  BY <1>5, <1>10, CountTypes, UnionTimes DEF Total
<1>12. Times((((Q \union R) \union H) \union T) \union M)
         = QueueTimes(r) + RingTimes(r) + HeldTimes(r) + TakenTimes(r) + RamTimes(r)
  BY <1>4, <1>11, CountTypes, UnionTimes DEF Total
<1>13. Times(((((Q \union R) \union H) \union T) \union M) \union G) = Total(r)
  BY <1>6, <1>12, CountTypes, UnionTimes DEF Total
<1>14. QED BY <1>8, <1>13

\* One copy in all is one place.
LEMMA PlacedInOnePlace == Placed => RecordInOnePlace
<1> SUFFICES ASSUME Placed, NEW l \in Lanes, NEW n \in 1 .. posted[l]
             PROVE  Cardinality(Copies(<<l, n>>)) = 1
  BY DEF RecordInOnePlace
<1>1. posted[l] \in Nat
  BY PlacedTypes
<1>2. <<l, n>> \in Record /\ Known(<<l, n>>) /\ n <= posted[l]
  BY <1>1 DEF Record, Known
<1>3. PICK r \in Record : r = <<l, n>>
  BY <1>2
<1>4. Known(r) /\ r[1] = l /\ r[2] = n
  BY <1>2, <1>3
<1>5. Total(r) = 1
  BY <1>2, <1>4 DEF Placed, Once, One
<1>6. Times(Copies(r)) = 1
  BY <1>5, CopiesTimes
<1>7. PICK x : Copies(r) = {x}
  BY <1>6, TimesValue
<1>8. Cardinality({x}) = 1
  BY FS_Singleton
<1>9. QED BY <1>3, <1>7, <1>8

\* However queues overflow into rings and the RAM ring drops, and however the
\* three tasks interleave: every record made is in exactly one place of its
\* way, or has been published or counted as dropped, once.
THEOREM RecordInOnePlaceCorrect == Spec => []RecordInOnePlace
<1>1. Spec => []Placed
  BY InitPlaced, StepPlaced, PTL DEF Spec
<1>2. QED BY <1>1, PlacedInOnePlace, PTL

=============================================================================
