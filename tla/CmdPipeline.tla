---------------------------- MODULE CmdPipeline ----------------------------
(***************************************************************************)
(* The MQTT session of mqtt_gw_task.c and the command path through it: the *)
(* library's callback puts a request into the raw queue, mqtt_gw_task      *)
(* parses it, suppresses duplicates and passes it on, pmbus_poll_task      *)
(* executes it, and mqtt_gw_task publishes and remembers the response.     *)
(*                                                                         *)
(* Three threads share the in-flight table of cmd_handler.c without a      *)
(* lock.  pmbus_poll_task has the higher priority: its use of the table is *)
(* one step, mqtt_gw_task's can be interrupted in its loops, after a slot  *)
(* is written and before a gap is closed.  A response is its id and        *)
(* whether the command was executed; flushing and metrics are a publish    *)
(* that succeeds or fails.  The wait at the end of the loop ends by itself *)
(* after a second, so its notifications are left out.                      *)
(***************************************************************************)
EXTENDS Naturals, Sequences, FiniteSets

CONSTANTS
  QueueDepth,     \* CMD_QUEUE_DEPTH: raw, request and response queue
  CacheDepth,     \* CMD_CACHE_DEPTH
  FailLimit,      \* consecutive publish failures that force a disconnect
  MaxIds,         \* bound of the model: correlation ids
  Malformed,      \* ids that also come in a request that does not parse
  MaxEvents       \* bound of the model: requests delivered, connections lost
                  \* and publishes that fail while connected, together

ASSUME CmdAssumption ==
  /\ QueueDepth \in Nat \ {0} /\ CacheDepth \in Nat \ {0}
  /\ FailLimit \in Nat \ {0}
  /\ MaxIds \in Nat /\ Malformed \subseteq 1 .. MaxIds /\ MaxEvents \in Nat

VARIABLES
  pc,          \* where mqtt_gw_task is
  started,     \* it has left its first connect loop
  link,        \* the library's connection to the broker is up
  listening,   \* the broker has the subscription of this connection
  lost,        \* a DISCONNECT event is on its way to the callback
  pendingDisc, \* s_disconnect_pending
  online,      \* gateway_ipc_is_mqtt_online
  subscribed,  \* s_cmd_subscribed
  fails,       \* s_consec_pub_fails, up to FailLimit
  raw,         \* cmd_raw_queue
  requests,    \* cmd_request_queue
  executing,   \* the command pmbus_poll_task executes, or NoId
  responses,   \* cmd_response_queue
  hand,        \* the request or response mqtt_gw_task works on
  pending,     \* s_cmd_pending_resp; Nothing when it is not valid
  table,       \* s_inflight, s_inflight_head, s_inflight_count
  scan,        \* loop index in the in-flight table
  cache,       \* s_cache, newest first
  seen,        \* the ids used so far are 1 .. seen
  events,      \* what MaxEvents bounds
  ran,         \* history: ids executed
  forgotten,   \* history: executed or accepted ids whose trace was erased
  raced        \* history: the table changed under mqtt_gw_task's hands

session == <<started, link, listening, lost, online, subscribed>>
publishing == <<pendingDisc, fails, events>>
queues == <<raw, requests, executing, responses>>
memory == <<pending, table, cache, forgotten>>
command == <<hand, scan, memory, queues>>
vars == <<pc, session, publishing, seen, command, ran, raced>>

NoId == 0
Ids == 1 .. MaxIds
Nothing == [id |-> NoId, sound |-> FALSE]
\* As a request: it parses.  As a response: the command was executed.
Message(i, s) == [id |-> i, sound |-> s]

(***************************************************************************)
(* cmd_handler.c: the in-flight table, a ring, and the response cache.     *)
(***************************************************************************)
DepthWithoutPending == 2 * QueueDepth
Depth == 2 * QueueDepth + 1

\* The i-th entry from the newest.
Entry(i) == table.slots[(table.head + Depth - 1 - i) % Depth]
Matches(id) == {i \in 0 .. table.count - 1 : Entry(i) = id}

\* Entries newer than the i-th move one place back, over the gap.
Shifted(i) ==
  LET age(k) == (table.head + Depth - 1 - k) % Depth IN
  [k \in 0 .. Depth - 1 |-> IF age(k) = 0 THEN NoId
                            ELSE IF age(k) <= i THEN table.slots[(k + 1) % Depth]
                            ELSE table.slots[k]]
ClosedKeepingCount(i) == [table EXCEPT !.slots = Shifted(i), !.head = (@ + Depth - 1) % Depth]
Closed(i) ==
  [slots |-> Shifted(i),
   head |-> (table.head + Depth - 1) % Depth,
   count |-> IF table.count > 0 THEN table.count - 1 ELSE 0]

\* cmd_inflight_remove, undisturbed.
Removed(id) ==
  IF Matches(id) = {} THEN table
  ELSE Closed(CHOOSE i \in Matches(id) : \A j \in Matches(id) : i <= j)

Cached(id) == \E i \in 1 .. Len(cache) : cache[i].id = id
Hit(id) == cache[CHOOSE i \in 1 .. Len(cache) :
                   /\ cache[i].id = id
                   /\ \A j \in 1 .. i - 1 : cache[j].id # id]
CachePutNothing(r) == cache
CachePutUnbounded(r) == <<r>> \o cache
CachePut(r) ==
  SubSeq(<<r>> \o cache, 1,
         IF Len(cache) < CacheDepth THEN Len(cache) + 1 ELSE CacheDepth)

\* Executed ids the cache no longer knows once r is in it.
Evicted(r) ==
  {id \in ran : Cached(id) /\ \A i \in 1 .. Len(CachePut(r)) :
                                CachePut(r)[i].id # id}

(***************************************************************************)
(* cy_mqtt_publish, through publish_json_qos.  A failure may ask for a     *)
(* disconnect: at once when the library says it is not connected, after    *)
(* FailLimit failed publishes since the last good one.  Other errors do    *)
(* not count.                                                              *)
(***************************************************************************)
Asks(n) == online /\ ~pendingDisc /\ n >= FailLimit

Event == events < MaxEvents /\ events' = events + 1

PublishOk ==
  /\ link
  /\ fails' = 0
  /\ UNCHANGED <<pendingDisc, events>>

NotConnected ==
  /\ ~link
  /\ pendingDisc' = (pendingDisc \/ online)
  /\ UNCHANGED <<fails, events>>

PublishFail ==
  /\ IF link THEN Event ELSE UNCHANGED events
  /\ LET n == IF fails < FailLimit THEN fails + 1 ELSE fails
     IN fails' = n /\ pendingDisc' = (pendingDisc \/ Asks(n))

PublishError ==
  /\ link /\ Event
  /\ UNCHANGED <<fails, pendingDisc>>

PublishFails == NotConnected \/ PublishFail \/ PublishError

(***************************************************************************)
(* The broker, the library and its callback mqtt_event_cb.                 *)
(***************************************************************************)
LinkDown ==
  /\ link
  /\ link' = FALSE /\ listening' = FALSE /\ lost' = TRUE
  /\ Event
  /\ UNCHANGED <<pc, started, online, subscribed, pendingDisc, fails, seen,
                 command, ran, raced>>

NotesDisconnectOnline == pendingDisc \/ online
NotesDisconnect == TRUE

DisconnectCallback ==
  /\ lost
  /\ lost' = FALSE /\ pendingDisc' = NotesDisconnect
  /\ UNCHANGED <<pc, started, link, listening, online, subscribed,
                 fails, events, seen, command, ran, raced>>

\* A request, for the first time or again; ids are numbered in the order of
\* their first use.  A full queue drops it silently.
MessageCallback ==
  /\ link /\ listening
  /\ \E id \in 1 .. (IF seen < MaxIds THEN seen + 1 ELSE seen) :
     \E sound \in IF id \in Malformed THEN BOOLEAN ELSE {TRUE} :
       /\ raw' = IF Len(raw) < QueueDepth
                 THEN Append(raw, Message(id, sound)) ELSE raw
       /\ seen' = IF id > seen THEN id ELSE seen
  /\ Event
  /\ UNCHANGED <<pc, session, pendingDisc, fails, hand, scan, memory, requests,
                 executing, responses, ran, raced>>

(***************************************************************************)
(* mqtt_gw_task: connecting, and the head of its main loop.                *)
(***************************************************************************)
Goto(l) == pc' = l

\* A disconnect is handled; offline, the next step is to connect.
Top ==
  /\ pc = "top"
  /\ online' = (online /\ ~pendingDisc)
  /\ subscribed' = (subscribed /\ ~(pendingDisc /\ online))
  /\ pendingDisc' = FALSE
  /\ Goto(IF online' THEN "flush" ELSE "hangup")
  /\ UNCHANGED <<started, link, listening, lost, fails, events, seen,
                 command, ran, raced>>

\* cy_mqtt_disconnect before a reconnection.
HangUp ==
  /\ pc = "hangup"
  /\ link' = FALSE /\ listening' = FALSE
  /\ Goto("connect")
  /\ UNCHANGED <<started, lost, online, subscribed, publishing, seen,
                 command, ran, raced>>

\* Wi-Fi, library or broker: backoff_wait, and again.
ConnectFails ==
  /\ pc = "connect"
  /\ Goto(IF started THEN "top" ELSE "connect")
  /\ UNCHANGED <<session, publishing, seen, command, ran, raced>>

Connected ==
  /\ pc = "connect"
  /\ link' = TRUE
  /\ Goto("online")
  /\ UNCHANGED <<started, listening, lost, online, subscribed,
                 publishing, seen, command, ran, raced>>

SetOnline ==
  /\ pc = "online"
  /\ online' = TRUE
  /\ Goto("subscribe")
  /\ UNCHANGED <<started, link, listening, lost, subscribed,
                 publishing, seen, command, ran, raced>>

\* A subscription that fails here may have reached the broker.
Subscribe ==
  /\ pc = "subscribe"
  /\ \E ok \in {link, FALSE}, there \in {link, FALSE} :
       /\ ok => there
       /\ subscribed' = (subscribed \/ ok) /\ listening' = there
  /\ started' = TRUE
  /\ Goto(IF started THEN "flush" ELSE "top")
  /\ UNCHANGED <<link, lost, online, publishing, seen, command,
                 ran, raced>>

\* A full batch, and there may be more, skips the wait at the loop's end only.
AfterFlushBatch(full) == IF full THEN "top" ELSE "responses"
AfterFlush(full) == "responses"

\* flush_buffered_records and maybe_publish_metrics, with or without anything
\* to publish; a disconnect asked for by now is handled first.
Flush ==
  /\ pc = "flush"
  /\ PublishOk \/ PublishFails \/ UNCHANGED publishing
  /\ \E full \in BOOLEAN : Goto(IF pendingDisc' THEN "top" ELSE AfterFlush(full))
  /\ UNCHANGED <<session, seen, command, ran, raced>>

Wait ==
  /\ pc = "wait"
  /\ Goto("top")
  /\ UNCHANGED <<session, publishing, seen, command, ran, raced>>

(***************************************************************************)
(* process_cmd_response_queue.                                             *)
(***************************************************************************)
RetryPending ==
  /\ pc = "responses" /\ pending # Nothing
  /\ hand' = pending
  /\ Goto("publish")
  /\ UNCHANGED <<session, publishing, seen, queues, memory, scan, ran, raced>>

TakeResponse ==
  /\ pc = "responses" /\ pending = Nothing /\ responses # <<>>
  /\ hand' = Message(Head(responses), TRUE)
  /\ responses' = Tail(responses)
  /\ Goto("publish")
  /\ UNCHANGED <<session, publishing, seen, raw, requests, executing, memory,
                 scan, ran, raced>>

ResponsesDone ==
  /\ pc = "responses" /\ pending = Nothing /\ responses = <<>>
  /\ Goto(IF subscribed THEN "raw" ELSE "wait")
  /\ UNCHANGED <<session, publishing, seen, command, ran, raced>>

Park == pending' = hand

Answer ==
  /\ pc = "publish"
  /\ \/ PublishOk /\ Goto("find") /\ scan' = 0 /\ UNCHANGED pending
     \/ PublishFails /\ Park /\ Goto("wait") /\ UNCHANGED scan
  /\ UNCHANGED <<session, seen, queues, hand, table, cache, forgotten,
                 ran, raced>>

(***************************************************************************)
(* process_cmd_raw_queue.                                                  *)
(***************************************************************************)
RawDone ==
  /\ pc = "raw" /\ raw = <<>>
  /\ Goto("wait")
  /\ UNCHANGED <<session, publishing, seen, command, ran, raced>>

\* Parsed: an error response (or nothing, if no id can be made out), the cached
\* response, or a look for the id in the in-flight table.
TakeRaw ==
  /\ pc = "raw" /\ raw # <<>>
  /\ raw' = Tail(raw)
  /\ LET m == Head(raw) IN
     \/ ~m.sound /\ hand' = m /\ pc' \in {"error", "raw"}
     \/ m.sound /\ Cached(m.id) /\ hand' = Hit(m.id) /\ Goto("cached")
     \/ m.sound /\ ~Cached(m.id) /\ hand' = m /\ Goto("check")
  /\ scan' = 0
  /\ UNCHANGED <<session, publishing, seen, requests, executing, responses,
                 memory, ran, raced>>

\* What becomes of it is ignored.
AnswerCached ==
  /\ pc = "cached"
  /\ PublishOk \/ PublishFails
  /\ Goto("raw")
  /\ UNCHANGED <<session, seen, command, ran, raced>>

AnswerError ==
  /\ pc = "error"
  /\ \/ /\ PublishOk /\ Goto("raw")
        /\ cache' = CachePut(hand)
        /\ forgotten' = forgotten \union Evicted(hand)
        /\ UNCHANGED pending
     \/ PublishFails /\ Park /\ Goto("wait") /\ UNCHANGED <<cache, forgotten>>
  /\ UNCHANGED <<session, seen, queues, hand, scan, table, ran, raced>>

\* cmd_inflight_check finds the id: the duplicate is suppressed.
CheckHit ==
  /\ pc = "check" /\ scan < table.count /\ Entry(scan) = hand.id
  /\ Goto("raw")
  /\ UNCHANGED <<session, publishing, seen, command, ran, raced>>

\* cmd_inflight_add: no room.
AddRefused ==
  /\ pc = "check" /\ scan >= table.count /\ table.count >= Depth
  /\ hand' = Message(hand.id, FALSE)
  /\ Goto("error")
  /\ UNCHANGED <<session, publishing, seen, queues, memory, scan, ran, raced>>

\* The slot is written; then head and count move.
AddSlot ==
  /\ pc = "check" /\ scan >= table.count /\ table.count < Depth
  /\ table' = [table EXCEPT !.slots[table.head] = hand.id]
  /\ Goto("add")
  /\ UNCHANGED <<session, publishing, seen, queues, hand, pending, scan,
                 cache, forgotten, ran, raced>>

AddEntry ==
  /\ pc = "add"
  /\ table' = [table EXCEPT !.head = (@ + 1) % Depth, !.count = @ + 1]
  /\ Goto("enqueue")
  /\ UNCHANGED <<session, publishing, seen, queues, hand, pending, scan,
                 cache, forgotten, ran, raced>>

Enqueue ==
  /\ pc = "enqueue" /\ Len(requests) < QueueDepth
  /\ requests' = Append(requests, hand.id)
  /\ Goto("raw")
  /\ UNCHANGED <<session, publishing, seen, raw, executing, responses, hand,
                 memory, scan, ran, raced>>

EnqueueFull ==
  /\ pc = "enqueue" /\ Len(requests) >= QueueDepth
  /\ Goto("undo") /\ scan' = 0
  /\ UNCHANGED <<session, publishing, seen, queues, hand, memory, ran, raced>>

(***************************************************************************)
(* cmd_inflight_remove in mqtt_gw_task: of an answered command, which then *)
(* goes to the cache, or of one the request queue had no room for.         *)
(***************************************************************************)
\* The loop of cmd_inflight_check is the same.
Look ==
  /\ pc \in {"check", "find", "undo"}
  /\ scan < table.count /\ Entry(scan) # hand.id
  /\ scan' = scan + 1
  /\ UNCHANGED <<pc, session, publishing, seen, queues, hand, memory,
                 ran, raced>>

Found ==
  /\ pc \in {"find", "undo"}
  /\ scan < table.count /\ Entry(scan) = hand.id
  /\ Goto(IF pc = "find" THEN "close" ELSE "closeUndo")
  /\ UNCHANGED <<session, publishing, seen, command, ran, raced>>

\* The places of a command that has been accepted and not yet answered.  A
\* pending response stays in its slot while it is retried.
Working == {"enqueue", "publish", "find", "close", "undo", "closeUndo"}
InHand == {x \in {hand, pending} :
             x.sound /\ (x = pending \/ pc \in Working)}
Places(id) ==
  {<<"request", i>> : i \in {j \in 1 .. Len(requests) : requests[j] = id}}
  \union {<<"executing", x>> : x \in {executing} \intersect {id}}
  \union {<<"response", i>> : i \in {j \in 1 .. Len(responses) : responses[j] = id}}
  \union {<<"mqtt", x>> : x \in {y.id : y \in InHand} \intersect {id}}

\* An error response that was parked takes the entry of the command with its
\* id along, if there is one.
Strayed(id) == IF ~hand.sound /\ Places(id) # {} THEN {id} ELSE {}

PendingKept == pending
PendingCleared == Nothing

Finished ==
  \/ /\ pc \in {"find", "close"}
     /\ cache' = CachePut(hand) /\ pending' = PendingCleared
     /\ forgotten' = forgotten \union Evicted(hand) \union Strayed(hand.id)
     /\ Goto("responses") /\ UNCHANGED hand
  \/ /\ pc \in {"undo", "closeUndo"}
     /\ hand' = Message(hand.id, FALSE)
     /\ Goto("error") /\ UNCHANGED <<cache, pending, forgotten>>

NotFound ==
  /\ pc \in {"find", "undo"} /\ scan >= table.count
  /\ Finished
  /\ UNCHANGED <<session, publishing, seen, queues, table, scan, ran, raced>>

Close ==
  /\ pc \in {"close", "closeUndo"}
  /\ table' = Closed(scan)
  /\ Finished
  /\ UNCHANGED <<session, publishing, seen, queues, scan, ran, raced>>

(***************************************************************************)
(* pmbus_poll_task: one command per iteration.                             *)
(***************************************************************************)
Execute ==
  /\ executing = NoId /\ requests # <<>>
  /\ executing' = Head(requests) /\ requests' = Tail(requests)
  /\ ran' = ran \union {Head(requests)}
  /\ UNCHANGED <<pc, session, publishing, seen, raw, responses, hand, scan,
                 memory, raced>>

Respond ==
  /\ executing # NoId /\ Len(responses) < QueueDepth
  /\ responses' = Append(responses, executing)
  /\ executing' = NoId
  /\ UNCHANGED <<pc, session, publishing, seen, raw, requests, hand, scan,
                 memory, ran, raced>>

\* The response is dropped, and the command forgotten.
DropResponse ==
  /\ executing # NoId /\ Len(responses) >= QueueDepth
  /\ table' = Removed(executing)
  /\ forgotten' = forgotten \union {executing}
  /\ raced' = (raced \/ pc \in {"check", "add", "find", "close", "undo", "closeUndo"})
  /\ executing' = NoId
  /\ UNCHANGED <<pc, session, publishing, seen, raw, requests, responses,
                 hand, scan, pending, cache, ran>>

(***************************************************************************)
(* Specification.                                                          *)
(***************************************************************************)
Init ==
  /\ pc = "connect" /\ started = FALSE
  /\ link = FALSE /\ listening = FALSE /\ lost = FALSE
  /\ pendingDisc = FALSE /\ online = FALSE /\ subscribed = FALSE /\ fails = 0
  /\ raw = <<>> /\ requests = <<>> /\ executing = NoId /\ responses = <<>>
  /\ hand = Nothing /\ pending = Nothing /\ scan = 0
  /\ table = [slots |-> [k \in 0 .. Depth - 1 |-> NoId], head |-> 0, count |-> 0]
  /\ cache = <<>>
  /\ seen = 0 /\ events = 0
  /\ ran = {} /\ forgotten = {} /\ raced = FALSE

Session == Top \/ HangUp \/ ConnectFails \/ Connected \/ SetOnline \/ Subscribe
Responses == RetryPending \/ TakeResponse \/ ResponsesDone \/ Answer
Requests ==
  \/ RawDone \/ TakeRaw \/ AnswerCached \/ AnswerError \/ CheckHit
  \/ AddRefused \/ AddSlot \/ AddEntry \/ Enqueue \/ EnqueueFull
Remove == Look \/ Found \/ NotFound \/ Close
Mqtt == Session \/ Flush \/ Responses \/ Requests \/ Remove \/ Wait
Poll == Execute \/ Respond \/ DropResponse

Next == LinkDown \/ DisconnectCallback \/ MessageCallback \/ Mqtt \/ Poll

\* Threads that are ready run, and a broker that is tried for ever is reached.
Spec ==
  /\ Init /\ [][Next]_vars
  /\ WF_vars(Mqtt) /\ WF_vars(Poll) /\ WF_vars(DisconnectCallback)
  /\ SF_vars(Connected)

(***************************************************************************)
(* Properties.                                                             *)
(***************************************************************************)
Messages == [id : 0 .. MaxIds, sound : BOOLEAN]

\* Types; the queues and the cache keep within their depths.
TypeOK ==
  /\ {started, link, listening, lost, pendingDisc, online, subscribed, raced}
       \subseteq BOOLEAN
  /\ fails \in 0 .. FailLimit /\ events \in 0 .. MaxEvents /\ seen \in 0 .. MaxIds
  /\ raw \in Seq(Messages) /\ requests \in Seq(Ids) /\ responses \in Seq(Ids)
  /\ \A n \in {Len(raw), Len(requests), Len(responses)} : n <= QueueDepth
  /\ executing \in 0 .. MaxIds
  /\ hand \in Messages /\ pending \in Messages
  /\ table \in [slots : [0 .. Depth - 1 -> 0 .. MaxIds],
                head : 0 .. Depth - 1, count : 0 .. Depth]
  /\ scan \in 0 .. Depth
  /\ cache \in Seq(Messages) /\ Len(cache) <= CacheDepth
  /\ ran \subseteq Ids /\ forgotten \subseteq Ids

\* An accepted command is in one place of the pipeline, and its id once in the
\* in-flight table, until it is answered or dropped; the table holds nothing
\* else.  (Until the table is changed under mqtt_gw_task's hands, and except
\* ids of which the trace was erased.)
InFlightExact ==
  ~raced =>
    /\ Matches(NoId) = {}
    /\ \A id \in Ids \ forgotten :
         Cardinality(Matches(id)) = Cardinality(Places(id))

\* "Must cover worst-case pipeline" (cmd_handler.h:63): while pmbus_poll_task
\* executes, one more command is under way than the table's depth counts; still
\* the table is full only when the request queue is.
TrackerFullOnlyWithQueue ==
  ~raced /\ pc = "check" /\ table.count >= Depth => Len(requests) = QueueDepth

\* "suppress duplicate QoS1 request execution where possible"
\* (docs/mqtt_topics.md:49): a command executes a second time only if its
\* response was dropped or evicted from the cache, or if a parked error
\* response with its id erased its entry.
DuplicateSuppressed ==
  [][\A id \in Ids : ~raced /\ Execute /\ executing' = id =>
       id \notin ran \ forgotten]_vars

\* Every accepted command leaves the pipeline: answered, or dropped.
CommandsEnd ==
  \A id \in Ids : (Places(id) # {}) ~> (Places(id) = {})

\* A request that is received is read, unless the subscription has failed.
RequestsRead == (raw # <<>>) ~> (raw = <<>> \/ (online /\ ~subscribed))

\* When connections are no longer lost, the session settles: late callbacks and
\* failures that were counted before cost reconnections, but not for ever.
SessionSettles == <>[](online /\ link /\ ~pendingDisc)
=============================================================================
