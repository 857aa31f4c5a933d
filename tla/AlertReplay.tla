---------------------------- MODULE AlertReplay ----------------------------
(***************************************************************************)
(* Durable delivery to one device: the alerts of its shard are stored in   *)
(* JetStream and fanned out live (subscriber.rs), a reconnecting device is *)
(* sent what was stored since its cursor (replay.rs, nats.rs), and its     *)
(* acknowledgements move the cursor (AckBatcher, ws.rs, ADVANCE_LUA).      *)
(*                                                                         *)
(* An alert is its creation time: 1, 2, ... in the order in which the      *)
(* coordinator made them.  Time passes when an alert is made; the worker's *)
(* clock is off by `skew`.  The registry is one atomic variable here, what *)
(* ConnectionRegistry is about.                                            *)
(***************************************************************************)
EXTENDS Integers, Sequences, SequencesExt, FiniteSets

CONSTANTS
  MaxAlerts,    \* bound: alerts ever made
  MaxSessions,  \* bound: connections ever made by the device
  Inside,       \* the alerts whose circle contains the device
  Capacity,     \* CONNECTION_CHANNEL_CAPACITY
  MaxRead,      \* MAX_STREAM_READ and MAX_REPLAY_FETCH
  Limit,        \* REPLAY_MAX_ALERTS
  Margin,       \* REPLAY_CLOCK_SKEW_TOLERANCE_SECS
  Window,       \* no_cursor_window
  Overlap,      \* replay_overlap
  Tolerance,    \* future_ack_tolerance
  Skew,         \* how far the worker's clock may be off
  InOrder,      \* is an alert published before the next one is made?
  Gaps,         \* may the worker be connected to a device but not subscribed?
  Settled,      \* does the device acknowledge only after replay_complete?
  Deaf,         \* sessions on which the device may stop reading, and stay
  Lingering     \* bound: sessions whose reader may be in a poll when aborted

ASSUME ReplayNumbers ==
  /\ MaxAlerts \in Nat /\ MaxSessions \in Nat /\ Window \in Nat /\ Tolerance \in Nat
  /\ Margin \in Nat
  /\ Capacity \in Nat \ {0} /\ MaxRead \in Nat \ {0} /\ Limit \in Nat \ {0}
  /\ Skew \in Nat /\ Overlap \in Nat /\ Skew < Overlap
ASSUME SomeSessions == Deaf \cup Lingering \subseteq 1..MaxSessions
ASSUME InsideAssumption == Inside \subseteq 1..MaxAlerts
ASSUME ReplayChoices == {InOrder, Gaps, Settled} \subseteq BOOLEAN

Alerts == 1..MaxAlerts
Sessions == 1..MaxSessions
Done == 0   \* the replay_complete frame

VARIABLES
  made,      \* alerts made so far; the coordinator's clock
  unsent,    \* alerts made and not yet stored
  stored,    \* the stream of the shard
  storedAt,  \* when each of its alerts was stored
  up,        \* is the worker subscribed to the shard?
  wire,      \* alerts on their way to the subscriber
  skew,      \* the worker's clock minus the coordinator's
  current,   \* the session in the registry, or 0
  phase,     \* where each session is
  connected, \* connected_at
  queue,     \* the channel of each session
  replay,    \* where the replay task of each session is
  since,     \* from when it reads the stream
  plan,      \* what it still has to send
  pending, wrote,   \* AckBatcher: waiting for its turn; was there a write?
  writing,   \* the cursor write a session waits for, or 0
  polling,   \* aborted sessions whose reader task is still in its last poll
  stray,     \* cursor writes whose session was aborted while it waited
  cursor,    \* the device's cursor in Redis, 0 when there is none
  got,       \* the alerts the device has got on each session
  settled,   \* the sessions on which it got replay_complete
  excused,   \* history: alerts the code is documented not to deliver
  cut,       \* history: alerts a batch of the stream ended before
  acked,     \* history: the newest acknowledgement a session accepted in time
  spoiled    \* history: sessions with a cursor write that failed or was aborted

publishVars == <<made, unsent, stored, storedAt, up, wire>>
replayVars == <<replay, since, plan>>
ackVars == <<pending, wrote, writing, polling, acked, spoiled>>
deviceVars == <<got, settled>>
leftOut == <<excused, cut>>
vars == <<made, unsent, stored, storedAt, up, wire, skew, current, phase, connected,
          queue, replay, since, plan, pending, wrote, writing, polling, stray, cursor,
          got, settled, excused, cut, acked, spoiled>>

Clock == made + skew

TypeOK ==
  /\ made \in 0..MaxAlerts
  /\ unsent \subseteq 1..made
  /\ stored \in Seq(1..made) /\ IsInjective(stored)
  /\ storedAt \in [Alerts -> 0..made]
  /\ up \in BOOLEAN
  /\ wire \in Seq(ToSet(stored))
  /\ skew \in -Skew..Skew
  /\ current \in 0..MaxSessions
  /\ phase \in [Sessions -> {"none", "registered", "open", "closing", "gone"}]
  /\ connected \in [Sessions -> -Skew..(MaxAlerts + Skew)]
  /\ queue \in [Sessions -> Seq(Inside \cup {Done})]
  /\ \A s \in Sessions : Len(queue[s]) <= Capacity
  /\ replay \in [Sessions -> {"no", "cursor", "stream", "sending", "over"}]
  /\ since \in [Sessions -> Int]
  /\ plan \in [Sessions -> SUBSET Inside]
  /\ \A s \in Sessions : Cardinality(plan[s]) <= Limit
  /\ {pending, writing, acked} \subseteq [Sessions -> 0..MaxAlerts]
  /\ wrote \in [Sessions -> BOOLEAN]
  /\ stray \subseteq Alerts
  /\ cursor \in 0..MaxAlerts
  /\ got \in [Sessions -> SUBSET Inside]
  /\ settled \subseteq Sessions
  /\ excused \subseteq Alerts /\ cut \subseteq Alerts
  /\ polling \subseteq Sessions /\ spoiled \subseteq Sessions

Init ==
  /\ storedAt = [a \in Alerts |-> 0]
  /\ made = 0 /\ unsent = {} /\ stored = <<>> /\ up = TRUE /\ wire = <<>>
  /\ skew \in -Skew..Skew
  /\ current = 0
  /\ phase = [s \in Sessions |-> "none"]
  /\ connected = [s \in Sessions |-> 0]
  /\ queue = [s \in Sessions |-> <<>>]
  /\ replay = [s \in Sessions |-> "no"]
  /\ since = [s \in Sessions |-> 0]
  /\ plan = [s \in Sessions |-> {}]
  /\ pending = [s \in Sessions |-> 0]
  /\ wrote = [s \in Sessions |-> FALSE]
  /\ writing = [s \in Sessions |-> 0]
  /\ stray = {} /\ cursor = 0 /\ settled = {}
  /\ got = [s \in Sessions |-> {}]
  /\ excused = {} /\ cut = {} /\ polling = {} /\ spoiled = {}
  /\ acked = [s \in Sessions |-> 0]

Received == UNION {got[s] : s \in Sessions}

Open(s) == phase[s] \in {"registered", "open"}

(* Mutant: one message more than the channel holds *)
HasRoomForOneMore(s) == Open(s) /\ Len(queue[s]) <= Capacity

HasRoom(s) == Open(s) /\ Len(queue[s]) < Capacity
Newer(a, b) == IF a > b THEN a ELSE b

(* The place of a stored alert in the stream: alerts are read, and sent     *)
(* again, in its order                                                      *)
Position(a) == CHOOSE i \in DOMAIN stored : stored[i] = a

-----------------------------------------------------------------------------
(* The coordinator makes an alert, and publishes it to the stream; the live *)
(* subscriber of the shard gets what is published while it is subscribed.   *)

Make ==
  /\ made < MaxAlerts
  /\ InOrder => unsent = {}
  /\ made' = made + 1
  /\ unsent' = unsent \cup {made + 1}
  /\ UNCHANGED <<stored, storedAt, up, wire, skew, current, phase, connected, queue,
                 replayVars, ackVars, stray, cursor, deviceVars, leftOut>>

Publish(a, kept) ==
  /\ a \in unsent
  /\ unsent' = unsent \ {a}
  /\ stored' = IF kept THEN Append(stored, a) ELSE stored
  /\ storedAt' = IF kept THEN [storedAt EXCEPT ![a] = made] ELSE storedAt
  /\ wire' = IF kept /\ up THEN Append(wire, a) ELSE wire
  /\ UNCHANGED <<made, up, skew, current, phase, connected, queue, replayVars, ackVars,
                 stray, cursor, deviceVars, leftOut>>

(* run_shard: the subscription ends, and is made again after a pause *)
Unsubscribe ==
  /\ up
  /\ Gaps \/ current = 0
  /\ up' = FALSE
  /\ UNCHANGED <<made, unsent, stored, storedAt, wire, skew, current, phase, connected,
                 queue, replayVars, ackVars, stray, cursor, deviceVars, leftOut>>

Subscribe ==
  /\ ~up
  /\ up' = TRUE
  /\ UNCHANGED <<made, unsent, stored, storedAt, wire, skew, current, phase, connected,
                 queue, replayVars, ackVars, stray, cursor, deviceVars, leftOut>>

(* on_alert: a full queue means that the device misses this alert *)
OnAlert ==
  LET a == Head(wire)
      here == a \in Inside /\ current # 0
  IN
  /\ wire # <<>>
  /\ wire' = Tail(wire)
  /\ queue' = IF here /\ HasRoom(current) THEN [queue EXCEPT ![current] = Append(@, a)]
              ELSE queue
  /\ excused' = IF here /\ Open(current) /\ ~HasRoom(current) THEN excused \cup {a}
                ELSE excused
  /\ UNCHANGED <<made, unsent, stored, storedAt, up, skew, current, phase, connected,
                 replayVars, ackVars, stray, cursor, deviceVars, cut>>

-----------------------------------------------------------------------------
(* handle_socket: the session registers and notes the time, and starts its  *)
(* tasks after telling the presence registry; the replay task only if it is *)
(* still the device's current session by then.                              *)

Connect(s) ==
  /\ phase[s] = "none"
  /\ \A r \in 1..(s - 1) : phase[r] # "none"
  /\ Gaps \/ up
  /\ phase' = [phase EXCEPT ![s] = "registered"]
  /\ connected' = [connected EXCEPT ![s] = Clock]
  /\ current' = s
  /\ UNCHANGED <<publishVars, skew, queue, replayVars, ackVars, stray, cursor,
                 deviceVars, leftOut>>

StartTasks(s) ==
  /\ phase[s] = "registered"
  /\ phase' = [phase EXCEPT ![s] = "open"]
  /\ replay' = [replay EXCEPT ![s] = IF current = s THEN "cursor" ELSE "over"]
  /\ UNCHANGED <<publishVars, skew, current, connected, queue, since, plan, ackVars,
                 stray, cursor, deviceVars, leftOut>>

-----------------------------------------------------------------------------
(* run_replay: reads the cursor, reads the stream, and sends.  (since and   *)
(* connected are reset once nobody reads them any more.)                    *)

ReplayCursor(s) ==
  /\ replay[s] = "cursor"
  /\ replay' = [replay EXCEPT ![s] = "stream"]
  /\ since' = [since EXCEPT ![s] = IF cursor # 0 THEN cursor ELSE connected[s] - Window]
  /\ excused' = IF cursor # 0 THEN excused
                ELSE excused \cup {a \in Alerts : a <= connected[s] - Window}
  /\ UNCHANGED <<publishVars, skew, current, phase, connected, queue, plan, ackVars,
                 stray, cursor, deviceVars, cut>>

(* The batch that is fetched: n messages, from the first one stored a margin *)
(* before `from` or later                                                    *)
Fetched(from, n) ==
  LET late == {i \in DOMAIN stored : storedAt[stored[i]] >= from - Margin}
  IN  {stored[i] : i \in {j \in late : \A k \in late : j < k + n}}

(* Mutant: the alert right after the cursor is taken for seen *)
ReplayAlertsLate(from, n) == {a \in Fetched(from, n) : a > from + 1}

(* replay_alerts: those created after `from` *)
ReplayAlerts(from, n) == {a \in Fetched(from, n) : a > from}

(* Mutant: no overlap with the live delivery *)
WantedNoOverlap(s, n) ==
  {a \in ReplayAlerts(since[s], n) : a \in Inside /\ a < connected[s]}

(* plan_replay: those for this device, the newest Limit of them *)
Wanted(s, n) ==
  {a \in ReplayAlerts(since[s], n) : a \in Inside /\ a < connected[s] + Overlap}

PlanReplay(s, n) ==
  {a \in Wanted(s, n) :
     Cardinality({b \in Wanted(s, n) : Position(b) >= Position(a)}) <= Limit}

(* The batch has MaxRead messages at most, and fewer when its 750 ms run out *)
(* or its connection breaks: what has come by then is the answer, and        *)
(* nothing tells it from a whole one.                                        *)
ReplayStream(s) ==
  /\ replay[s] = "stream"
  /\ replay' = [replay EXCEPT ![s] = "sending"]
  /\ \E n \in 0..MaxRead :
       /\ plan' = [plan EXCEPT ![s] = PlanReplay(s, n)]
       /\ excused' = excused \cup (Wanted(s, n) \ PlanReplay(s, n))
       /\ cut' = cut \cup (Wanted(s, Len(stored)) \ Wanted(s, n))
  /\ since' = [since EXCEPT ![s] = 0]
  /\ connected' = [connected EXCEPT ![s] = 0]
  /\ UNCHANGED <<publishVars, skew, current, phase, queue, ackVars, stray, cursor,
                 deviceVars>>

(* The replay task waits for room in the queue *)
ReplaySend(s) ==
  /\ replay[s] = "sending"
  /\ HasRoom(s)
  /\ \/ \E a \in plan[s] :
          /\ \A b \in plan[s] : Position(a) <= Position(b)
          /\ queue' = [queue EXCEPT ![s] = Append(@, a)]
          /\ plan' = [plan EXCEPT ![s] = @ \ {a}]
          /\ UNCHANGED replay
     \/ /\ plan[s] = {}
        /\ queue' = [queue EXCEPT ![s] = Append(@, Done)]
        /\ replay' = [replay EXCEPT ![s] = "over"]
        /\ UNCHANGED plan
  /\ UNCHANGED <<publishVars, skew, current, phase, connected, since, ackVars, stray,
                 cursor, deviceVars, leftOut>>

EndReplay(s) ==
  /\ replay' = [replay EXCEPT ![s] = "over"]
  /\ plan' = [plan EXCEPT ![s] = {}]
  /\ since' = [since EXCEPT ![s] = 0]
  /\ connected' = [connected EXCEPT ![s] = 0]

(* Redis or NATS could not be read, or there was no room for SEND_WAIT (the *)
(* closing message waits without a limit)                                   *)
ReplayFails(s) ==
  /\ replay[s] \in {"cursor", "stream", "sending"}
  /\ replay[s] = "sending" => plan[s] # {}
  /\ EndReplay(s)
  /\ UNCHANGED <<publishVars, skew, current, phase, queue, ackVars, stray, cursor,
                 deviceVars, leftOut>>

-----------------------------------------------------------------------------
(* The writer task sends what is in the queue to the device *)
WriterSends(s) ==
  LET m == Head(queue[s])
  IN
  /\ phase[s] = "open"
  /\ queue[s] # <<>>
  /\ queue' = [queue EXCEPT ![s] = Tail(@)]
  /\ got' = IF m = Done THEN got ELSE [got EXCEPT ![s] = @ \cup {m}]
  /\ settled' = IF m = Done THEN settled \cup {s} ELSE settled
  /\ UNCHANGED <<publishVars, skew, current, phase, connected, replayVars, ackVars,
                 stray, cursor, leftOut>>

(* Mutant: the latest acknowledgement replaces the one that waits *)
OfferLatest(s, a) == a

(* The batcher keeps the newest value *)
Offer(s, a) == Newer(pending[s], a)

(* The device acknowledges an alert on the session it got it on, and the     *)
(* batcher takes it: `due` unless there was a write just before              *)
Acks(s, a, due) ==
  /\ a \in got[s]
  /\ Settled => s \in settled
  /\ a <= Clock + Tolerance
  /\ due \/ wrote[s]

(* on_client_text: the batcher writes its value when it is due *)
OnAck(s, a, due) ==
  /\ phase[s] = "open"
  /\ writing[s] = 0
  /\ Acks(s, a, due)
  /\ acked' = [acked EXCEPT ![s] = Newer(@, a)]
  /\ pending' = [pending EXCEPT ![s] = IF due THEN 0 ELSE Offer(s, a)]
  /\ writing' = [writing EXCEPT ![s] = IF due THEN Offer(s, a) ELSE 0]
  /\ wrote' = [wrote EXCEPT ![s] = TRUE]
  /\ UNCHANGED <<publishVars, skew, current, phase, connected, queue, replayVars, stray,
                 polling, cursor, deviceVars, leftOut, spoiled>>

(* The same in the last poll of a reader that was aborted and not waited     *)
(* for, after take_pending: a value that is due is cut off at its write, and *)
(* any other stays in the batcher, which nobody reads any more.              *)
LateAck(s, a, due) ==
  /\ s \in polling
  /\ phase[s] \in {"closing", "gone"}
  /\ Acks(s, a, due)
  /\ pending' = [pending EXCEPT ![s] = IF due THEN 0 ELSE Offer(s, a)]
  /\ stray' \in {stray, IF due THEN stray \cup {Offer(s, a)} ELSE stray}
  /\ polling' = IF due THEN polling \ {s} ELSE polling
  /\ wrote' = [wrote EXCEPT ![s] = TRUE]
  /\ UNCHANGED <<publishVars, skew, current, phase, connected, queue, replayVars,
                 writing, acked, cursor, deviceVars, leftOut, spoiled>>

(* Mutant: a plain SET *)
AdvanceAnyway(v) == cursor' = v

(* ADVANCE_LUA *)
Advance(v) == cursor' = Newer(cursor, v)

CursorWritten(s) ==
  /\ writing[s] # 0
  /\ Advance(writing[s])
  /\ writing' = [writing EXCEPT ![s] = 0]
  /\ UNCHANGED <<publishVars, skew, current, phase, connected, queue, replayVars,
                 pending, wrote, polling, acked, spoiled, stray, deviceVars, leftOut>>

(* The write is given up, or cut off with its session; it may still happen *)
Abandon(s) ==
  IF writing[s] = 0 THEN UNCHANGED <<stray, spoiled>>
  ELSE /\ stray' \in {stray, stray \cup {writing[s]}}
       /\ spoiled' = spoiled \cup {s}

CursorWriteFails(s) ==
  /\ writing[s] # 0
  /\ Abandon(s)
  /\ writing' = [writing EXCEPT ![s] = 0]
  /\ UNCHANGED <<publishVars, skew, current, phase, connected, queue, replayVars,
                 pending, wrote, polling, acked, cursor, deviceVars, leftOut>>

StrayWrite(v) ==
  /\ v \in stray
  /\ stray' = stray \ {v}
  /\ Advance(v)
  /\ UNCHANGED <<publishVars, skew, current, phase, connected, queue, replayVars,
                 ackVars, deviceVars, leftOut>>

-----------------------------------------------------------------------------
(* The tasks of a session are aborted; what is in its queue is lost.  The  *)
(* acknowledgement that still waits for its turn is written now.  Nobody   *)
(* waits for the reader, which may be in the middle of a poll.             *)
SessionEnds(s) ==
  /\ phase[s] = "open"
  /\ phase' = [phase EXCEPT ![s] = "closing"]
  /\ queue' = [queue EXCEPT ![s] = <<>>]
  /\ EndReplay(s)
  /\ Abandon(s)
  /\ writing' = [writing EXCEPT ![s] = pending[s]]
  /\ pending' = [pending EXCEPT ![s] = 0]
  /\ \/ s \in Lingering /\ polling' = polling \cup {s} /\ UNCHANGED wrote
     \/ wrote' = [wrote EXCEPT ![s] = FALSE] /\ UNCHANGED polling
  /\ UNCHANGED <<publishVars, skew, current, acked, cursor, deviceVars, leftOut>>

Deregister(s) ==
  /\ phase[s] = "closing"
  /\ writing[s] = 0
  /\ phase' = [phase EXCEPT ![s] = "gone"]
  /\ current' = IF current = s THEN 0 ELSE current
  /\ UNCHANGED <<publishVars, skew, connected, queue, replayVars, ackVars, stray,
                 cursor, deviceVars, leftOut>>

(* The worker dies with all its sessions *)
WorkerDies ==
  /\ current' = 0
  /\ up' = FALSE
  /\ wire' = <<>>
  /\ phase' = [s \in Sessions |-> IF phase[s] = "none" THEN "none" ELSE "gone"]
  /\ queue' = [s \in Sessions |-> <<>>]
  /\ replay' = [s \in Sessions |-> IF phase[s] = "none" THEN "no" ELSE "over"]
  /\ plan' = [s \in Sessions |-> {}]
  /\ since' = [s \in Sessions |-> 0]
  /\ connected' = [s \in Sessions |-> 0]
  /\ wrote' = [s \in Sessions |-> FALSE]
  /\ pending' = [s \in Sessions |-> 0]
  /\ writing' = [s \in Sessions |-> 0]
  /\ polling' = {}
  /\ stray' \in {stray, (stray \cup {writing[s] : s \in Sessions}) \ {0}}
  /\ spoiled' = spoiled \cup {s \in Sessions : phase[s] \in {"open", "closing"}}
  /\ UNCHANGED <<made, unsent, stored, storedAt, skew, cursor, deviceVars, leftOut, acked>>

-----------------------------------------------------------------------------
ReplayStep(s) == ReplayCursor(s) \/ ReplayStream(s) \/ ReplaySend(s)

SessionStep(s) ==
  \/ Connect(s) \/ StartTasks(s) \/ SessionEnds(s) \/ Deregister(s)
  \/ ReplayStep(s) \/ ReplayFails(s) \/ WriterSends(s)
  \/ \E a \in Alerts, due \in BOOLEAN : OnAck(s, a, due) \/ LateAck(s, a, due)
  \/ CursorWritten(s) \/ CursorWriteFails(s)

Next ==
  \/ Make
  \/ \E a \in Alerts : StrayWrite(a) \/ \E kept \in BOOLEAN : Publish(a, kept)
  \/ Unsubscribe \/ Subscribe \/ OnAlert
  \/ \E s \in Sessions : SessionStep(s)
  \/ WorkerDies

Spec == Init /\ [][Next]_vars

(* The subscriber, the writer and the replay task are polled, and the writer *)
(* makes room as long as the device reads; on a Deaf session it may not take *)
(* another message, because it waits in sink.close(), which has no time      *)
(* limit.  Redis, NATS and the device may fail at any time and nobody has to *)
(* connect or acknowledge.                                                   *)
Fairness ==
  /\ WF_vars(OnAlert)
  /\ \A s \in Sessions : /\ WF_vars(StartTasks(s))
                         /\ WF_vars(s \notin Deaf /\ WriterSends(s))
                         /\ WF_vars(ReplayStep(s))

FairSpec == Spec /\ Fairness

-----------------------------------------------------------------------------
(* Correctness *)

(* "A duplicate is acceptable and a lost alert is not": the cursor never    *)
(* passes an alert of the stream that is for the device and that the device *)
(* has not got, because such an alert is never replayed again.  Excused is  *)
(* only what the code documents to leave out: more than fits in the queue   *)
(* or in one replay, or older than the window of a device with no cursor;   *)
(* and cut is what was behind the end of a batch, which replay_alerts takes *)
(* for a whole one: that is lost.                                           *)
NothingSkipped ==
  \A a \in ToSet(stored) \cap Inside :
    a <= cursor => a \in Received \cup excused \cup cut

(* Alert a may still reach the device by itself: it is on the wire to the   *)
(* device's session, in a queue, or about to be read or sent by a replay.   *)
OnItsWay(a) ==
  \/ current # 0 /\ a \in ToSet(wire)
  \/ \E s \in Sessions : \/ a \in ToSet(queue[s]) \cup plan[s]
                         \/ replay[s] = "stream" /\ since[s] < a

(* The same, at the point of no return: no such alert is out of reach of    *)
(* every replay and not under way either.                                   *)
NothingLost ==
  \A a \in ToSet(stored) \cap Inside :
    a <= cursor => a \in Received \cup excused \cup cut \/ OnItsWay(a)

(* "Out-of-order acks can never move it backwards": whatever sessions of    *)
(* the device, old ones and aborted ones included, write in whatever order. *)
CursorNeverRewinds == [][cursor' >= cursor]_vars

(* Once a session has ended and none of its writes failed or was cut off,   *)
(* the cursor has reached the newest acknowledgement it took before the     *)
(* final flush: neither the batcher, nor the flush, nor a reader that goes  *)
(* on after it, loses one of them.                                          *)
AcksAreKept ==
  \A s \in Sessions : (phase[s] = "gone" /\ s \notin spoiled) => acked[s] <= cursor

(* The replay of session s failed, was aborted or never started *)
ReplayLost(s) == replay[s] = "over" /\ s \notin settled /\ Done \notin ToSet(queue[s])

(* A device that stays connected gets every alert of the stream, live or by *)
(* replay, whenever it was stored and whatever the other sessions of the    *)
(* device do; unless the session ends or its replay fails (then the device  *)
(* is not told that the replay is complete), the alert was cut off, or the  *)
(* device stops reading.                                                    *)
StoredArrives ==
  \A a \in Inside :
    (a \in ToSet(stored) /\ current # 0)
      ~> \/ a \in Received \cup excused \cup cut
         \/ current \in {0} \cup Deaf
         \/ current # 0 /\ (~Open(current) \/ ReplayLost(current))
=============================================================================
