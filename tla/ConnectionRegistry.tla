------------------------- MODULE ConnectionRegistry -------------------------
(***************************************************************************)
(* The connection registry of one fan-out worker                           *)
(* (crates/fanout-worker/src/connection_registry.rs) with the tasks that   *)
(* use it: the sessions of ws.rs (register, deregister, the writer task    *)
(* that drains a connection's queue, the replay task that holds a sender), *)
(* the NATS subscriber (broadcasts), the control handler (send_control,    *)
(* update_location) and the shutdown path (close_all).                     *)
(*                                                                         *)
(* A registry function is synchronous but not atomic: it makes several     *)
(* calls on two concurrent maps, and the tasks of a multi-threaded runtime *)
(* run it on several Threads.  One action is one call on one map, or one   *)
(* try_send; pc[t] is where thread t is inside a function, and "idle" when *)
(* it is in none.                                                          *)
(***************************************************************************)
EXTENDS Integers, Sequences, FiniteSets

CONSTANTS
  Devices,    \* device ids
  Shards,     \* geohash prefixes
  Locations,  \* places a device can be at
  Areas,      \* alert circles, each the set of the locations inside it
  Threads,    \* threads of the worker's runtime
  Capacity,   \* CONNECTION_CHANNEL_CAPACITY
  Deaf,       \* connections whose client keeps sending and reads nothing
  MaxConn     \* bound: connections ever registered

ASSUME CapacityAssumption == Capacity \in Nat \ {0}
ASSUME MaxConnAssumption == MaxConn \in Nat
ASSUME DeafAssumption == Deaf \subseteq 1..MaxConn
ASSUME AreasAssumption == Areas \subseteq SUBSET Locations
ASSUME NonEmptyAssumption ==
  Devices # {} /\ Shards # {} /\ Locations # {} /\ Areas # {}

Conns == 1..MaxConn
None == 0
ConnOrNone == 0..MaxConn

(* Outbound, told apart by what the writer does after it: a frame (Alert, or *)
(* Control with close = false) or the end (Control with close = true, Close) *)
Outbound == {"frame", "close"}

(* What a broadcast did with the connection of one device *)
Outcome == {"unseen", "absent", "delivered", "dropped", "filtered"}

VARIABLES
  next_id,    \* the atomic counter: ids 1..next_id were handed out
  device, shard, location,   \* the fields of Connection, by id
  by_device,  \* device -> its connection, or None
  by_shard,   \* shard -> device -> connection, or None
  queue,      \* the bounded channel of each connection
  phase,      \* where the session of a connection is
  replay,     \* does the replay task of a connection hold a sender?
  pc,         \* where each thread is
  cur, prev,  \* the connection a thread works on, and the one it replaced
  scope,      \* the shard and the circle of a broadcast
  seen,       \* outcome per device of a broadcast
  left,       \* what close_all still has to go through
  closing,    \* close_all was called
  overlap     \* history: devices whose register call was overlapped

connVars == <<next_id, device, shard>>
sessionVars == <<phase, replay>>
threadVars == <<pc, cur, prev>>
broadcastVars == <<scope, seen>>
vars == <<next_id, device, shard, location, by_device, by_shard, queue,
          phase, replay, pc, cur, prev, scope, seen, left, closing, overlap>>

Registering == {"closePrevious", "unindexPrevious", "insertShard"}
ClosingAll == {"closeSend", "closeDevices", "closeShards"}
PCs == {"idle", "insertDevice", "deregDevice", "deregShard", "broadcast",
        "control", "controlClose"} \cup Registering \cup ClosingAll

TypeOK ==
  /\ next_id \in ConnOrNone
  /\ device \in [Conns -> Devices]
  /\ shard \in [Conns -> Shards]
  /\ location \in [Conns -> Locations]
  /\ by_device \in [Devices -> ConnOrNone]
  /\ by_shard \in [Shards -> [Devices -> ConnOrNone]]
  /\ queue \in [Conns -> Seq(Outbound)]
  /\ \A c \in Conns : Len(queue[c]) <= Capacity
  /\ phase \in [Conns -> {"none", "registering", "live", "stopping", "leaving", "gone"}]
  /\ replay \in [Conns -> {"no", "running", "over"}]
  /\ pc \in [Threads -> PCs]
  /\ cur \in [Threads -> ConnOrNone]
  /\ prev \in [Threads -> ConnOrNone]
  /\ scope \in [Threads -> Shards \X Areas]
  /\ seen \in [Threads -> [Devices -> Outcome]]
  /\ left \subseteq Devices \cup Shards
  /\ closing \in BOOLEAN
  /\ overlap \subseteq Devices

(* The fields of an id that register has not handed out yet mean nothing *)
Arbitrary(S) == CHOOSE x \in S : TRUE

Init ==
  /\ next_id = 0
  /\ device = [c \in Conns |-> Arbitrary(Devices)]
  /\ shard = [c \in Conns |-> Arbitrary(Shards)]
  /\ location = [c \in Conns |-> Arbitrary(Locations)]
  /\ by_device = [d \in Devices |-> None]
  /\ by_shard = [s \in Shards |-> [d \in Devices |-> None]]
  /\ queue = [c \in Conns |-> <<>>]
  /\ phase = [c \in Conns |-> "none"]
  /\ replay = [c \in Conns |-> "no"]
  /\ pc = [t \in Threads |-> "idle"]
  /\ cur = [t \in Threads |-> None]
  /\ prev = [t \in Threads |-> None]
  /\ scope = [t \in Threads |-> <<Arbitrary(Shards), Arbitrary(Areas)>>]
  /\ seen = [t \in Threads |-> [d \in Devices |-> "unseen"]]
  /\ left = {}
  /\ closing = FALSE
  /\ overlap = {}

-----------------------------------------------------------------------------
(* register has returned, and the session has not cleaned up yet: its writer *)
(* is live, or it is stopping and waits for sink.close()                     *)
Connected(c) == phase[c] \in {"live", "stopping"}

(* The bounded channel: try_send fails when it is full or has no receiver.   *)
(* The writer task owns the receiver until it has ended.                     *)
Open(c) == phase[c] = "registering" \/ Connected(c)

(* Mutant: one message more than the channel holds *)
AcceptsOneMore(c) == Open(c) /\ Len(queue[c]) <= Capacity

Accepts(c) == Open(c) /\ Len(queue[c]) < Capacity

TrySend(c, m) ==
  queue' = IF Accepts(c) THEN [queue EXCEPT ![c] = Append(@, m)] ELSE queue

(* Thread t moves on inside its function; or returns from it *)
Goto(t, where) == pc' = [pc EXCEPT ![t] = where]

Return(t) ==
  /\ Goto(t, "idle")
  /\ cur' = [cur EXCEPT ![t] = None]
  /\ prev' = [prev EXCEPT ![t] = None]

(* Mutant: the entry goes whichever connection it holds *)
UnindexUnchecked(c) ==
  by_shard' = [by_shard EXCEPT ![shard[c]][device[c]] = None]

(* by_shard.get(shard of c) then remove_if(device, id = c) on it *)
Unindex(c) ==
  by_shard' = IF by_shard[shard[c]][device[c]] = c
              THEN [by_shard EXCEPT ![shard[c]][device[c]] = None]
              ELSE by_shard

(* Mutants: the iteration holds no guard; close_all removes the shards from *)
(* inside an iteration over them, and so waits for its own guard.           *)
GuardedNever(s) == FALSE
GuardedByCloseAll(s) ==
  \E t \in Threads : \/ pc[t] = "broadcast" /\ scope[t][1] = s
                     \/ pc[t] \in ClosingAll

(* A broadcast keeps a read guard on its shard's entry of the outer map for *)
(* its whole iteration: entry(..) and clear() on that shard wait for it.    *)
Guarded(s) == \E t \in Threads : pc[t] = "broadcast" /\ scope[t][1] = s

(* Calls in flight that the history variable overlap is about *)
InRegister(d) ==
  \E t \in Threads : pc[t] \in Registering /\ device[cur[t]] = d

InCloseAll == \E t \in Threads : pc[t] \in ClosingAll

-----------------------------------------------------------------------------
(* register *)

RegisterBegin(t, d, s, l) ==
  /\ pc[t] = "idle"
  /\ next_id < MaxConn
  /\ next_id' = next_id + 1
  /\ device' = [device EXCEPT ![next_id + 1] = d]
  /\ shard' = [shard EXCEPT ![next_id + 1] = s]
  /\ location' = [location EXCEPT ![next_id + 1] = l]
  /\ phase' = [phase EXCEPT ![next_id + 1] = "registering"]
  /\ cur' = [cur EXCEPT ![t] = next_id + 1]
  /\ Goto(t, "insertDevice")
  /\ UNCHANGED <<by_device, by_shard, queue, replay, prev, broadcastVars,
                 left, closing, overlap>>

RegisterInsertDevice(t) ==
  LET c == cur[t]
      d == device[c]
  IN
  /\ pc[t] = "insertDevice"
  /\ by_device' = [by_device EXCEPT ![d] = c]
  /\ prev' = [prev EXCEPT ![t] = by_device[d]]
  /\ Goto(t, IF by_device[d] # None THEN "closePrevious" ELSE "insertShard")
  /\ overlap' = IF InRegister(d) \/ InCloseAll THEN overlap \cup {d} ELSE overlap
  /\ UNCHANGED <<connVars, location, by_shard, queue, sessionVars, cur,
                 broadcastVars, left, closing>>

RegisterClosePrevious(t) ==
  /\ pc[t] = "closePrevious"
  /\ TrySend(prev[t], "close")
  /\ Goto(t, "unindexPrevious")
  /\ UNCHANGED <<connVars, location, by_device, by_shard, sessionVars, cur,
                 prev, broadcastVars, left, closing, overlap>>

(* Mutant: the replaced connection stays in by_shard *)
RegisterForgetsPrevious(t) ==
  /\ pc[t] = "unindexPrevious"
  /\ prev' = [prev EXCEPT ![t] = None]
  /\ Goto(t, "insertShard")
  /\ UNCHANGED <<connVars, location, by_device, by_shard, queue, sessionVars,
                 cur, broadcastVars, left, closing, overlap>>

RegisterUnindexPrevious(t) ==
  /\ pc[t] = "unindexPrevious"
  /\ Unindex(prev[t])
  /\ prev' = [prev EXCEPT ![t] = None]
  /\ Goto(t, "insertShard")
  /\ UNCHANGED <<connVars, location, by_device, queue, sessionVars, cur,
                 broadcastVars, left, closing, overlap>>

RegisterInsertShard(t) ==
  LET c == cur[t]
  IN
  /\ pc[t] = "insertShard"
  /\ ~Guarded(shard[c])
  /\ by_shard' = [by_shard EXCEPT ![shard[c]][device[c]] = c]
  /\ phase' = [phase EXCEPT ![c] = "live"]
  /\ Return(t)
  /\ UNCHANGED <<connVars, location, by_device, queue, replay,
                 broadcastVars, left, closing, overlap>>

-----------------------------------------------------------------------------
(* deregister, called by the session that ends or by send_control *)

SessionDeregister(t, c) ==
  /\ pc[t] = "idle"
  /\ phase[c] = "leaving"
  /\ phase' = [phase EXCEPT ![c] = "gone"]
  /\ cur' = [cur EXCEPT ![t] = c]
  /\ Goto(t, "deregDevice")
  /\ UNCHANGED <<connVars, location, by_device, by_shard, queue, replay,
                 prev, broadcastVars, left, closing, overlap>>

DeregisterDevice(t) ==
  LET c == cur[t]
      d == device[c]
  IN
  /\ pc[t] = "deregDevice"
  /\ \/ /\ by_device[d] = c
        /\ by_device' = [by_device EXCEPT ![d] = None]
        /\ overlap' = IF phase[c] = "registering" THEN overlap \cup {d} ELSE overlap
        /\ Goto(t, "deregShard")
        /\ UNCHANGED <<cur, prev>>
     \/ /\ by_device[d] # c
        /\ Return(t)
        /\ UNCHANGED <<by_device, overlap>>
  /\ UNCHANGED <<connVars, location, by_shard, queue, sessionVars,
                 broadcastVars, left, closing>>

(* Mutant: only by_device is cleaned up *)
DeregisterForgetsShard(t) ==
  /\ pc[t] = "deregShard"
  /\ Return(t)
  /\ UNCHANGED <<connVars, location, by_device, by_shard, queue, sessionVars,
                 broadcastVars, left, closing, overlap>>

DeregisterShard(t) ==
  /\ pc[t] = "deregShard"
  /\ Unindex(cur[t])
  /\ Return(t)
  /\ UNCHANGED <<connVars, location, by_device, queue, sessionVars,
                 broadcastVars, left, closing, overlap>>

-----------------------------------------------------------------------------
(* broadcast_to_shard (a shard without an inner map is one without entries) *)

BroadcastBegin(t, s, a) ==
  /\ pc[t] = "idle"
  /\ scope' = [scope EXCEPT ![t] = <<s, a>>]
  /\ Goto(t, "broadcast")
  /\ UNCHANGED <<connVars, location, by_device, by_shard, queue, sessionVars,
                 cur, prev, seen, left, closing, overlap>>

(* The iteration reaches device d: absent when it has no entry any more *)
BroadcastVisit(t, d) ==
  LET c == by_shard[scope[t][1]][d]
      outcome == IF c = None THEN "absent"
                 ELSE IF location[c] \notin scope[t][2] THEN "filtered"
                 ELSE IF Accepts(c) THEN "delivered" ELSE "dropped"
  IN
  /\ pc[t] = "broadcast"
  /\ seen[t][d] = "unseen"
  /\ seen' = [seen EXCEPT ![t][d] = outcome]
  /\ IF outcome = "delivered" THEN TrySend(c, "frame") ELSE UNCHANGED queue
  /\ UNCHANGED <<connVars, location, by_device, by_shard, sessionVars,
                 threadVars, scope, left, closing, overlap>>

BroadcastEnd(t) ==
  /\ pc[t] = "broadcast"
  /\ \A d \in Devices : seen[t][d] # "unseen"
  /\ seen' = [seen EXCEPT ![t] = [d \in Devices |-> "unseen"]]
  /\ scope' = [scope EXCEPT ![t] = <<Arbitrary(Shards), Arbitrary(Areas)>>]
  /\ Return(t)
  /\ UNCHANGED <<connVars, location, by_device, by_shard, queue, sessionVars,
                 left, closing, overlap>>

-----------------------------------------------------------------------------
(* update_location: the write happens under the guard of by_device.get *)
UpdateLocation(t, d, l) ==
  /\ pc[t] = "idle"
  /\ by_device[d] # None
  /\ location' = [location EXCEPT ![by_device[d]] = l]
  /\ UNCHANGED <<connVars, by_device, by_shard, queue, sessionVars,
                 threadVars, broadcastVars, left, closing, overlap>>

(* send_control: a clone of the connection, then a try_send on the clone; a *)
(* closing frame that finds the queue full deregisters the connection.      *)
SendControlGet(t, d, close) ==
  /\ pc[t] = "idle"
  /\ by_device[d] # None
  /\ cur' = [cur EXCEPT ![t] = by_device[d]]
  /\ Goto(t, IF close THEN "controlClose" ELSE "control")
  /\ UNCHANGED <<connVars, location, by_device, by_shard, queue, sessionVars,
                 prev, broadcastVars, left, closing, overlap>>

SendControlSend(t) ==
  LET c == cur[t]
  IN
  /\ \/ /\ pc[t] = "control"
        /\ TrySend(c, "frame")
        /\ Return(t)
     \/ /\ pc[t] = "controlClose"
        /\ TrySend(c, "close")
        /\ IF Accepts(c) THEN Return(t)
                         ELSE Goto(t, "deregDevice") /\ UNCHANGED <<cur, prev>>
  /\ UNCHANGED <<connVars, location, by_device, by_shard, sessionVars,
                 broadcastVars, left, closing, overlap>>

-----------------------------------------------------------------------------
(* close_all: one pass of try_send, then both maps are cleared *)

CloseAllBegin(t) ==
  /\ pc[t] = "idle"
  /\ ~closing
  /\ closing' = TRUE
  /\ left' = Devices
  /\ Goto(t, "closeSend")
  /\ overlap' = overlap \cup {d \in Devices : InRegister(d)}
  /\ UNCHANGED <<connVars, location, by_device, by_shard, queue, sessionVars,
                 cur, prev, broadcastVars>>

CloseAllSend(t, d) ==
  LET c == by_device[d]
  IN
  /\ pc[t] = "closeSend"
  /\ d \in left
  /\ left' = IF left = {d} THEN Devices ELSE left \ {d}
  /\ Goto(t, IF left = {d} THEN "closeDevices" ELSE "closeSend")
  /\ IF c = None THEN UNCHANGED <<queue>>
     ELSE TrySend(c, "close")
  /\ UNCHANGED <<connVars, location, by_device, by_shard, sessionVars, cur,
                 prev, broadcastVars, closing, overlap>>

CloseAllClearDevice(t, d) ==
  /\ pc[t] = "closeDevices"
  /\ d \in left
  /\ by_device' = [by_device EXCEPT ![d] = None]
  /\ left' = IF left = {d} THEN Shards ELSE left \ {d}
  /\ Goto(t, IF left = {d} THEN "closeShards" ELSE "closeDevices")
  /\ UNCHANGED <<connVars, location, by_shard, queue, sessionVars, cur, prev,
                 broadcastVars, closing, overlap>>

CloseAllClearShard(t, s) ==
  /\ pc[t] = "closeShards"
  /\ s \in left
  /\ ~Guarded(s)
  /\ by_shard' = [by_shard EXCEPT ![s] = [d \in Devices |-> None]]
  /\ left' = left \ {s}
  /\ Goto(t, IF left = {s} THEN "idle" ELSE "closeShards")
  /\ UNCHANGED <<connVars, location, by_device, queue, sessionVars, cur, prev,
                 broadcastVars, closing, overlap>>

-----------------------------------------------------------------------------
(* The tasks of a connection: replay, writer, reader and heartbeat *)

(* sender_for, called once by the session before it starts its tasks: the    *)
(* replay task if the connection is still the current one, then the others.  *)
SenderFor(t, c) ==
  /\ pc[t] = "idle"
  /\ phase[c] = "live"
  /\ replay[c] = "no"
  /\ replay' = [replay EXCEPT ![c] = IF by_device[device[c]] = c THEN "running" ELSE "over"]
  /\ UNCHANGED <<connVars, location, by_device, by_shard, queue, phase,
                 threadVars, broadcastVars, left, closing, overlap>>

(* The replay task waits for room instead of dropping *)
ReplaySend(c) ==
  /\ replay[c] = "running"
  /\ Accepts(c)
  /\ TrySend(c, "frame")
  /\ UNCHANGED <<connVars, location, by_device, by_shard, sessionVars,
                 threadVars, broadcastVars, left, closing, overlap>>

(* It is done, gave up waiting for room, or was aborted by the session *)
ReplayEnd(c) ==
  /\ replay[c] = "running"
  /\ replay' = [replay EXCEPT ![c] = "over"]
  /\ UNCHANGED <<connVars, location, by_device, by_shard, queue, phase,
                 threadVars, broadcastVars, left, closing, overlap>>

Started(c) == Connected(c) /\ replay[c] # "no"

(* Everything that owns a sender of connection c *)
HasSender(c) ==
  \/ by_device[device[c]] = c
  \/ by_shard[shard[c]][device[c]] = c
  \/ replay[c] = "running"
  \/ \E t \in Threads : c \in {cur[t], prev[t]}

(* A session ends: its receiver goes, with what is still queued in it, and *)
(* the session is left with cleaning up after itself.                      *)
Leave(c) ==
  /\ phase' = [phase EXCEPT ![c] = "leaving"]
  /\ queue' = [queue EXCEPT ![c] = <<>>]

(* The writer's loop is over: it takes no more messages and closes the sink *)
WriterStops(c) == phase' = [phase EXCEPT ![c] = "stopping"]

(* The writer task takes one message; it stops after a closing one, after    *)
(* one it could not write in time, and when recv() says that every sender is *)
(* gone and the queue is drained.                                            *)
WriterRecv(c) ==
  /\ Started(c)
  /\ phase[c] = "live"
  /\ \/ /\ queue[c] # <<>>
        /\ queue' = [queue EXCEPT ![c] = Tail(@)]
        /\ WriterStops(c) \/ (Head(queue[c]) = "frame" /\ UNCHANGED phase)
     \/ /\ queue[c] = <<>>
        /\ ~HasSender(c)
        /\ WriterStops(c)
        /\ UNCHANGED queue
  /\ UNCHANGED <<connVars, location, by_device, by_shard, replay, threadVars,
                 broadcastVars, left, closing, overlap>>

(* A ping could not be written in time *)
WriterPingFails(c) ==
  /\ Started(c)
  /\ phase[c] = "live"
  /\ WriterStops(c)
  /\ UNCHANGED <<connVars, location, by_device, by_shard, queue, replay,
                 threadVars, broadcastVars, left, closing, overlap>>

(* sink.close() came back, and the writer task ends the session *)
WriterClosed(c) ==
  /\ phase[c] = "stopping"
  /\ Leave(c)
  /\ UNCHANGED <<connVars, location, by_device, by_shard, replay, threadVars,
                 broadcastVars, left, closing, overlap>>

(* The client left or went silent: the writer is cut off after CLOSE_GRACE, *)
(* in the middle of sink.close() if need be                                 *)
SessionEnds(c) ==
  /\ Started(c)
  /\ Leave(c)
  /\ UNCHANGED <<connVars, location, by_device, by_shard, replay, threadVars,
                 broadcastVars, left, closing, overlap>>

-----------------------------------------------------------------------------
ThreadStep(t) ==
  \/ RegisterInsertDevice(t)
  \/ RegisterClosePrevious(t)
  \/ RegisterUnindexPrevious(t)
  \/ RegisterInsertShard(t)
  \/ DeregisterDevice(t)
  \/ DeregisterShard(t)
  \/ SendControlSend(t)
  \/ BroadcastEnd(t)
  \/ \E d \in Devices : \/ BroadcastVisit(t, d)
                        \/ CloseAllSend(t, d)
                        \/ CloseAllClearDevice(t, d)
  \/ \E s \in Shards : CloseAllClearShard(t, s)

Call(t) ==
  \/ \E d \in Devices, s \in Shards, l \in Locations : RegisterBegin(t, d, s, l)
  \/ \E s \in Shards, a \in Areas : BroadcastBegin(t, s, a)
  \/ \E d \in Devices, l \in Locations : UpdateLocation(t, d, l)
  \/ \E d \in Devices, close \in BOOLEAN : SendControlGet(t, d, close)
  \/ CloseAllBegin(t)
  \/ \E c \in Conns : SessionDeregister(t, c) \/ SenderFor(t, c)

TaskStep(c) ==
  \/ ReplaySend(c) \/ ReplayEnd(c) \/ SessionEnds(c)
  \/ WriterRecv(c) \/ WriterPingFails(c) \/ WriterClosed(c)

Next ==
  \/ \E t \in Threads : ThreadStep(t) \/ Call(t)
  \/ \E c \in Conns : TaskStep(c)

Spec == Init /\ [][Next]_vars

(* The runtime polls every task: a thread inside a function goes on, and the *)
(* map locks let a waiting writer in between readers (strong fairness for    *)
(* the two steps that wait for one).  The writer takes the next message      *)
(* because each send() has a time limit, and the replay task ends because it *)
(* waits for room at most SEND_WAIT per alert.  sink.close() has no time     *)
(* limit: it comes back when the client reads what was written, and for a    *)
(* Deaf client never.  A session gets a thread for its next step (strong     *)
(* fairness: the threads are busy in between).  Nothing obliges a client to  *)
(* disconnect or anyone to make a call.                                      *)
Fairness ==
  /\ \A t \in Threads :
       /\ WF_vars(ThreadStep(t))
       /\ SF_vars(RegisterInsertShard(t))
       /\ \A s \in Shards : SF_vars(CloseAllClearShard(t, s))
  /\ \A c \in Conns :
       /\ WF_vars(WriterRecv(c))
       /\ WF_vars(c \notin Deaf /\ WriterClosed(c))
       /\ WF_vars(ReplayEnd(c))
       /\ SF_vars(\E t \in Threads : SenderFor(t, c) \/ SessionDeregister(t, c))

FairSpec == Spec /\ Fairness

-----------------------------------------------------------------------------
(* Correctness *)

InDeregister(d) ==
  \E t \in Threads : pc[t] = "deregShard" /\ device[cur[t]] = d

Quiet(d) == ~InRegister(d) /\ ~InDeregister(d) /\ ~InCloseAll

IndexesAgree(d) ==
  \A s \in Shards :
    by_shard[s][d] =
      IF by_device[d] # None /\ shard[by_device[d]] = s THEN by_device[d] ELSE None

(* "Every WebSocket connection this worker holds, indexed by device and by  *)
(* shard": while no call is changing the entries of a device, the two maps  *)
(* agree on it.  Only a device whose register call was overlapped by        *)
(* another register of the same device, by close_all, or by a send_control  *)
(* that gave up on the connection being registered, is exempt.              *)
IndexAgreement ==
  \A d \in Devices \ overlap : Quiet(d) => IndexesAgree(d)

(* The same with no exemption. *)
AlwaysIndexed ==
  \A d \in Devices : Quiet(d) => IndexesAgree(d)

(* A broadcast skips no connection of its shard: when the iteration passed  *)
(* device d without finding an entry, d has no connection in that shard     *)
(* that register has returned and that is still the device's current one,   *)
(* whatever was registered, deregistered or moved during the iteration.     *)
BroadcastMissesNobody ==
  \A t \in Threads, d \in Devices \ overlap :
    (pc[t] = "broadcast" /\ seen[t][d] = "absent") =>
      ~ \E c \in Conns : /\ by_device[d] = c
                         /\ shard[c] = scope[t][1]
                         /\ Connected(c)

(* A connection that lost its place in by_device (replaced, told to close   *)
(* with a full queue, or closed by the shutdown) does end, even when the    *)
(* Close message found no room: the last sender goes with the maps' entries.*)
(* Of a connection whose client reads nothing only the writer's loop ends:  *)
(* nothing more is written to it, but sink.close() keeps its session.       *)
UnregisteredEnds ==
  \A c \in Conns :
    (Connected(c) /\ by_device[device[c]] # c)
      ~> (\/ ~Connected(c)
          \/ c \in Deaf /\ phase[c] = "stopping"
          \/ device[c] \in overlap)

(* What a session leaves behind is cleaned up: no index holds it forever. *)
SessionsCleanUp ==
  \A c \in Conns :
    phase[c] = "leaving"
      ~> (\/ by_device[device[c]] # c /\ by_shard[shard[c]][device[c]] # c
          \/ device[c] \in overlap)

(* What a thread inside a call may have to wait for: the guards on entries  *)
(* of by_shard, and in close_all something that is left to go through.      *)
CanGoOn(t) ==
  /\ pc[t] # "idle"
  /\ pc[t] = "insertShard" => ~Guarded(shard[cur[t]])
  /\ pc[t] \in {"closeSend", "closeDevices"} => left \cap Devices # {}
  /\ pc[t] = "closeShards" => \E s \in left \cap Shards : ~Guarded(s)

SomeCallGoesOn == (\E t \in Threads : pc[t] # "idle") => \E t \in Threads : CanGoOn(t)

(* No registry call blocks another for good: whenever some thread is inside  *)
(* a call, one of the threads can go on.  A slow client, whose queue is     *)
(* full, holds up no broadcast, and the map guards never deadlock: there is *)
(* nothing else a step waits for.                                           *)
CallsGoOn ==
  /\ SomeCallGoesOn
  /\ \A t \in Threads : CanGoOn(t) <=> ENABLED ThreadStep(t)
=============================================================================
