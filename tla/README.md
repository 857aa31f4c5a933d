# PulseGrid in TLA+

Models, model-checking runs and machine-checked proofs for PulseGrid, a backend
that pushes location-scoped alerts to devices over WebSockets. Paths below are
relative to the repository.

## 1. The system

An **api-coordinator** (HTTP, Postgres) registers devices, issues tokens and
WebSocket tickets, records locations and dispatches alerts. A set of
**fanout-workers** hold the devices' WebSockets; each owns a fixed list of
geohash *shards*. **Redis** holds what they share (shard leases, tickets,
revocations, location records, presence, delivery statistics, replay cursors)
and **NATS/JetStream** carries alerts (stored per shard), control messages
(per device, fire and forget) and telemetry.

| Component | State | Operations | What makes it correct |
|---|---|---|---|
| connection registry (`fanout-worker/src/connection_registry.rs`) | `by_device`, `by_shard`, id counter, one bounded channel per connection | register, deregister, broadcast_to_shard, update_location, send_control, sender_for, close_all | the two indexes agree; a broadcast skips nobody; a replaced connection ends; nothing blocks |
| WebSocket session (`fanout-worker/src/ws.rs`) | reader, writer, heartbeat and replay tasks, ack batcher, presence record | authorize, handle_socket, on_client_text | only an authorized device gets in, once per ticket; the end cleans up only what is its own |
| shard lease (`fanout-worker/src/lease.rs`, `infra/src/redis.rs`) | one Redis key per shard with a TTL; `healthy` | acquire_all, refresh_once, release_all, the Lua scripts | two workers never own a shard; a dead owner's lease expires; a lost one is claimed again |
| replay and cursor (`fanout-worker/src/replay.rs`, `infra/src/nats.rs`) | cursor in Redis, pending ack, JetStream stream | offer, take_pending, advance, replay_alerts, plan_replay, run_replay | at-least-once delivery; the cursor never passes an alert the device did not get |
| shard subscriber (`fanout-worker/src/subscriber.rs`) | NATS subscription, up counter | run_shard, on_alert, fanout | alerts published while subscribed reach the registry once |
| control (`fanout-worker/src/control.rs`) | none of its own | handle_control | the worker that holds the socket acts, the others do nothing |
| device service (`api-coordinator/src/services/device_service.rs`) | device rows, location records, revocations, tickets | register, update_location, heartbeat, issue_ws_ticket, revoke, delete | a revoked device is out at once; workers see the device's real shard |
| alert dispatch (`api-coordinator/src/services/alert_dispatch_service.rs`) | alert rows, audit rows, stream | dispatch, publish_to_shards, summarize, alert_details | every targeted shard is accounted for exactly once; what is reported published is stored |
| retention (`api-coordinator/src/services/retention_service.rs`) | cutoffs | sweep, spawn | only what is old goes; a backlog is worked off |
| telemetry (`api-coordinator/src/services/telemetry_service.rs`) | bounded broadcast channel | publish, subscribe, the dashboard stream | a slow dashboard loses only its own events and is told how many |
| presence and statistics (`fanout-worker/src/ws.rs`, `subscriber.rs`, `infra/src/redis.rs`) | one record per device, one hash per alert | register, heartbeat, lookup, deregister, record | the record names the worker of the newest session; counts add up |
| settings and limits (both `config.rs`, `domain/src/auth.rs`, `middleware/rate_limit.rs`) | the configuration, a bucket per client and group of routes | from_lookup, refill_period_ms, with_limit, require_operator | nothing unreadable becomes a default; what expires outlives what it guards; guessing is throttled |
| geography (`domain/src/geo.rs`, `alert.rs`, `device.rs`) | none | shard prefixes for a circle, bounding boxes, distance | every device inside a circle is in a targeted shard |

The hard behaviours: registry functions run on several threads and touch two
concurrent maps one after the other; every Redis, NATS and Postgres call can
fail, time out or take effect after its caller gave up; state read before an
await (a location, a revocation, a cursor) is used after it; leases expire on a
clock; queues are bounded and drop; processes crash and come back under the
same name. `PROJECT.json` lists them one by one, at the line where they bite.

## 2. Modules

| Module | What it is |
|---|---|
| `ConnectionRegistry` | the registry and the tasks that use it, one map call or `try_send` per step |
| `ConnectionRegistryProofs` | its theorems |
| `ShardLease` | the leases in Redis and the workers that hold them |
| `Leases` | what the leases promise: the abstract specification that `ShardLease` implements |
| `ShardLeaseProofs` | the theorems of `ShardLease`, and the refinement |
| `AlertReplay` | the stream, live delivery, replay and the acknowledgement cursor of one device |
| `AlertReplayProofs` | its theorems |
| `DeviceAccess` | one device's requests, tickets, revocation and location, and the connections and control messages on the workers |
| `DeviceAccessProofs` | its theorems |
| `AlertDispatch` | dispatches, the stream they publish to, the audit trail and the retention sweep over alerts |
| `AlertDispatchProofs` | its theorems |
| `OperatorView` | what operators see of the workers: presence, delivery statistics, telemetry and its dashboards, through shutdowns and crashes |
| `OperatorViewProofs` | its theorems |
| `Settings` | operators: what the two programs make of their environment |
| `GeoRouting` | operators: from a circle to shards, and the circle predicate of the queries |
| `Coordinator` | the two applied: starts and restarts, the lifetimes of tokens, revocations, records and rows, and operators' requests |
| `CoordinatorProofs` | its theorems, and those about the operators of `Settings` and `GeoRouting` |
| `Induction` | lemmas for the proofs: induction over numbers and finite sets, loops and sums |
| `MC...` | values for the constants |

Definitions that begin with a comment `Mutant:` are wrong variants of the
definition after them. No specification uses them; `PROJECT.json` says which
property notices each.

### ConnectionRegistry

`by_device` and `by_shard` are functions into connection ids, 0 where a map has
no entry. A connection's `device`, `shard` and `location` are fields by id,
`queue` its channel, `phase` its session (`live` from `register` on, `stopping`
while the writer waits in `sink.close()`, `leaving` when its tasks ended, `gone`
after `deregister`), `replay` whether the replay task still holds a sender. `pc[t]` is where runtime thread `t` is inside a
registry function: the functions are synchronous, but each makes several calls
on two DashMaps, and each such call is one step.

| Action | Code |
|---|---|
| `RegisterBegin`, `RegisterInsertDevice`, `RegisterClosePrevious`, `RegisterUnindexPrevious`, `RegisterInsertShard` | `register` |
| `SessionDeregister`, `DeregisterDevice`, `DeregisterShard` | `deregister`, called at the end of `handle_socket` |
| `BroadcastBegin`, `BroadcastVisit`, `BroadcastEnd` | `broadcast_to_shard`; a DashMap iteration visits every key that is there throughout, in any order, and holds a read guard on the outer entry |
| `UpdateLocation`, `SendControlGet`, `SendControlSend` | `update_location`, `send_control`, which forgets a connection whose queue is full |
| `CloseAllBegin`, `CloseAllSend`, `CloseAllClearDevice`, `CloseAllClearShard` | `close_all` |
| `SenderFor`, `ReplaySend`, `ReplayEnd`, `WriterRecv`, `WriterPingFails`, `WriterClosed`, `SessionEnds` | the tasks of `handle_socket` |

A receiver ends when its last sender is dropped (`HasSender`): this, and not
the `Close` message, is what finally ends a replaced connection with a full
queue. Every write of the writer has a time limit except the last, the
`sink.close()` after its loop (`ws.rs:360`): the connections in the constant
`Deaf` are those whose client may keep sending and never read, and of them
`WriterClosed` need not happen. The history variable `overlap` marks a device whose `register` call was
overlapped by another `register` of it, by `close_all` or by a `send_control`
that gave up on the connection being registered.

### ShardLease

A worker is its public URL, the value it writes into the keys. `owner` and
`ttl` are the keys; `status` is what the process does (`down`, `acquiring`,
`backingOut`, `serving`, `sweeping`, `releasing`, `released`), `i`, `last`, `ok`
the loop it is in, `call` its outstanding Redis call and `healthy` the flag
behind `/ready`. A call is sent, runs (`Script`: `CLAIM_LUA` or `RELEASE_LUA`)
and is answered. A caller that gets an error, is aborted or dies may leave an
*orphan*, a request that Redis runs later or never. `Tick` is time: keys
expire, the refresher's next sweep comes due. The constants `Punctual` (a sweep
starts on time and finishes within a tick) and `DataLoss` (Redis may come back
empty) say under which conditions a property is claimed. Neither says anything
about orphans: a process may be started again under its URL while a request of
its predecessor is on its way, and a release among those deletes the key of the
new process, which the scripts cannot tell from the old one. The history
variable `robbed` has the workers this happened to, until their next whole
sweep is over.

| Action | Code |
|---|---|
| `Start`, `AcquireWon`, `AcquireConflict`, `AcquireError` | `build_state`, `acquire_all` with its back-out |
| `SweepBegin`, `SweepReply`, `SweepError` | `spawn_refresher`, `refresh_once` |
| `Shutdown`, `ReleaseReply`, `ReleaseError` | the end of `main`: abort the refresher, `release_all` |
| `Crash`, `OrphanRuns`, `OrphanLost`, `Tick`, `RedisLosesData` | the environment |

One process per worker URL runs at a time: two processes that are given the
same `WORKER_PUBLIC_URL` share their leases by design of the scripts, and the
model does not start the second.

`Leases` says in four actions what the workers may rely on: a shard is granted
when it is free or the caller's own, for a full term; it is given up by its
holder only; terms pass; the registry may come back empty if `DataLoss` says
so. `Registry` in `ShardLease` instantiates it with `owner` for the holder and
`ttl` for the rest of the term, and `RegistryKeepsItsPromise` is its
specification: sends, answers, errors, crashes and the workers' loops are
stutters of it, a script that runs (for a caller or as an orphan) is a grant, a
giving up or a stutter, and `Tick` is the passing of time.

### AlertReplay

An alert is its creation time. The coordinator makes alerts and publishes them
to the stream (`stored`, with the server's `storedAt`); the worker's
subscription puts them on the `wire` while it is `up`. One device connects up
to `MaxSessions` times. A session has a bounded `queue`, a replay task
(`replay`: reading the cursor, reading the stream, sending), an `AckBatcher`
(`pending`, `wrote`) and at most one cursor write it waits for (`writing`). A
write whose caller was aborted or gave up is `stray` and may still run. The end
of a session aborts its reader and does not wait for it: one of the sessions in
`Lingering` may be in the middle of a poll (`polling`) and offer one more
acknowledgement after the final flush. `got` is what the device received. `excused` collects what the code is documented to
leave out: an alert that found the queue full (`README.md` of the repository:
a full channel drops), one beyond `REPLAY_MAX_ALERTS`, one older than the
window of a device without a cursor. `cut` collects what it is not documented
to leave out: a batch that runs out of its 750 ms, loses its connection or
reaches `MAX_STREAM_READ` ends like a whole one (`nats.rs:189-206`), so
`ReplayStream` takes any beginning of what there is, and the rest is cut.

| Action | Code |
|---|---|
| `Make`, `Publish` | `dispatch`, `publish_durable` (which may fail) |
| `Unsubscribe`, `Subscribe`, `OnAlert` | `run_shard`, `on_alert` |
| `Connect`, `StartTasks` | `handle_socket`: register and note the time; presence; start the tasks |
| `ReplayCursor`, `ReplayStream`, `ReplaySend`, `ReplayFails` | `run_replay`; `Fetched` and `ReplayAlerts` are `replay_alerts`, `Wanted` and `PlanReplay` are `plan_replay` |
| `WriterSends` | the writer task |
| `OnAck`, `LateAck`, `CursorWritten`, `CursorWriteFails`, `StrayWrite` | `on_client_text`, `AckBatcher::offer` (`LateAck`: of an aborted reader), `write_cursor`, `ADVANCE_LUA` |
| `SessionEnds`, `Deregister`, `WorkerDies` | the end of `handle_socket`: abort, flush the pending acknowledgement, deregister; a killed worker |

An acknowledgement further in the future than the tolerance is ignored, which
is no step. The device is honest: it acknowledges, on the session it received
it on, an alert it received; on a session in `Deaf` it may stop reading. Three
constants say what else is assumed:
`Settled` (it acknowledges only after `replay_complete`), `InOrder` (alerts are
published in the order of their creation), `Gaps` (the subscription may be down
while devices are connected). The registry is one variable, `current`; the
registry's own steps are `ConnectionRegistry`'s matter.

### DeviceAccess

One device. `row` is its row in Postgres; `record`, `revoked` and `tickets` are
what Redis holds about it. A request (`req[r]`: what it is, the call it makes
next, the location it brings and the one it read) and a connection attempt
(`conn[a]`: its stage, worker, ticket, location and shard) are sequences of
awaited calls, one action each. `After` is the order of the calls of each
request. `inbox[w]` holds the control messages on their way to worker `w`;
NATS keeps their order, and a message that does not reach a worker (it is
resubscribing, the publish failed) is lost. The history variables record what
the properties exempt: `torn` (a move ended between row and record), `unheard`
and `unseen` (a worker was not told), `slipped` (an attempt was past its checks
and not registered yet when a message was handled).

| Action | Code |
|---|---|
| `Begin`, `Auth` | the handlers of `devices.rs` and `admin.rs`, `AuthDevice` |
| `Insert`, `Record`, `RecordFails`, `Rollback` | `register` |
| `Find`, `Write`, `Record`, `TellMoved`, `TellNothing` | `update_location` |
| `Find`, `Touch`, `Record` | `heartbeat` |
| `Find`, `Record`, `Issue` | `issue_ws_ticket` |
| `Find`, `Revoke`, `TellRevoked` | `revoke` |
| `Revoke`, `Erase`, `Forget`, `TellRevoked` | `delete` |
| `Consume`, `CheckRevoked`, `Locate`, `Register`, `Leave` | `authorize`, `ws_upgrade_handler`, the start and the end of `handle_socket` |
| `HandleControl` | `spawn_control_subscriber`, `handle_control` |
| `Fail`, `TicketExpires`, `RecordExpires` | the environment |

A call that took effect and was not answered is the call followed by `Fail`. A
call that takes effect after its caller gave up is not modelled here (it is in
`ShardLease` and `AlertReplay`). With `Serial`, the device itself makes one
request at a time, as a client does; operators do not wait for it. A revocation
does not expire: its TTL is longer than that of any token. A ticket is named by
the request that issued it (it is 32 random bytes). Validation of the input,
the shard hint of the client (one more reason to refuse, part of `Leave`) and
the worker URL in the answers are left out.

### AlertDispatch

`step[d]` is how far dispatch `d` is, `at[d][s]` how far it is with shard `s`
and `count[d][s]` what it counted there; `wire` and `stored` are the messages to
and in JetStream, `alerts` and `deliveries` the tables. An alert's number is the
order of its creation; the shards it is routed to are an input.

| Action | Code |
|---|---|
| `Begin`, `Insert`, `InsertFails` | `dispatch_alert`, the start of `dispatch`, `insert_alert` |
| `Send`, `Ack`, `GiveUp`, `Collect` | `publish_to_shards` with its slots, `publish_durable` with its timeout |
| `Count`, `RecordShardDelivery`, `RecordFails`, `Answer` | the second half of `dispatch`, `summarize` |
| `Gone`, `Store`, `Lose` | the environment: the operator's connection breaks; the stream |
| `Age`, `SweepBegin`, `PurgeBatch`, `SweepFails` | `RetentionService::sweep` and `spawn`, `purge_older_than` |

`InsertFails` and `RecordFails` are statements that failed, or that were
executed and lost only their answer: the row may be there either way.

The retention period is at least a day, so an alert becomes old only when its
dispatch is over. The first half of a sweep, over devices, can only make it
fail here (`SweepFails`); what it does to a device is in `Coordinator`.

### OperatorView

One device and one alert. `at[a]` is how far session `a` of the device is
(registered and about to write its presence record, live, looking the record
up, deleting it, over), `worker[a]` where it is, `current[w]` the session in
worker `w`'s registry, `presence` the record. `report[s]` is the task that
reports what the broadcast to shard `s` did, `fanned[s]` what that was, `stats`
the hash of the alert in Redis. `up` is the coordinator's subscription, `log`
the events of the broadcast channel from its beginning, of which the last
`Capacity` can be read, and `dash[d]` a dashboard's stream: where it began, its
next event, what it got and how many it was told it missed. `hidden` collects
the sessions presence does not vouch for: their write failed, all heartbeats of
a TTL failed, or an earlier session had a write or a delete on the way.

| Action | Code |
|---|---|
| `Enter`, `Announce`, `AnnounceFails` | `handle_socket`: register, then write the record, whose failure is only logged |
| `End`, `Look`, `Delete`, `LeaveRecord` | its end: deregister; if it was current, look the record up, and delete it if it names this worker |
| `Expire`, `Lapse` | the record's TTL, which the heartbeat of any session of the device renews |
| `Drain`, `Die` | the shutdown of `main`, which empties the registry first; the end of the process |
| `OnAlert`, `Record`, `RecordFails`, `Publish`, `PublishFails`, `StatsExpire` | `on_alert` and the task it spawns, `AlertStatsStore::record`, `publish_telemetry` |
| `Follow`, `Subscribe`, `Stream`, `CloseStream` | `TelemetryService`, the event stream of `dashboard.rs` |

### Settings and GeoRouting

`Settings` has `from_lookup` of both programs over *raw values*: unset, blank,
something that does not parse, or a value. A result is the set of the values it
may have, empty for an error; a configuration is a record with one field per
setting, so there is one exactly if every setting is accepted. Secrets are told apart as empty, placeholder, short or
strong. `RefillPeriodMs`, `RevocationTtlHours` and `LocationTtlHours` are the
numbers derived from it.

`GeoRouting` is on the sphere, in whole units of an angle, with a radius as the
angle it spans. It has the cell of a point, the haversine distance
(`Haversine`), the extent of a circle in longitude with its pole branch
(`LonExtent`), the ring search (`RingsNeeded`, `Visited`) with its limit, the
pruning with the cell's width at the latitude nearest to the equator
(`DiagonalBuffer`, `WithinBuffer`), the one or two boxes of `bounding_boxes`,
and the predicate of the queries. `Sin` is a table of sines as multiples of
1/`One`. The code compares distances and takes inverse sines; the model compares
the sines, and of a root or an inverse it asks for the least or largest whole
unit with the property, so that every number is an integer. Products of two
cosines are rounded up. What is left of `geo.rs` is the rounding of
floating-point numbers and the 0.1 % that `bounding_boxes` adds against it,
which is less than a unit here.

### Coordinator

`env` and `workerEnv` are what the processes were started with. For one device
there are the `token`, the revocation, the `row` (the age of `last_seen`), the
`record`, each with the ticks it has left; `doomed` says that a sweep under way
has selected the row. For one client address there are the `bucket` of each
group of routes and the `answer` being made. The history variables are `kept`
(the retention the record was last written for), `banned` (the revocation was
made to outlive the token) and `checked` (keys tried).

| Action | Code |
|---|---|
| `Start`, `Stop`, `StartWorker`, `StopWorker` | `from_lookup` and `build_state`; a start that is refused is no step |
| `Register`, `Seen`, `Ticket`, `Revoke`, `Delete` | `DeviceService`, each as a whole, with the lifetimes it writes |
| `SweepSelect`, `SweepDelete` | the SELECT and the DELETE of `purge_inactive`, with what comes between |
| `Tick` | time: tokens and keys run out |
| `Refill`, `Request`, `Respond` | `with_limit`, `require_operator` and the handlers `dispatch_alert` (up to the publishing) and `devices` of the dashboard |

## 3. Runs

| Run | Instance | Shows |
|---|---|---|
| `registry` | one device, two shards, two threads, two connections, one place, queues of one | `TypeOK`, `IndexAgreement`, `BroadcastMissesNobody`, `CallsGoOn` |
| `registry_live` | one thread, one place, alerts for it and alerts for nobody, the first client reads nothing, under fairness | `UnregisteredEnds`, `SessionsCleanUp` |
| `registry_race` | as `registry` | `AlwaysIndexed` is violated (finding) |
| `lease` | two workers with the same two shards in opposite orders, TTL 3, punctual sweeps | `TypeOK`, `RenewedIsHeld`, `EndsWithNothing`, `HealthyIsHeld`, `BelieveApart`, and that `Leases` is implemented (`RegistryKeepsItsPromise`) |
| `lease_live` | one worker of two shards, late sweeps, data loss, under fairness | `DeadOwnerExpires`, `LostIsReclaimed` |
| `replay` | two alerts, two sessions, queues of one, replays of one, batches that end anywhere, a reader that goes on, clocks off by up to one | `TypeOK`, `NothingSkipped`, `AcksAreKept`, `CursorNeverRewinds` |
| `replay_live` | two alerts, two sessions, queues of one, on the first session the device may stop reading, under fairness | `StoredArrives` |
| `replay_overtaken` | two alerts, a device that acknowledges at once | `NothingLost` is violated (finding) |
| `access` | three places in two shards, two workers, four requests, two connection attempts | `TypeOK`, `TicketsAdmitOnce`, `RevokedIsOut`, `RecordIsCurrent`, `SessionsFollow`, `DeletedStaysDeleted` |
| `dispatch` | two alerts, two shards, one slot, sweeps of one row, under fairness | `TypeOK`, `AnswerIsHonest`, `StoredIsKnown`, `DetailsAgree`, `DispatchEnds`, `OldGoesAway` |
| `view` | three sessions, two workers, three shards, a channel of one event, one dashboard, under fairness | `NewestIsVisible`, `CountsAddUp`, `DashboardAccounts`, `StaleGoesAway` |
| `coordinator` | 941 environments of the coordinator and 443 of a worker, a globe of 30 by 30 cells of 12 by 6 degrees in units of 1.5 degrees, circles of five radii around 41 centres, ticks of 12 hours | `SettingsHold`, `RevokedStaysOut`, `KnownIsLocatable`, `CircleIsCovered`, `GuessesAreThrottled` |

**Bounds.** Two connections of one device are what replacement, late
deregistration and the register race need; two shards make a reconnect move the
device between inner maps; a queue of one is full after one message. `registry`
identifies the two threads (symmetry is used for safety only). A lease TTL of 3
is the smallest the configuration accepts, and gives one sweep per tick and
room for exactly one missed one. One orphan at a time is enough for every
overtaking of one call by another; `MaxLate` bounds how many sweeps the
refresher catches up on. Of two alerts one is passed over when the other is
acknowledged; two sessions are an old and a new one; a replay of one alert
leaves one out, and a batch of two can end before, between and after them. Four
requests are a registration, a ticket and any two
that meet (a move and a revocation, a heartbeat and a deletion, a move and its
repetition); with two attempts a ticket can be used twice and a session
replaced; of the three places two are in one shard, so that both kinds of move
occur. One slot for two shards makes the second wait for the first, and one row
per sweep for two alerts makes the backlog longer than a sweep. The theorems
lift these bounds for the safety properties they state (section 4).

In `view` three sessions are the newest, one it replaces on the same worker and
one half open on the other; two reports of one worker and one of another come
in any order, and a channel of one event is overtaken by the second. Sessions
and reports are explored one at a time (`MCNext`): their actions read and write
no variable in common but `process`, which is free in both, and each property
is about one of them. `coordinator` does the same with the starts, the
lifetimes and the requests, which share only `env`. A cell is twice as wide as
it is high at the equator, as a geohash cell of four characters is; the largest
radius of 9 degrees needs two rings at the equator and more than the limit of 4
towards the poles, where a dispatch is refused and the dashboard's query is not.
Centres are both poles and places near them, the equator and places between, on
both sides of the antimeridian and beside it. Every point of the grid in a
circle is tried. Lifetimes of one to two days at 12 hours a
tick make a token, a revocation, a record and a row run out in every order that
restarts with other settings allow; `MaxAge` is past the longest retention.

**Deadlock** is not checked for the registry, the replay and the access: all
connections and requests may have been used, and then nothing is left to do.
So it is with `view`, whose workers may all be over. The lease protocol, the
retention sweep and the coordinator never stop, and there it is checked.

**Fairness.** Registry: a thread inside a function goes on (the functions never
await); calls that wait for a map guard get it if it is free again and again
(the lock of a DashMap shard is fair to waiting writers: strong fairness); the
writer and the end of a session are tasks the runtime polls, and get a thread
in the end; a write ends within `SEND_TIMEOUT`, and `sink.close()`, which has no
limit, ends for clients that read (`c \notin Deaf`). With several threads the liveness graph is too large for TLC, so
`registry_live` has one; what several threads add, waiting for each other, is
`CallsGoOn`. Lease: time passes, the refresher's loop runs, a call that is sent
again and again is executed some time (strong fairness of `Script`; any single
call may fail). Nothing forces a worker to start, crash or stop. Replay: the
subscriber and the replay task are polled, and the writer takes the next message
on a session whose device reads (`s \notin Deaf`). Redis and NATS may fail at every call, the device may
leave at any time and need not acknowledge. Dispatch: the handler's future is
polled, a publish that is not answered times out, and a statement returns, with
an error if not with its result (`sqlx` sets no limit); sweeps are started on a
timer, each may fail, but not all for ever (strong fairness of `PurgeBatch`).
View: a session that has begun to write, look up or delete its record goes on,
and a key that nobody renews expires. No session has to end, not even one that
the device has replaced (on another worker nobody tells it), no worker has to
end, no report to be made and no dashboard to read.

## 4. Proofs

TLAPS checks every theorem for all values of the constants under the named
`ASSUME`s: capacities, limits and bounds are natural numbers (positive where the
code has a positive constant), areas are sets of locations, prefix lists are
non-empty, the TTL is at least 3 as `config.rs` enforces, a clock is off by less
than the replay's overlap, names such as "nobody" are no workers or places, what
parses as a number is one, a list of prefixes is a sequence of strings, a tick
divides a day, half a cell is a whole number, the world is twice as far around
as a circle from pole to pole is long, the table of sines grows from 0 to `One`,
a request has numbers for its coordinates, radius and limit, and finitely many
devices are at points of the world. One assumption is more than a type:
`SphereAssumption`, for which see Geography below. Every run evaluates those of
its modules.

**Induction over data.** The library's induction theorems take a predicate as a
parameter, which the provers cannot instantiate; a set they can. `Induction`
states them so: a set of numbers that has 0, and with a number the next one,
has them all (`NumbersInduction`, from the least number outside it); a set of
subsets of a finite set that has a subset whenever it has that subset without
any one element has them all (`SubsetInduction`). From these it gets that a
loop of the code has a value after every round (`Iterates`; a recursive
function is a CHOOSE, of which nothing is known before), and what
`MapThenSumSet` computes: the order does not matter (`AnyFirst`), one more
field adds its value (`TotalGrows`).

**Registry.** `IndexAgreement` is not inductive. The invariant `IInv` adds what
the steps of a call rely on: ids are handed out once (`Allocated`); a map entry
for a device belongs to a connection of that device, and the one in an inner map
to that shard (`MapsWellFormed`); a thread inside a function has its
connections set accordingly (`ThreadsWellFormed`), two threads never register
the same connection (`RegistersDiffer`) and a connection in the middle of
`register` has its thread (`RegisteringHasThread`); before its last step it is
not in `by_shard` (`NotYetInserted`); a removal under way is of a connection
that is no longer current (`RemovalsAreStale`); `close_all` removes what it has
passed (`CloseAllClears`). The core is a pair: the current connection is
indexed unless its registration is under way (`CurrentIsIndexed`), and an index
entry that is not current is about to be removed by somebody (`StaleIsPending`),
both for devices without an overlap. For broadcasts, `FreshIteration` says that
an iteration starts with nobody seen and the guard keeps what was absent absent.
Theorems: `TypeCorrect`, `IndexesStayConsistent`, `BroadcastsReachEveryone`,
and `OneThreadAlwaysIndexed` (with one thread no overlap arises, so the
exemption is empty). `SomeCallAlwaysGoesOn` is the half of `CallsGoOn` that
needs no ENABLED: `CanGoOn` says what a thread inside a call waits for, and
when any waits for a guard, the broadcast that holds it goes on; that
`close_all` has something left until it is done (`CloseAllHasMore`) rests on
there being only one.

**Lease.** `RenewedIsHeld` needs to know what a sweep under way has renewed so
far: `IInv` says for each loop which prefixes it has passed and that those keys
are the worker's with at least a TTL minus the time since the loop began
(`Renewed`, `UnderWay`), that every orphan's pair is in `doubt`
(`OrphansAreDoubted`), and that a process that ended owns only doubted shards
(`Accounted`). The punctual theorems add how far the keys of a worker with at
most one failed sweep can have run down (`OnTime`); the arithmetic fact behind
it is 2 * (TTL / 3) < TTL. A release that an earlier process left behind may
come at any moment. The worker it takes a key from counts as one that has
missed two sweeps, also if it is in the middle of one, until a sweep that began
later has renewed everything. Theorems:
`LeaseTypeCorrect`, `RenewedLeasesAreHeld`, `NothingIsLeftBehind`,
`HealthyWorkersHold`, `HealthyWorkersAreApart`.

**Refinement.** `LeasesAreImplemented` says that `ShardLease` implements
`Leases`, for every set of workers and prefix lists, punctual or not, with and
without loss of data. No invariant is needed but the types: the scripts decide
on the keys alone (`ScriptsAreSteps`), a tick counts all terms down
(`TicksAreSteps`), and whatever else the workers do leaves the keys
(`WorkersLeaveRedis`).

**Replay.** Three layers. `Base` has the types, that the stream holds an alert
once, how the phase of a session, its tasks and its queue belong together, and
that the current session is a live one; `CursorOnlyAdvances` needs no more, and
`AcksAreNeverLost` one fact besides: the newest acknowledgement a session took
before its final flush is in the batcher (until the flush), in the write under
way or in the cursor, or a write of its session failed (`AckIsSomewhere`); a
reader that goes on after the flush changes none of them. `NoAlertIsSkipped` needs to know where every stored alert
is. `StreamInv` says that `replay_complete` is queued once and after the
replay, that only stored alerts for the device are in queues or planned, and
that the wire is in the order of creation. `DeliveryInv` says that on every path
to the device (what a session got, its queue, the plan of its replay, the live
path) an alert comes after the earlier ones of the stream, or those are
*handled*: the device has them or they are excused or cut off, or the session's replay
will bring them before `replay_complete`, or the session is never told
`replay_complete` and so acknowledges nothing; and that below the cursor, below
every acknowledgement on its way to it and below what a replay reads from,
nothing is missing (`Covered`). The core of the proof is that what is handled
stays handled at every step; a batch that ends early hands over the beginning
of what is missing, and its rest is cut. The theorem has three hypotheses,
`InOrder`, `~Gaps` and `Settled`. They are those of the run, and each is needed
(section 5).

**Access.** `Control` says at which call each kind of request can be, that a
device is registered once and before anything else, and that its row is that of
the registration; `AccessTypeCorrect` and `DeletedNeverReturns` follow.
`TicketsAdmitOnlyOnce` adds that a request under way has issued no ticket yet,
so that no ticket is issued again after it was consumed (`TicketsAreFresh`). `RevokedIsOut` is inductive under `Control`.
`LocationInv` is for a device that makes one request at a time: what a request
read is the row as long as it is under way (`ReadIsRow`), the record follows
the row unless a move ended between its two writes (`RecordFollows`) and lags
behind it only while a move has its record to write (`RecordIsKnown`), the last
message to a worker brings the location of the row, or the one before as long
as the move has this to tell (`MessagesAreTold`), and after the messages of its inbox a session has the
location of the row (`SessionsWillFollow`); `RecordStaysCurrent` and
`SessionsFollowTheDevice` are what that says when nothing is under way.

**Dispatch.** One invariant: a sweep's cutoff is behind the age (`CutoffIsPast`),
an alert past its retention has no dispatch and no message left (`AgedIsOver`),
a dispatch that publishes has its row, one that has not begun has done nothing,
and the audit rows follow the dispatch shard by shard until its handler is
dropped: there is one with the count that was made where it was recorded, one
or none where the answer of the INSERT did not come, and none elsewhere
(`DetailsFollow`). The four invariants of the run follow.

**View.** The parts are independent, and so are the invariants. Presence: the
registry of a worker holds the latest session that registered there
(`CurrentIsLatest`), and no session before a visible newest one has a write or
a delete on the way; one that is about to look at the record is on another
worker (`EarlierAreSafe`), which is what keeps it from deleting. Statistics: a
shard has a field only after the one record of its report, so the field is the
count of one broadcast, and the total is the sum of the fields at every step
(`CountsAlwaysAddUp`): a report adds one field and its value to the total in
one transaction. Dashboards: a stream is never ahead of the channel
(`Within`), and the witness of `DashboardAccounts`, the places in the channel
that the events were read from, grows by one with each event.

**Coordinator.** `EnvInv` says that what runs was accepted by `from_lookup`; the
settings have one value each, so `SettingsAlwaysHold` is about the operators:
the arithmetic of `refill_period_ms` (1000 / n is at least 1 for an accepted n,
and 1000 over that is at least n, less than 2n, and n if n divides 1000), and for a worker what the loop of `parse_prefixes` has after k rounds (`Taken`):
the items among the first k that are not empty, each once, in the order of
their first places. Lifetimes: a revocation made for a token has more ticks left than
the token (`RevocationOutlives`), a record at least what the row's age leaves of
the retention it was written for and a day (`RecordOutlives`); both rest on the
24 hours that `revocation_ttl_secs` and `location_ttl_secs` add. Limits: keys
checked and tokens left are at most the burst and the refills.

**Geography.** Spherical trigonometry is out of the provers' reach, and a table
of rounded sines obeys its identities only nearly. What `geo.rs` takes from it
are two facts: a circle reaches no farther east and west than `LonExtent`, and
the centre of a cell with a point in the circle is no farther than the buffer
beyond its edge. `SphereAssumption` states them for the circles that are asked
for, and TLC evaluates it in the run `coordinator` for every point of each of
its circles. The theorems are about what the code makes of them. That a circle
reaches no farther north and south than the radius needs no assumption: it
follows from the haversine, whose first summand alone would be too large
(`LatitudesOfCircle`). `BoxesMissNobody` compares each coordinate with its
extent, in the cases of one box, two boxes and the whole world. For the ring
search, `RingsReach` says by induction on the
rounds that after k of them every cell at most k rows and k columns away is
visited, where columns are counted around the world either way (`Beside`, and
one step that brings a column nearer, `StepBeside`); `RingsAreEnough` that the
cells of the centre and of a point in the circle are within `RingsNeeded`, also
when one of them is on the eastern or northern edge, which belongs to the last
cell. So `ShardsCoverCircle`: every point of an accepted circle for which the
two facts hold has its cell among the targets. For the dashboard, `ListedAreInside` says that what is selected is
exactly what is in the circle, and `FirstCounts`, by induction on the set, how
many a limit leaves; `CircleAlwaysCovered` is both.

Only model-checked: the liveness properties, the two facts about the sphere, and
in `CallsGoOn` that the conditions of `CanGoOn` are all that a step waits for. TLAPS does not reason
about fairness and ENABLED here.

## 5. What the checks found

- **`registry_race`** - two overlapping `register` calls of one device leave
  the replaced connection in `by_shard`. Alerts of the shard go to it instead of
  the current connection until it ends, and `deregister` does not remove the
  entry even then. On a single-threaded runtime it cannot happen (proved).
- **`replay_overtaken`** - a device that acknowledges a live alert while its
  replay has not read the cursor yet loses the alerts it missed.

Constants and history variables mark where else the code does less than its
documentation says; the properties hold up to exactly that.

- *Replay.* A batch that ends early is taken for a whole one: the device is told
  `replay_complete`, acknowledges a newer alert, and the rest of the batch is
  lost (`cut`), although "a lost alert is not" acceptable (`replay.rs:11-12`).
  With `InOrder = FALSE` in place of `TRUE`, `NothingLost` fails because an alert
  created earlier and stored later is behind the cursor (`nats.rs:199`); with
  `Gaps = TRUE` because a connected device never gets what was published while
  the subscription was down (`subscriber.rs:60`).
- *Acknowledgements.* A reader that is in the middle of a poll when it is aborted
  may offer an acknowledgement after the final flush; it stays in the batcher
  (`polling`). The alert is sent again at the next connection, so only the
  comment at `ws.rs:422` is wrong about it.
- *Sessions.* A client that keeps sending and never reads keeps the writer in
  `sink.close()`, and a replaced or revoked session with it, for as long as it
  likes (`Deaf`), although "a single write to a device may take at most this
  long" (`ws.rs:26`).
- *Leases.* `CLAIM_LUA` is commented with "two workers can never both believe
  they own a shard" (`redis.rs:128-129`). They do after a process was killed
  with a release on its way and was started again: the release takes the new
  process's key, another worker claims the shard, and both report it until the
  next sweep (`robbed` in `HealthyIsHeld` and `BelieveApart`). They also do with
  `Punctual = FALSE`: a refresher that is late by a TTL leaves its worker
  healthy while another one takes the shard.
- *Presence.* "Presence keys expire within 60 s" of a crash (`README.md:899` of
  the repository), but not while a session of the device on another worker
  renews a record it has not written (`StaleGoesAway`).
- *Limits.* `with_limit` is said to answer 429 beyond `per_sec`
  (`rate_limit.rs:20-21`). A period is a whole number of milliseconds, so 501 a
  second are granted as 1000, and any rate that does not divide 1000 as more
  than it is; less than twice as much (`SettingsHold`).

The other exemptions of passing properties are behaviour of the code, too. An
attempt that passed the revocation check before the device was revoked
and registers after its worker handled the message stays connected (`slipped`
in `RevokedIsOut`); a control message that is lost is not repeated (`unheard`,
`unseen`); a shard reported as failed may have been stored after the timeout
(`AnswerIsHonest` says nothing of those, although the comment at
`alert_dispatch_service.rs:98` does); a dispatch whose client went away has
published shards without audit rows. `main` aborts the refresher without
waiting for it, and a renewal already sent can run after the release and block
the shard for one TTL (`doubt` in `EndsWithNothing`). A move that fails after
the row was written and is repeated is answered with success and told to
nobody, because the second request compares with the row and finds that
nothing moved (`unseen` in `SessionsFollow`).

Presence: a shutdown empties the registry before the sessions end, so none of
them finds itself current and the records are left to expire; a device that
reconnects to the same worker between `deregister` and the lookup loses its new
record, since the two name the same worker; a heartbeat renews whatever record
is there and brings none back, so a session whose write failed stays invisible
(`hidden` in `NewestIsVisible`).

Lifetimes: after `DEVICE_TOKEN_TTL_HOURS` was lowered, a revocation, or a
second one that shortens the first, may run out before a token of the earlier
configuration does, and the device is let in again (`banned` in
`RevokedStaysOut`); a record written for a shorter retention runs out before
the row (`kept` in `KnownIsLocatable`); a device that only asks for tickets is
not seen, and a sweep deletes it; a heartbeat between the SELECT and the DELETE
of a sweep does not save its row. Limits: every rate above 1000 that the worker
accepts for connections is granted as 1000; each group of routes has a bucket of
its own, so a client may try as many keys in each.

## 6. Not modelled, and the plan

Not modelled: signing and verifying tokens and the comparison of keys
(cryptography of libraries; which secrets and keys are accepted is in
`Settings`); the rounding of floating-point numbers in `geo.rs`; the
addresses by which the rate limiter tells clients apart and the worker's
limiter of connections; metrics, health endpoints, request ids and the routing
of HTTP (no behaviour depends on them); the dashboard's page (presentation);
the pages of alert lists (reads); the load generator (a tool, no part of the
system). The expiry of the cursor and of stored alerts after days is left out
of `AlertReplay`.

Next: that `DeviceAccess` and `AlertDispatch` implement abstract specifications
of admission and of publication, as `ShardLease` does `Leases`.
