---------------------------- MODULE Coordinator -----------------------------
(***************************************************************************)
(* The coordinator around its services: how it and a worker start with the *)
(* settings they are given (config.rs, build_state), how long what it      *)
(* hands out lasts (tokens, revocations, location records, rows under      *)
(* retention), and how an operator's request passes the rate limit and the *)
(* key check on its way to a handler that asks about a circle.             *)
(*                                                                         *)
(* One device, whose lifetimes are counted down in ticks, and one client   *)
(* address.  What the services do call by call is in DeviceAccess and      *)
(* AlertDispatch; here each of them succeeds or fails as a whole.          *)
(***************************************************************************)
EXTENDS Settings, GeoRouting

CONSTANTS
  Envs, WorkerEnvs,   \* the environments a process may be started with
  HoursPerTick,       \* divides 24 and the lifetimes of the tokens in Envs
  MaxAge,             \* bound: the age of a row, in ticks
  MaxRefills,         \* bound: refills of a bucket in a process's life
  Requests,           \* of operators: the group, the key, the centre and the
                      \* radius, and a title or a limit (NoLimit for none)
  Located,            \* where the devices are
  MaxListed           \* MAX_DASHBOARD_DEVICES

ASSUME TickAssumption == HoursPerTick \in Nat \ {0} /\ 24 % HoursPerTick = 0
ASSUME ListedAssumption == MaxListed \in Nat \ {0}

(* What parses as a number is one *)
IsNumber(raw) == (Given(raw) /\ raw.is # "bad") => raw.value \in Int
ASSUME EnvAssumption ==
  \A e \in Envs :
    /\ IsNumber(e.tokenTtlHours) /\ IsNumber(e.deviceRetentionDays)
    /\ IsNumber(e.alertsPerSec) /\ IsNumber(e.alertsBurst)
    /\ IsNumber(e.locationPerSec) /\ IsNumber(e.locationBurst)
ASSUME WorkerEnvAssumption ==
  \A e \in WorkerEnvs : IsNumber(e.leaseTtlSecs) /\ e.prefixes \in Seq(STRING)

(* Coordinates that were read but not validated yet; a limit may be below 1 *)
ASSUME RequestAssumption ==
  \A r \in Requests : r.center \in [lat : Int, lon : Int] /\ r.radius \in Int /\ r.limit \in Int
ASSUME LocatedAssumption ==
  /\ IsFiniteSet(DOMAIN Located) /\ DOMAIN Located \subseteq Int
  /\ \A d \in DOMAIN Located : Located[d] \in Points

NotRunning == [is |-> "not running"]
NoToken == [is |-> "none"]
NoAnswer == [is |-> "none"]
NoLimit == -1
NoRow == -1

(* The routers with a bucket of their own whose handlers take a circle *)
Groups == {"dispatch", "dashboard"}

VARIABLES
  env,        \* of the coordinator, or NotRunning
  workerEnv,  \* of a worker
  token,      \* the device's: its algorithm, its lifetime, the ticks left (-1: over)
  revoked,    \* revoked:<device>: ticks left, or 0
  row,        \* the age of last_seen in ticks, or NoRow
  doomed,     \* has a sweep selected the row?
  record,     \* device-loc:<device>: ticks left, or 0
  kept,       \* history: the retention the record was last written for, or 0
              \* if the last write failed
  banned,     \* history: was the last revocation made to outlive the token?
  bucket,     \* tokens left in the bucket of each group
  refills,    \* refills of each bucket since the start
  checked,    \* history: key checks in each group since the start
  answer      \* to the request that is being handled

deviceVars == <<token, revoked, row, doomed, record, kept, banned>>
requestVars == <<bucket, refills, checked, answer>>
vars == <<env, workerEnv, token, revoked, row, doomed, record, kept, banned,
          bucket, refills, checked, answer>>

NoRequests ==
  /\ refills = [g \in Groups |-> 0]
  /\ checked = [g \in Groups |-> 0]
  /\ answer = NoAnswer

Init ==
  /\ env = NotRunning /\ workerEnv = NotRunning
  /\ token = NoToken /\ revoked = 0 /\ row = NoRow /\ doomed = FALSE
  /\ record = 0 /\ kept = 0 /\ banned = FALSE
  /\ bucket = [g \in Groups |-> 0]
  /\ NoRequests

-----------------------------------------------------------------------------
(* Processes *)

Running == env # NotRunning
Config == CHOOSE c \in FromLookup(env) : TRUE

LimitOf(config, g) == IF g = "dispatch" THEN config.alerts ELSE config.location

(* The buckets of the limiter are full.  A start that is refused leaves     *)
(* everything as it is.                                                     *)
Start(e) ==
  /\ ~Running
  /\ \E c \in FromLookup(e) : bucket' = [g \in Groups |-> LimitOf(c, g).burst]
  /\ env' = e
  /\ UNCHANGED <<workerEnv, deviceVars, refills, checked, answer>>

(* Shut down or killed; what is in memory is lost *)
Stop ==
  /\ Running
  /\ env' = NotRunning
  /\ bucket' = [g \in Groups |-> 0]
  /\ refills' = [g \in Groups |-> 0]
  /\ checked' = [g \in Groups |-> 0]
  /\ answer' = NoAnswer
  /\ UNCHANGED <<workerEnv, deviceVars>>

StartWorker(e) ==
  /\ workerEnv = NotRunning
  /\ WorkerFromLookup(e) # {}
  /\ workerEnv' = e
  /\ UNCHANGED <<env, deviceVars, requestVars>>

StopWorker ==
  /\ workerEnv # NotRunning
  /\ workerEnv' = NotRunning
  /\ UNCHANGED <<env, deviceVars, requestVars>>

-----------------------------------------------------------------------------
(* Lifetimes *)

Ticks(hours) == hours \div HoursPerTick

(* TokenVerifier::verify: the library accepts exp = now, and a little       *)
(* after; the keys stay the same from one start to the next                 *)
Verified == token # NoToken /\ token.algorithm = Config.jwt /\ token.left >= 0

(* AuthDevice *)
Authorized == Running /\ Verified /\ revoked = 0

(* publish_location, with location_ttl_secs *)
PublishLocation ==
  /\ record' = Ticks(LocationTtlHours(Config))
  /\ kept' = Config.deviceRetentionDays

PublishFails == record' = record /\ kept' = 0

(* register and TokenSigner::issue *)
Register ==
  /\ Running /\ token = NoToken
  /\ row' = 0
  /\ PublishLocation
  /\ token' = [algorithm |-> Config.jwt, hours |-> Config.tokenTtlHours, left |-> Ticks(Config.tokenTtlHours)]
  /\ UNCHANGED <<env, workerEnv, revoked, doomed, banned, requestVars>>

(* update_location or heartbeat: last_seen is now, then the record is written *)
Seen ==
  /\ Authorized /\ row # NoRow
  /\ row' = 0
  /\ PublishLocation \/ PublishFails
  /\ UNCHANGED <<env, workerEnv, token, revoked, doomed, banned, requestVars>>

(* issue_ws_ticket writes the record and leaves last_seen *)
Ticket ==
  /\ Authorized /\ row # NoRow
  /\ PublishLocation
  /\ UNCHANGED <<env, workerEnv, token, revoked, row, doomed, banned, requestVars>>

(* RevocationStore::revoke, with revocation_ttl_secs, which may shorten an  *)
(* earlier one.  A token of another configuration may live longer.          *)
PutRevocation ==
  /\ revoked' = Ticks(RevocationTtlHours(Config))
  /\ banned' = (token # NoToken /\ token.hours <= Config.tokenTtlHours)

Revoke ==
  /\ Running /\ row # NoRow
  /\ PutRevocation
  /\ UNCHANGED <<env, workerEnv, token, row, doomed, record, kept, requestVars>>

(* delete, by the device or an operator, of a device that may be gone; a    *)
(* record that cannot be deleted stays                                      *)
Delete ==
  /\ Running /\ token # NoToken
  /\ PutRevocation
  /\ row' = NoRow /\ doomed' = FALSE
  /\ record' \in {0, record}
  /\ UNCHANGED <<env, workerEnv, token, kept, requestVars>>

(* purge_inactive of a sweep: the inner SELECT, and the DELETE, which waits *)
(* for whoever is updating the row and deletes it all the same              *)
SweepSelect ==
  /\ Running /\ row > Ticks(Config.deviceRetentionDays * 24) /\ ~doomed
  /\ doomed' = TRUE
  /\ UNCHANGED <<env, workerEnv, token, revoked, row, record, kept, banned, requestVars>>

SweepDelete ==
  /\ doomed
  /\ doomed' = FALSE /\ row' = NoRow
  /\ UNCHANGED <<env, workerEnv, token, revoked, record, kept, banned, requestVars>>

Less(n, floor) == IF n > floor THEN n - 1 ELSE n

(* Time passes; Redis drops a key whose time has come *)
Tick ==
  /\ row < MaxAge
  /\ token # NoToken
  /\ token' = [token EXCEPT !.left = Less(@, -1)]
  /\ revoked' = Less(revoked, 0)
  /\ record' = Less(record, 0)
  /\ row' = IF row = NoRow THEN NoRow ELSE row + 1
  /\ UNCHANGED <<env, workerEnv, doomed, kept, banned, requestVars>>

-----------------------------------------------------------------------------
(* Requests *)

(* The library's bucket: one token every RefillPeriodMs, up to the burst *)
Refill(g) ==
  /\ Running /\ ~Config.disabled
  /\ refills[g] < MaxRefills
  /\ refills' = [refills EXCEPT ![g] = @ + 1]
  /\ bucket' = [bucket EXCEPT ![g] = IF @ < LimitOf(Config, g).burst THEN @ + 1 ELSE @]
  /\ UNCHANGED <<env, workerEnv, deviceVars, checked, answer>>

Status(error) ==
  CASE error = "unauthorized" -> 401
    [] error = "rate limited" -> 429
    [] OTHER                  -> 400

Failed(error) == [is |-> "error", status |-> Status(error)]

(* Alert::new: a title of blanks is refused here, after the handler's check *)
(* let it pass                                                              *)
ValidAlert(radius, title) == ~InvalidRadius(radius) /\ title \notin {"empty", "blank"}

(* What validate asks of a circle in a request, and Location::new *)
ValidCircle(center, radius) == ValidLocation(center) /\ radius >= 1 /\ radius <= MaxRadius

(* What geo.rs takes from the geometry of the sphere, of the circles that   *)
(* are asked for: a circle reaches as far east and west as lon_extent_deg   *)
(* says ("the exact spherical angular extent of the circle"), and the       *)
(* centre of a cell that has a point in it is no farther than the buffer    *)
(* beyond its edge                                                          *)
ASSUME SphereAssumption ==
  \A c \in {[center |-> r.center, radius |-> r.radius] : r \in Requests} :
    ValidCircle(c.center, c.radius) =>
      \A p \in PointsIn(c.center, c.radius) :
        /\ Short(c.center.lon, p.lon) <= LonExtent(c.center.lat, c.radius)
        /\ WithinBuffer(c.center, c.radius, ShardPrefixOf(p))

(* dispatch_alert up to the publishing *)
DispatchAlert(center, radius, title) ==
  LET shards == ShardPrefixesForRadius(center, radius)
  IN  IF ~ValidCircle(center, radius) \/ ~ValidAlert(radius, title) \/ shards = {}
      THEN Failed("validation")
      ELSE [is |-> "shards", status |-> 200, center |-> center, radius |-> radius, shards |-> shards]

(* clamp_device_limit *)
ClampLimit(limit) == IF limit = NoLimit THEN MaxListed ELSE Max({1, Min({limit, MaxListed})})

(* The first n of a set of devices, ORDER BY id *)
First(devices, n) == {d \in devices : Cardinality({c \in devices : c <= d}) <= n}

(* DeviceRepository::list_in_circle *)
ListInCircle(shards, center, radius, n) ==
  First({d \in DOMAIN Located : /\ ShardPrefixOf(Located[d]) \in shards
                                /\ InCircleSql(center, radius, Located[d])}, n)

(* devices of the dashboard: "one more than the limit to learn whether the  *)
(* list was cut"                                                            *)
ListDevices(center, radius, limit) ==
  LET shards == ShardPrefixesForRadius(center, radius)
      n == ClampLimit(limit)
      found == ListInCircle(shards, center, radius, n + 1)
  IN  IF ~ValidCircle(center, radius) \/ shards = {}
      THEN Failed("validation")
      ELSE [is |-> "devices", status |-> 200, center |-> center, radius |-> radius, limit |-> n,
            devices |-> First(found, n), truncated |-> Cardinality(found) > n]

Handled(r) ==
  IF r.group = "dispatch" THEN DispatchAlert(r.center, r.radius, r.title)
  ELSE ListDevices(r.center, r.radius, r.limit)

(* Mutant: the key is checked before the limit *)
CheckedFirst(r) ==
  /\ Running /\ answer = NoAnswer
  /\ checked' = [checked EXCEPT ![r.group] = @ + 1]
  /\ LET known == Verify(Config.operatorKeys, r.key)
         full == bucket[r.group] = 0
     IN  /\ bucket' = IF known /\ ~full THEN [bucket EXCEPT ![r.group] = @ - 1] ELSE bucket
         /\ answer' = CASE ~known -> Failed("unauthorized")
                        [] full   -> Failed("rate limited")
                        [] OTHER  -> Handled(r)
  /\ UNCHANGED <<env, workerEnv, deviceVars, refills>>

(* with_limit around require_operator around the handler: "the rate limit   *)
(* is the outer layer on purpose"                                           *)
Request(r) ==
  /\ Running /\ answer = NoAnswer
  /\ IF ~Config.disabled /\ bucket[r.group] = 0
     THEN answer' = Failed("rate limited") /\ UNCHANGED <<bucket, checked>>
     ELSE /\ bucket' = IF Config.disabled THEN bucket ELSE [bucket EXCEPT ![r.group] = @ - 1]
          /\ checked' = IF Config.disabled THEN checked ELSE [checked EXCEPT ![r.group] = @ + 1]
          /\ answer' = IF Verify(Config.operatorKeys, r.key) THEN Handled(r) ELSE Failed("unauthorized")
  /\ UNCHANGED <<env, workerEnv, deviceVars, refills>>

Respond ==
  /\ answer # NoAnswer
  /\ answer' = NoAnswer
  /\ UNCHANGED <<env, workerEnv, deviceVars, bucket, refills, checked>>

-----------------------------------------------------------------------------
ProcessNext ==
  \/ \E e \in Envs : Start(e)
  \/ Stop
  \/ \E e \in WorkerEnvs : StartWorker(e)
  \/ StopWorker

DeviceNext ==
  \/ Register \/ Seen \/ Ticket \/ Revoke \/ Delete \/ SweepSelect \/ SweepDelete \/ Tick

RequestNext ==
  \/ \E g \in Groups : Refill(g)
  \/ \E r \in Requests : Request(r)
  \/ Respond

Next == ProcessNext \/ DeviceNext \/ RequestNext

Spec == Init /\ [][Next]_vars

-----------------------------------------------------------------------------
(* Correctness *)

(* Tokens that come back in a second, whole ones *)
Granted(perSec) == 1000 \div RefillPeriodMs(perSec)

RateIsKept(perSec) ==
  /\ Granted(perSec) \in perSec..(2 * perSec - 1)
  /\ (1000 \div perSec) * perSec = 1000 => Granted(perSec) = perSec

(* "In production at least one strong key is required", and whatever the    *)
(* environment says, a process that starts has settings its parts can work  *)
(* with.  The coordinator: its limiters grant exactly the configured rate   *)
(* if its period is a whole number of milliseconds, and otherwise more, but *)
(* less than twice as much (501 per second are granted as 1000, although    *)
(* with_limit is said to answer 429 beyond per_sec).  A worker: it owns     *)
(* each of its prefixes once, in the order they are listed, and its lease   *)
(* lasts for three of the refresher's pauses.                               *)
CoordinatorSettings ==
  Running =>
    /\ Config.production =>
         /\ Config.operatorKeys # {}
         /\ \A k \in Config.operatorKeys : k.secret = "strong"
         /\ Config.jwt = "HS256" => env.secret = "strong"
    /\ \A g \in Groups : RateIsKept(LimitOf(Config, g).perSec)

WorkerSettings ==
  workerEnv # NotRunning =>
    \A c \in WorkerFromLookup(workerEnv) :
      LET listed == workerEnv.prefixes
          first(p) == Min({i \in DOMAIN listed : listed[i] = p})
      IN  /\ 3 * RefreshEverySecs(c) <= c.leaseTtlSecs
          /\ ToSet(c.ownedPrefixes) = ToSet(listed) \ {""} /\ c.ownedPrefixes # <<>>
          /\ \A i, j \in DOMAIN c.ownedPrefixes :
               i < j => first(c.ownedPrefixes[i]) < first(c.ownedPrefixes[j])

(* Both, of whichever process runs *)
SettingsHold == CoordinatorSettings /\ WorkerSettings

(* "Deregistered or revoked devices must stop working immediately", and the *)
(* revocation outlives the token: a revoked device is never let in again,   *)
(* however long it waits and whatever the coordinator is restarted with.    *)
(* Exempt is a token that was issued for longer than the lifetime           *)
(* configured when it was revoked last.                                     *)
RevokedStaysOut == banned => ~Authorized

(* "Keeps its location record from expiring": a device that was seen within *)
(* the retention period has a record that a worker can check it by, unless  *)
(* the last write failed or was made for a shorter period.                  *)
KnownIsLocatable ==
  (Running /\ row # NoRow /\ row <= Ticks(Config.deviceRetentionDays * 24)
     /\ kept >= Config.deviceRetentionDays) => record > 0

(* "Every shard prefix whose cell intersects the alert circle": wherever in *)
(* an accepted circle a device is, its shard is among those the alert is    *)
(* published to; and the dashboard lists the devices in the circle, up to   *)
(* the limit, and says truncated exactly when there are more.               *)
CircleIsCovered ==
  /\ answer.is = "shards" =>
       \A p \in PointsIn(answer.center, answer.radius) : ShardPrefixOf(p) \in answer.shards
  /\ answer.is = "devices" =>
       LET inside == {d \in DOMAIN Located : InCircle(answer.center, answer.radius, Located[d])}
       IN  /\ answer.devices \subseteq inside
           /\ Cardinality(answer.devices) = Min({Cardinality(inside), answer.limit})
           /\ answer.truncated <=> Cardinality(inside) > answer.limit

(* "The rate limit is the outer layer on purpose, so guessing API keys is   *)
(* throttled too": no more keys are tried than the burst and the refills    *)
(* allow.                                                                   *)
GuessesAreThrottled ==
  Running => \A g \in Groups : checked[g] <= LimitOf(Config, g).burst + refills[g]
=============================================================================
