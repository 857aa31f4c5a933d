---------------------------- MODULE OperatorView ----------------------------
(***************************************************************************)
(* What operators can see of the workers, none of which the delivery of    *)
(* alerts waits for: the presence record that says which worker holds a    *)
(* device's socket (ws.rs, PresenceRegistry), the delivery statistics of   *)
(* an alert (on_alert, AlertStatsStore), and the telemetry that the        *)
(* coordinator passes on to the dashboards (telemetry_service.rs,          *)
(* dashboard.rs); and how all of it goes on when a worker is shut down or  *)
(* dies (main.rs).                                                         *)
(*                                                                         *)
(* One device and one alert.  Sessions are numbered as they register; an   *)
(* earlier one may be half open still, on the same worker or another.  A   *)
(* worker that is started again is a new worker: its instance_id is new.   *)
(***************************************************************************)
EXTENDS Integers, Sequences, FiniteSetsExt

CONSTANTS
  Workers,      \* by instance_id
  MaxSessions,  \* bound: sessions of the device
  Shards,
  Owner,        \* the worker of each shard
  MaxSockets,   \* bound: sockets a broadcast reaches
  Capacity,     \* CHANNEL_CAPACITY
  Dashboards

ASSUME ViewBounds == MaxSessions \in Nat /\ MaxSockets \in Nat
ASSUME CapacityAssumption == Capacity \in Nat \ {0}
ASSUME OwnerAssumption == Owner \in [Shards -> Workers]

Nobody == "nobody"
ASSUME NobodyAssumption == Nobody \notin Workers

Sessions == 1..MaxSessions

VARIABLES
  process,   \* each worker: serving, draining (told to shut down) or over
  at,        \* each session of the device
  worker,    \* where it is
  current,   \* the session in each worker's registry, or 0
  presence,  \* presence:<device>
  hidden,    \* history: sessions that presence does not vouch for
  report,    \* the task that reports what a shard's broadcast did
  fanned,    \* what it did: the sockets it reached
  stats,     \* alert-stats:<alert>: the total, and the count of each shard that
             \* has a field
  up,        \* does the coordinator follow telemetry.delivery?
  log,       \* the events of the broadcast channel, from its beginning
  dash       \* each dashboard: where it began, its next event, what it got,
             \* how many it was told it missed

presenceVars == <<at, worker, current, presence, hidden>>
reportVars == <<report, fanned, stats>>
dashVars == <<up, log, dash>>
vars == <<process, at, worker, current, presence, hidden, report, fanned, stats, up, log, dash>>

NoStats == [total |-> 0, shard |-> <<>>]
NoDash == [on |-> FALSE, since |-> 0, next |-> 1, got |-> <<>>, missed |-> 0]

Init ==
  /\ process = [w \in Workers |-> "serving"]
  /\ at = [a \in Sessions |-> "none"]
  /\ worker = [a \in Sessions |-> Nobody]
  /\ current = [w \in Workers |-> 0]
  /\ presence = Nobody /\ hidden = {}
  /\ report = [s \in Shards |-> "none"]
  /\ fanned = [s \in Shards |-> 0]
  /\ stats = NoStats
  /\ up = FALSE /\ log = <<>>
  /\ dash = [d \in Dashboards |-> NoDash]

-----------------------------------------------------------------------------
(* Presence: handle_socket *)

Step(a, from, to) == at[a] = from /\ at' = [at EXCEPT ![a] = to]
Newest(a) == \A b \in Sessions : b > a => at[b] = "none"

(* register; a handshake that had begun may end so during a shutdown too *)
Enter(a, w) ==
  /\ process[w] # "over"
  /\ \A b \in 1..(a - 1) : at[b] # "none"
  /\ Step(a, "none", "entered")
  /\ worker' = [worker EXCEPT ![a] = w]
  /\ current' = [current EXCEPT ![w] = a]
  /\ UNCHANGED <<process, presence, hidden, reportVars, dashVars>>

(* PresenceRegistry::register.  An earlier session that is about to write   *)
(* or to delete the record may do so afterwards.                            *)
Announce(a) ==
  /\ Step(a, "entered", "live")
  /\ presence' = worker[a]
  /\ hidden' = IF \E b \in 1..(a - 1) : at[b] \in {"entered", "looking", "deleting"}
               THEN hidden \cup {a} ELSE hidden
  /\ UNCHANGED <<process, worker, current, reportVars, dashVars>>

(* "The connection still works", whether or not the command was carried out *)
AnnounceFails(a) ==
  /\ Step(a, "entered", "live")
  /\ presence' \in {presence, worker[a]}
  /\ hidden' = hidden \cup {a}
  /\ UNCHANGED <<process, worker, current, reportVars, dashVars>>

(* The device is gone, or has been silent for IDLE_TIMEOUT, or the session  *)
(* was closed: deregister                                                   *)
End(a) ==
  /\ Step(a, "live", IF current[worker[a]] = a THEN "looking" ELSE "over")
  /\ current' = [current EXCEPT ![worker[a]] = IF @ = a THEN 0 ELSE @]
  /\ UNCHANGED <<process, worker, presence, hidden, reportVars, dashVars>>

(* Mutant: any record is deleted *)
IsOurs(a) == presence # Nobody

Ours(a) == presence = worker[a]

(* "That worker's presence record is not ours to delete either" *)
Look(a) ==
  /\ Step(a, "looking", IF Ours(a) THEN "deleting" ELSE "over")
  /\ UNCHANGED <<process, worker, current, presence, hidden, reportVars, dashVars>>

(* PresenceRegistry::deregister *)
Delete(a) ==
  /\ Step(a, "deleting", "over")
  /\ presence' = Nobody
  /\ UNCHANGED <<process, worker, current, hidden, reportVars, dashVars>>

(* The lookup or the deletion fails: nothing more is done *)
LeaveRecord(a) ==
  /\ at[a] \in {"looking", "deleting"}
  /\ at' = [at EXCEPT ![a] = "over"]
  /\ UNCHANGED <<process, worker, current, presence, hidden, reportVars, dashVars>>

(* Mutant: the heartbeat of a session is not aborted when that ends *)
AttendedOn ==
  \E a \in Sessions : at[a] = "live" \/ (at[a] = "over" /\ process[worker[a]] # "over")

(* The heartbeat of any session renews the record, whomever it names, and   *)
(* does not bring it back                                                   *)
Attended == \E a \in Sessions : at[a] = "live"

(* PRESENCE_TTL_SECONDS without a heartbeat *)
Expire ==
  /\ presence # Nobody /\ ~Attended
  /\ presence' = Nobody
  /\ UNCHANGED <<process, at, worker, current, hidden, reportVars, dashVars>>

(* All heartbeats of that time failed *)
Lapse ==
  /\ presence # Nobody /\ Attended
  /\ presence' = Nobody
  /\ hidden' = hidden \cup {a \in Sessions : at[a] = "live"}
  /\ UNCHANGED <<process, at, worker, current, reportVars, dashVars>>

-----------------------------------------------------------------------------
(* The end of a worker *)

(* The signal: close_all empties the registry.  The sessions end after it *)
Drain(w) ==
  /\ process[w] = "serving"
  /\ process' = [process EXCEPT ![w] = "draining"]
  /\ current' = [current EXCEPT ![w] = 0]
  /\ UNCHANGED <<at, worker, presence, hidden, reportVars, dashVars>>

(* The server is done or SHUTDOWN_GRACE is over; or the process is killed.  *)
(* What its tasks had not done by then is not done                          *)
Die(w) ==
  /\ process[w] # "over"
  /\ process' = [process EXCEPT ![w] = "over"]
  /\ current' = [current EXCEPT ![w] = 0]
  /\ at' = [a \in Sessions |-> IF worker[a] = w THEN "over" ELSE at[a]]
  /\ report' = [s \in Shards |-> IF Owner[s] = w /\ report[s] # "none" THEN "over" ELSE report[s]]
  /\ UNCHANGED <<worker, presence, hidden, fanned, stats, dashVars>>

-----------------------------------------------------------------------------
(* Reports: on_alert and the task it spawns *)

Report(s, from, to) == report[s] = from /\ report' = [report EXCEPT ![s] = to]

OnAlert(s, n) ==
  /\ process[Owner[s]] # "over"
  /\ Report(s, "none", "recording")
  /\ fanned' = [fanned EXCEPT ![s] = n]
  /\ UNCHANGED <<process, presenceVars, stats, dashVars>>

(* Mutant: the totals are written, the shard's fields are not *)
AddTotalOnly(s, n) == [stats EXCEPT !.total = @ + n]

(* The transaction of AlertStatsStore::record *)
Added(s, n) ==
  [total |-> stats.total + n,
   shard |-> [t \in DOMAIN stats.shard \cup {s} |->
                (IF t \in DOMAIN stats.shard THEN stats.shard[t] ELSE 0) + (IF t = s THEN n ELSE 0)]]

Record(s) ==
  /\ Report(s, "recording", "publishing")
  /\ stats' = Added(s, fanned[s])
  /\ UNCHANGED <<process, presenceVars, fanned, dashVars>>

(* Only logged, whether or not the transaction was carried out; the         *)
(* telemetry is sent all the same                                           *)
RecordFails(s) ==
  /\ Report(s, "recording", "publishing")
  /\ stats' \in {stats, Added(s, fanned[s])}
  /\ UNCHANGED <<process, presenceVars, fanned, dashVars>>

(* STATS_TTL_SECS after the last record *)
StatsExpire ==
  /\ stats # NoStats
  /\ stats' = NoStats
  /\ UNCHANGED <<process, presenceVars, report, fanned, dashVars>>

(* publish_telemetry; the coordinator hears it if it is subscribed *)
Publish(s) ==
  /\ Report(s, "publishing", "over")
  /\ log' = IF up THEN Append(log, s) ELSE log
  /\ UNCHANGED <<process, presenceVars, fanned, stats, up, dash>>

PublishFails(s) ==
  /\ Report(s, "publishing", "over")
  /\ UNCHANGED <<process, presenceVars, fanned, stats, dashVars>>

-----------------------------------------------------------------------------
(* Telemetry: TelemetryService and the streams of the dashboards *)

(* The subscription begins, or ends and is tried again *)
Follow ==
  /\ up' = ~up
  /\ UNCHANGED <<process, presenceVars, reportVars, log, dash>>

(* "Sees every event published from now on" *)
Subscribe(d) ==
  /\ ~dash[d].on
  /\ dash' = [dash EXCEPT ![d] = [NoDash EXCEPT !.on = TRUE, !.since = Len(log), !.next = Len(log) + 1]]
  /\ UNCHANGED <<process, presenceVars, reportVars, up, log>>

(* The channel keeps the last Capacity events *)
Oldest == Max({1, Len(log) - Capacity + 1})

(* Mutant: a lagging stream goes on without a word *)
StreamSilent(d) ==
  LET v == dash[d]
  IN  /\ v.on /\ v.next <= Len(log)
      /\ dash' = [dash EXCEPT ![d] =
           IF v.next < Oldest THEN [v EXCEPT !.next = Oldest]
           ELSE [v EXCEPT !.got = Append(v.got, log[v.next]), !.next = v.next + 1]]
      /\ UNCHANGED <<process, presenceVars, reportVars, up, log>>

(* A delivery event, or a lagged event that says how many are lost *)
Stream(d) ==
  LET v == dash[d]
  IN  /\ v.on /\ v.next <= Len(log)
      /\ dash' = [dash EXCEPT ![d] =
           IF v.next < Oldest
           THEN [v EXCEPT !.missed = v.missed + (Oldest - v.next), !.next = Oldest]
           ELSE [v EXCEPT !.got = Append(v.got, log[v.next]), !.next = v.next + 1]]
      /\ UNCHANGED <<process, presenceVars, reportVars, up, log>>

(* The browser is closed *)
CloseStream(d) ==
  /\ dash[d].on
  /\ dash' = [dash EXCEPT ![d] = NoDash]
  /\ UNCHANGED <<process, presenceVars, reportVars, up, log>>

-----------------------------------------------------------------------------
SessionStep(a) ==
  Announce(a) \/ AnnounceFails(a) \/ Look(a) \/ Delete(a) \/ LeaveRecord(a)

PresenceNext ==
  \/ \E a \in Sessions :
       \/ \E w \in Workers : Enter(a, w)
       \/ SessionStep(a) \/ End(a)
  \/ Expire \/ Lapse

WorkerNext == \E w \in Workers : Drain(w) \/ Die(w)

ReportNext ==
  \/ \E s \in Shards :
       \/ \E n \in 0..MaxSockets : OnAlert(s, n)
       \/ Record(s) \/ RecordFails(s) \/ Publish(s) \/ PublishFails(s)
  \/ StatsExpire \/ Follow
  \/ \E d \in Dashboards : Subscribe(d) \/ Stream(d) \/ CloseStream(d)

Next == PresenceNext \/ WorkerNext \/ ReportNext

Spec == Init /\ [][Next]_vars

(* The tasks of a session go on and keys expire.  No session has to end: one *)
(* that the device has replaced on another worker is not closed, and lasts   *)
(* as long as its client answers the pings.                                  *)
Fairness ==
  /\ \A a \in Sessions : WF_vars(SessionStep(a))
  /\ WF_vars(Expire)

FairSpec == Spec /\ Fairness

-----------------------------------------------------------------------------
(* Correctness *)

(* "Which worker instance holds the device's socket right now": the record  *)
(* names the worker of the device's newest session as long as that lasts,   *)
(* whenever earlier sessions end and wherever they are.  Exempt are a       *)
(* session whose record was not written or renewed, and one that was        *)
(* announced while an earlier one had a command of its own on the way.      *)
NewestIsVisible ==
  \A a \in Sessions \ hidden : (at[a] = "live" /\ Newest(a)) => presence = worker[a]

Stale(w) == presence = w /\ process[w] = "over"

(* A record that names a worker that crashed or was shut down goes away,    *)
(* whatever the sessions were doing with it when the worker ended, unless   *)
(* from then on the device always has a session somewhere, whose heartbeats *)
(* renew the record whatever it says: then it may name the dead worker for  *)
(* as long as the device is connected, and not "expire within 60 s".       *)
StaleGoesAway ==
  \A w \in Workers :
    Stale(w) ~> (presence # w \/ [](\E a \in Sessions : at[a] = "live"))

(* "This is the real delivery count": the total is the sum of the shards,   *)
(* and the count of a shard that is there is what its broadcast reached,    *)
(* although reports come in any order, fail, or die with their worker.      *)
CountsAddUp ==
  /\ stats.total = MapThenSumSet(LAMBDA s : stats.shard[s], DOMAIN stats.shard)
  /\ \A s \in DOMAIN stats.shard : stats.shard[s] = fanned[s]

(* "A dashboard that reads too slowly only loses its own events (it is told *)
(* how many)": what it got and what it was told it missed is all there was  *)
(* since it subscribed, each event once and in order.                       *)
DashboardAccounts ==
  \A d \in Dashboards :
    LET v == dash[d]
    IN  /\ Len(v.got) + v.missed = v.next - 1 - v.since
        /\ \E read \in [DOMAIN v.got -> (v.since + 1)..(v.next - 1)] :
             /\ \A i, j \in DOMAIN v.got : i < j => read[i] < read[j]
             /\ \A i \in DOMAIN v.got : v.got[i] = log[read[i]]
=============================================================================
