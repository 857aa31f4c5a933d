----------------------------- MODULE ShardLease -----------------------------
(***************************************************************************)
(* Shard ownership: the leases in Redis (crates/infra/src/redis.rs,        *)
(* ShardRegistry with CLAIM_LUA and RELEASE_LUA) and the fan-out workers   *)
(* that claim, renew and release them (crates/fanout-worker/src/lease.rs,  *)
(* driven by lib.rs and main.rs).                                          *)
(*                                                                         *)
(* A worker is named by its public URL, the value it writes into a key, so *)
(* a process that is started again is the same worker to Redis.  A call is *)
(* three things: the request is out ("sent"), the script runs in Redis     *)
(* ("yes"/"no"), the answer is handled.  A caller that gets an error, is   *)
(* aborted or dies leaves a request behind that Redis may still run later. *)
(***************************************************************************)
EXTENDS Integers, Sequences, FiniteSets

CONSTANTS
  Workers,    \* worker URLs
  Shards,     \* geohash prefixes
  Prefixes,   \* FANOUT_WORKER_SHARD_PREFIXES of each worker, parsed
  TTL,        \* SHARD_LEASE_TTL_SECS, in ticks
  Crashable,  \* the workers whose process may be killed
  Punctual,   \* does a sweep start on time and take less than a tick?
  DataLoss,   \* may Redis lose its data?
  MaxLate,    \* bound: ticks of lateness the refresher catches up on
  MaxOrphans  \* bound: requests without a caller, at any time

ASSUME PrefixesAssumption ==
  /\ Prefixes \in [Workers -> Seq(Shards)]
  /\ \A w \in Workers : Prefixes[w] # <<>>
ASSUME TTLAssumption == TTL \in Nat /\ TTL >= 3
ASSUME LeaseConstants ==
  /\ Crashable \subseteq Workers
  /\ Punctual \in BOOLEAN
  /\ DataLoss \in BOOLEAN
  /\ MaxLate \in Nat
  /\ MaxOrphans \in Nat

Nobody == "nobody"
ASSUME NobodyAssumption == Nobody \notin Workers

VARIABLES
  owner,    \* the value of each shard's key, Nobody when there is no key
  ttl,      \* what is left of the key's time to live
  status,   \* what each worker's process is doing
  call,     \* its Redis call
  i, last,  \* the prefix the loop is at, and the last one it goes to
  ok,       \* all_held of a sweep; of a release: every call so far was answered
  healthy,  \* the flag behind /ready
  due,      \* ticks until the refresher's next sweep; negative when it is late
  orphans,  \* requests whose caller is gone
  age,      \* history: time since the start of the last sweep that renewed all
  begun,    \* history: time since the start of the sweep under way
  misses,   \* history: failed sweeps in a row, counted up to two
  doubt,    \* history: <<worker, shard>> whose last call was not answered
  robbed    \* history: workers that lost a lease to a late release of an earlier
            \* process of theirs, until their next sweep is over

redisVars == <<owner, ttl, orphans>>
callVars == <<call, i, last, ok>>
historyVars == <<age, begun, misses, doubt, robbed>>
vars == <<owner, ttl, status, call, i, last, ok, healthy, due, orphans,
          age, begun, misses, doubt, robbed>>

Claiming == {"acquiring", "sweeping"}
Releasing == {"backingOut", "releasing"}
Running(w) == status[w] \in {"serving", "sweeping"}
Down(w) == status[w] \in {"down", "released"}

Owned(w) == {Prefixes[w][k] : k \in DOMAIN Prefixes[w]}
Current(w) == Prefixes[w][i[w]]

(* Mutant: the leases are renewed once per TTL *)
EveryTTL == TTL

(* The refresher's period *)
Every == IF TTL \div 3 > 1 THEN TTL \div 3 ELSE 1

Requests == {"claim", "release"} \X Workers \X Shards

TypeOK ==
  /\ owner \in [Shards -> Workers \cup {Nobody}]
  /\ ttl \in [Shards -> 0..TTL]
  /\ \A s \in Shards : (ttl[s] = 0) <=> (owner[s] = Nobody)
  /\ status \in [Workers -> {"down", "released", "serving"} \cup Claiming \cup Releasing]
  /\ call \in [Workers -> {"none", "sent", "yes", "no"}]
  /\ i \in [Workers -> Nat]
  /\ last \in [Workers -> Nat]
  /\ \A w \in Workers :
       IF status[w] \in Claiming \cup Releasing
       THEN call[w] # "none" /\ 1 <= i[w] /\ i[w] <= last[w] /\ last[w] <= Len(Prefixes[w])
       ELSE call[w] = "none" /\ i[w] = 0 /\ last[w] = 0
  /\ ok \in [Workers -> BOOLEAN]
  /\ healthy \in [Workers -> BOOLEAN]
  /\ due \in [Workers -> Int]
  /\ orphans \subseteq Requests
  /\ age \in [Workers -> 0..TTL]
  /\ begun \in [Workers -> 0..TTL]
  /\ misses \in [Workers -> 0..2]
  /\ doubt \subseteq Workers \X Shards
  /\ robbed \subseteq Workers

Init ==
  /\ owner = [s \in Shards |-> Nobody]
  /\ ttl = [s \in Shards |-> 0]
  /\ status = [w \in Workers |-> "down"]
  /\ call = [w \in Workers |-> "none"]
  /\ i = [w \in Workers |-> 0]
  /\ last = [w \in Workers |-> 0]
  /\ ok = [w \in Workers |-> FALSE]
  /\ healthy = [w \in Workers |-> FALSE]
  /\ due = [w \in Workers |-> 0]
  /\ orphans = {}
  /\ age = [w \in Workers |-> TTL]
  /\ begun = [w \in Workers |-> TTL]
  /\ misses = [w \in Workers |-> 0]
  /\ doubt = {}
  /\ robbed = {}

-----------------------------------------------------------------------------
(* The scripts, each one atomic step in Redis *)

(* Mutant: the script always answers 1 *)
MayClaimAny(w, s) == TRUE

MayClaim(w, s) == owner[s] \in {Nobody, w}

(* Mutant: SET without EX *)
ClaimForever(w, s) ==
  IF MayClaim(w, s)
  THEN owner' = [owner EXCEPT ![s] = w] /\ UNCHANGED ttl
  ELSE UNCHANGED <<owner, ttl>>

(* Mutant: SET without looking at the holder *)
ClaimUnchecked(w, s) ==
  /\ owner' = [owner EXCEPT ![s] = w]
  /\ ttl' = [ttl EXCEPT ![s] = TTL]

ClaimLua(w, s) ==
  IF MayClaim(w, s)
  THEN /\ owner' = [owner EXCEPT ![s] = w]
       /\ ttl' = [ttl EXCEPT ![s] = TTL]
  ELSE UNCHANGED <<owner, ttl>>

ReleaseLua(w, s) ==
  IF owner[s] = w
  THEN /\ owner' = [owner EXCEPT ![s] = Nobody]
       /\ ttl' = [ttl EXCEPT ![s] = 0]
  ELSE UNCHANGED <<owner, ttl>>

(* The script of the call worker w is waiting for *)
Script(w, s) ==
  /\ call[w] = "sent"
  /\ s = Current(w)
  /\ IF status[w] \in Claiming
     THEN /\ ClaimLua(w, s)
          /\ call' = [call EXCEPT ![w] = IF MayClaim(w, s) THEN "yes" ELSE "no"]
          /\ UNCHANGED doubt
     ELSE /\ ReleaseLua(w, s)
          /\ call' = [call EXCEPT ![w] = "yes"]
          /\ doubt' = IF <<"claim", w, s>> \in orphans THEN doubt ELSE doubt \ {<<w, s>>}
  /\ UNCHANGED <<status, i, last, ok, healthy, due, orphans, age, begun, misses, robbed>>

-----------------------------------------------------------------------------
(* Steps of a worker's loops over its prefixes *)

(* Worker w makes its next call of a loop that is doing `what` *)
Loop(w, what, from, to) ==
  /\ status' = [status EXCEPT ![w] = what]
  /\ call' = [call EXCEPT ![w] = "sent"]
  /\ i' = [i EXCEPT ![w] = from]
  /\ last' = [last EXCEPT ![w] = to]

(* The loop is over *)
Settle(w, what) ==
  /\ status' = [status EXCEPT ![w] = what]
  /\ call' = [call EXCEPT ![w] = "none"]
  /\ i' = [i EXCEPT ![w] = 0]
  /\ last' = [last EXCEPT ![w] = 0]
  /\ ok' = [ok EXCEPT ![w] = FALSE]

(* The request worker w is waiting for *)
Pending(w) ==
  <<IF status[w] \in Claiming THEN "claim" ELSE "release", w, Current(w)>>

(* The caller stops waiting; what it sent may run later, if it did not yet *)
Abandon(w) ==
  IF call[w] = "sent" /\ Cardinality(orphans) < MaxOrphans
  THEN orphans' \in {orphans, orphans \cup {Pending(w)}}
  ELSE UNCHANGED orphans

Answered(w) == call[w] \in {"yes", "no"}

(* No lease counts as renewed, by the last sweep or by the one under way *)
Void(w) ==
  /\ age' = [age EXCEPT ![w] = TTL]
  /\ begun' = [begun EXCEPT ![w] = TTL]
  /\ misses' = [misses EXCEPT ![w] = 0]

-----------------------------------------------------------------------------
(* acquire_all, called once by build_state *)

Start(w) ==
  /\ Down(w)
  /\ Loop(w, "acquiring", 1, Len(Prefixes[w]))
  /\ ok' = [ok EXCEPT ![w] = TRUE]
  /\ begun' = [begun EXCEPT ![w] = 0]
  /\ misses' = [misses EXCEPT ![w] = 0]
  /\ robbed' = robbed \ {w}
  /\ UNCHANGED <<redisVars, healthy, due, age, doubt>>

(* Mutant: what was claimed before the conflict is kept *)
BackOutKeeps(w, clean) == Settle(w, IF clean THEN "released" ELSE "down")

(* The claims before prefix i are released again, then the process exits *)
BackOut(w, clean) ==
  IF i[w] = 1 THEN Settle(w, IF clean THEN "released" ELSE "down")
              ELSE /\ Loop(w, "backingOut", 1, i[w] - 1)
                   /\ ok' = [ok EXCEPT ![w] = clean]

AcquireWon(w) ==
  /\ status[w] = "acquiring"
  /\ call[w] = "yes"
  /\ IF i[w] < last[w]
     THEN /\ Loop(w, "acquiring", i[w] + 1, last[w])
          /\ UNCHANGED <<ok, healthy, due, age, begun>>
     ELSE /\ Settle(w, "serving")
          /\ healthy' = [healthy EXCEPT ![w] = TRUE]
          /\ due' = [due EXCEPT ![w] = Every]
          /\ age' = [age EXCEPT ![w] = begun[w]]
          /\ begun' = [begun EXCEPT ![w] = TTL]
  /\ UNCHANGED <<redisVars, misses, doubt, robbed>>

AcquireConflict(w) ==
  /\ status[w] = "acquiring"
  /\ call[w] = "no"
  /\ BackOut(w, TRUE)
  /\ Void(w)
  /\ UNCHANGED <<redisVars, healthy, due, doubt, robbed>>

AcquireError(w) ==
  /\ status[w] = "acquiring"
  /\ Abandon(w)
  /\ BackOut(w, FALSE)
  /\ Void(w)
  /\ doubt' = doubt \cup {<<w, Current(w)>>}
  /\ UNCHANGED <<owner, ttl, healthy, due, robbed>>

-----------------------------------------------------------------------------
(* The refresher: refresh_once on every tick of its interval.  The interval *)
(* catches up on the ticks it missed.                                       *)

(* Mutant: a worker that lost a lease stops renewing *)
SweepBeginHealthy(w) ==
  /\ healthy[w]
  /\ status[w] = "serving"
  /\ due[w] <= 0
  /\ due' = [due EXCEPT ![w] = @ + Every]
  /\ Loop(w, "sweeping", 1, Len(Prefixes[w]))
  /\ ok' = [ok EXCEPT ![w] = TRUE]
  /\ begun' = [begun EXCEPT ![w] = 0]
  /\ UNCHANGED <<redisVars, healthy, age, misses, doubt, robbed>>

SweepBegin(w) ==
  /\ status[w] = "serving"
  /\ due[w] <= 0
  /\ due' = [due EXCEPT ![w] = @ + Every]
  /\ Loop(w, "sweeping", 1, Len(Prefixes[w]))
  /\ ok' = [ok EXCEPT ![w] = TRUE]
  /\ begun' = [begun EXCEPT ![w] = 0]
  /\ UNCHANGED <<redisVars, healthy, age, misses, doubt, robbed>>

OneMore(n) == IF n < 2 THEN n + 1 ELSE 2

(* Does the sweep that is over count?  Not when it took a whole TTL, or lost *)
(* on the way what it had renewed.                                           *)
Counts(w) == begun[w] < TTL

(* A renewal is answered or fails, and the loop goes on with the next prefix *)
SweepGoesOn(w, won) ==
  IF i[w] < last[w]
  THEN /\ Loop(w, "sweeping", i[w] + 1, last[w])
       /\ ok' = [ok EXCEPT ![w] = @ /\ won]
       /\ UNCHANGED <<healthy, age, begun, misses, robbed>>
  ELSE /\ Settle(w, "serving")
       /\ healthy' = [healthy EXCEPT ![w] = ok[w] /\ won]
       /\ age' = [age EXCEPT ![w] = IF ok[w] /\ won THEN begun[w] ELSE @]
       /\ begun' = [begun EXCEPT ![w] = TTL]
       /\ misses' = [misses EXCEPT ![w] = IF ok[w] /\ won /\ Counts(w) THEN 0 ELSE OneMore(@)]
       /\ robbed' = IF Counts(w) THEN robbed \ {w} ELSE robbed

SweepReply(w) ==
  /\ status[w] = "sweeping"
  /\ Answered(w)
  /\ SweepGoesOn(w, call[w] = "yes")
  /\ UNCHANGED <<redisVars, due, doubt>>

SweepError(w) ==
  /\ status[w] = "sweeping"
  /\ Abandon(w)
  /\ SweepGoesOn(w, FALSE)
  /\ doubt' = doubt \cup {<<w, Current(w)>>}
  /\ UNCHANGED <<owner, ttl, due>>

-----------------------------------------------------------------------------
(* Shutdown: the background tasks are aborted, wherever they are, then      *)
(* release_all.  The refresher runs on during the grace period before that. *)
Shutdown(w) ==
  /\ Running(w)
  /\ Abandon(w)
  /\ doubt' = IF status[w] = "sweeping" THEN doubt \cup {<<w, Current(w)>>} ELSE doubt
  /\ healthy' = [healthy EXCEPT ![w] = FALSE]
  /\ Loop(w, "releasing", 1, Len(Prefixes[w]))
  /\ ok' = [ok EXCEPT ![w] = TRUE]
  /\ due' = [due EXCEPT ![w] = 0]
  /\ Void(w)
  /\ UNCHANGED <<owner, ttl, robbed>>

(* release: an answer or an error, and the loop goes on; then the process ends *)
ReleaseGoesOn(w, answered) ==
  /\ status[w] \in Releasing
  /\ IF i[w] < last[w]
     THEN /\ Loop(w, status[w], i[w] + 1, last[w])
          /\ ok' = [ok EXCEPT ![w] = @ /\ answered]
     ELSE Settle(w, IF ok[w] /\ answered THEN "released" ELSE "down")
  /\ UNCHANGED <<owner, ttl, healthy, due, age, begun, misses, robbed>>

ReleaseReply(w) ==
  /\ Answered(w)
  /\ ReleaseGoesOn(w, TRUE)
  /\ UNCHANGED <<orphans, doubt>>

ReleaseError(w) ==
  /\ ReleaseGoesOn(w, FALSE)
  /\ Abandon(w)
  /\ doubt' = doubt \cup {<<w, Current(w)>>}

-----------------------------------------------------------------------------
(* The environment *)

(* The process is killed, or the server fails and main returns early *)
Crash(w) ==
  /\ w \in Crashable
  /\ ~Down(w)
  /\ Abandon(w)
  /\ Settle(w, "down")
  /\ healthy' = [healthy EXCEPT ![w] = FALSE]
  /\ due' = [due EXCEPT ![w] = 0]
  /\ Void(w)
  /\ doubt' = doubt \cup ({w} \X Owned(w))
  /\ UNCHANGED <<owner, ttl, robbed>>

(* A release that a process of w left behind takes the lease of the next one *)
Rob(w) ==
  /\ age' = [age EXCEPT ![w] = TTL]
  /\ begun' = [begun EXCEPT ![w] = TTL]
  /\ misses' = [misses EXCEPT ![w] = 2]
  /\ robbed' = robbed \cup {w}

(* A request without a caller reaches Redis after all, or never does.  No   *)
(* process waits at its start for what an earlier one left behind.          *)
OrphanRuns(r) ==
  /\ r \in orphans
  /\ orphans' = orphans \ {r}
  /\ \/ /\ r[1] = "claim"
        /\ ClaimLua(r[2], r[3])
        /\ UNCHANGED <<age, begun, misses, robbed>>
     \/ /\ r[1] = "release"
        /\ ReleaseLua(r[2], r[3])
        /\ IF owner[r[3]] = r[2] THEN Rob(r[2]) ELSE UNCHANGED <<age, begun, misses, robbed>>
  /\ UNCHANGED <<status, callVars, healthy, due, doubt>>

OrphanLost(r) ==
  /\ r \in orphans
  /\ orphans' = orphans \ {r}
  /\ UNCHANGED <<owner, ttl, status, callVars, healthy, due, historyVars>>

(* Mutant: keys do not expire *)
LeftForever(n) == n

(* What is left of a key's time (EX, EXPIRE) after a tick *)
Left(n) == IF n > 0 THEN n - 1 ELSE 0

Older(n) == IF n < TTL THEN n + 1 ELSE TTL

(* One unit of time: keys get older and expire, and the refresher's interval *)
(* counts down, to at most MaxLate ticks of lateness.                        *)
Tick ==
  /\ Punctual => \A w \in Workers : /\ status[w] \notin Claiming
                                    /\ status[w] = "serving" => due[w] > 0
  /\ ttl' = [s \in Shards |-> Left(ttl[s])]
  /\ owner' = [s \in Shards |-> IF Left(ttl[s]) > 0 THEN owner[s] ELSE Nobody]
  /\ due' = [w \in Workers |-> IF Running(w) /\ due[w] > -MaxLate THEN due[w] - 1 ELSE due[w]]
  /\ age' = [w \in Workers |-> Older(age[w])]
  /\ begun' = [w \in Workers |-> Older(begun[w])]
  /\ doubt' = {p \in doubt : \/ owner'[p[2]] = p[1]
                             \/ <<"claim", p[1], p[2]>> \in orphans}
  /\ UNCHANGED <<status, callVars, healthy, orphans, misses, robbed>>

(* Redis is restarted and comes back empty *)
RedisLosesData ==
  /\ DataLoss
  /\ owner' = [s \in Shards |-> Nobody]
  /\ ttl' = [s \in Shards |-> 0]
  /\ age' = [w \in Workers |-> TTL]
  /\ begun' = [w \in Workers |-> TTL]
  /\ UNCHANGED <<status, callVars, healthy, due, orphans, misses, doubt, robbed>>

-----------------------------------------------------------------------------
WorkerStep(w) ==
  \/ AcquireWon(w) \/ AcquireConflict(w)
  \/ SweepReply(w)
  \/ ReleaseReply(w)

ErrorStep(w) == AcquireError(w) \/ SweepError(w) \/ ReleaseError(w)

Next ==
  \/ \E w \in Workers :
       \/ Start(w) \/ SweepBegin(w) \/ Shutdown(w) \/ Crash(w)
       \/ WorkerStep(w) \/ ErrorStep(w)
       \/ \E s \in Shards : Script(w, s)
  \/ \E r \in Requests : OrphanRuns(r) \/ OrphanLost(r)
  \/ Tick
  \/ RedisLosesData

Spec == Init /\ [][Next]_vars

(* Time passes, tasks are polled, and a call that is made again and again   *)
(* does reach Redis in the end.  Nobody has to start or stop a worker.      *)
Fairness ==
  /\ WF_vars(Tick)
  /\ \A w \in Workers :
       /\ WF_vars(SweepBegin(w))
       /\ WF_vars(WorkerStep(w))
       /\ \A s \in Shards : SF_vars(Script(w, s))

FairSpec == Spec /\ Fairness

-----------------------------------------------------------------------------
(* Correctness *)

(* "A worker owns a shard only while it keeps renewing the lease", the part *)
(* the scripts guarantee: for one TTL after the start of a sweep that       *)
(* renewed every lease, the worker holds all its shards, whoever else tries *)
(* to claim or release them, whichever answers are lost and whatever late   *)
(* requests run.  Only a Redis that lost its data and a release left over   *)
(* from an earlier process of the same worker end it early.                 *)
RenewedIsHeld ==
  \A w \in Workers :
    (Running(w) /\ age[w] < TTL) => \A s \in Owned(w) : owner[s] = w

(* As long as the sweeps run on time and Redis keeps its data, a worker     *)
(* whose /ready says that it holds its leases does hold them, through       *)
(* crashes, failed calls and restarts of it and of all the others; and one  *)
(* sweep that fails, for whatever reason, loses nothing yet.  A worker that *)
(* lost a lease to a release its own earlier process had left behind has it *)
(* back, or says that it has not, when its next sweep is over.              *)
HealthyIsHeld ==
  \A w \in Workers :
    ((healthy[w] /\ w \notin robbed) \/ (Running(w) /\ misses[w] <= 1)) =>
      \A s \in Owned(w) : owner[s] = w

(* What CLAIM_LUA is for: two workers do not both believe that they own a   *)
(* shard, under the same conditions and with the same exception: while a    *)
(* worker is robbed, the two do.                                            *)
BelieveApart ==
  \A v, w \in Workers :
    (v # w /\ healthy[v] /\ healthy[w] /\ {v, w} \cap robbed = {}) =>
      Owned(v) \cap Owned(w) = {}

(* acquire_all is "all or nothing" and release_all gives every shard up: a  *)
(* process that ended holds a shard only if some call about that shard was  *)
(* never answered (or the process was killed), and then only for one TTL.   *)
EndsWithNothing ==
  \A w \in Workers, s \in Shards :
    (Down(w) /\ owner[s] = w) => <<w, s>> \in doubt

Registry == INSTANCE Leases
  WITH Holders <- Workers, Term <- TTL, MayLose <- DataLoss, holder <- owner, left <- ttl

(* "Two workers can never hold the same shard": whatever calls cross, fail, *)
(* run late or run for a process that is gone, a shard goes from one worker *)
(* to another only by way of nobody, when the lease has run its full time   *)
(* since the last renewal or its owner released it.                         *)
RegistryKeepsItsPromise == Registry!Spec

(* "If the process dies, the lease expires on its own": a dead worker does  *)
(* not keep a shard, unless it is started again.                            *)
DeadOwnerExpires ==
  \A w \in Workers, s \in Shards :
    (Down(w) /\ owner[s] = w) ~> (~Down(w) \/ owner[s] # w)

(* "A lease that expired in the meantime (for example Redis was restarted)  *)
(* is claimed again": no shard of a running worker stays without an owner.  *)
LostIsReclaimed ==
  \A w \in Workers : \A s \in Owned(w) :
    (Running(w) /\ owner[s] = Nobody) ~> (~Running(w) \/ owner[s] # Nobody)
=============================================================================
