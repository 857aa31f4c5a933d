---------------------------- MODULE AlertDispatch ----------------------------
(***************************************************************************)
(* Alerts between the coordinator, Postgres and JetStream: the dispatches  *)
(* of alert_dispatch_service.rs, which publish an alert to the shards its  *)
(* circle touches and write the audit trail; the stream that may store a   *)
(* message after its publisher has given up; the alert half of the         *)
(* retention sweep.                                                        *)
(*                                                                         *)
(* The circle is abstracted to the set of shards it is routed to, and the  *)
(* devices of a shard to whether they could be counted.  A dispatch may    *)
(* end between any two of its calls: its client goes away and the handler  *)
(* is dropped.                                                             *)
(***************************************************************************)
EXTENDS Integers, FiniteSets

CONSTANTS
  Shards,
  MaxAlerts,   \* bound: dispatches
  Parallel,    \* MAX_PARALLEL_SHARDS
  BatchSize,   \* BATCH_SIZE
  MaxBatches   \* MAX_BATCHES_PER_SWEEP

ASSUME DispatchBounds == MaxAlerts \in Nat
ASSUME ParallelAssumption == Parallel \in Nat \ {0}
ASSUME SweepAssumption == BatchSize \in Nat \ {0} /\ MaxBatches \in Nat \ {0}

Alerts == 1..MaxAlerts   \* in the order of created_at

Uncounted == -1
Counts == {Uncounted, 0, 1}   \* 0: the count failed; 1: what was counted

VARIABLES
  step,        \* each dispatch
  at,          \* the progress of each dispatch with each shard
  count,       \* what it counted there
  wire,        \* messages on their way to the stream
  stored,      \* the stream
  alerts,      \* rows of the table alerts
  deliveries,  \* rows of the table alert_deliveries, with their count
  age,         \* the alerts up to this one are past their retention
  sweep        \* the retention sweep: is it running, its cutoff, its batches

dispatchVars == <<step, at, count>>
streamVars == <<wire, stored>>
tableVars == <<alerts, deliveries>>
vars == <<step, at, count, wire, stored, alerts, deliveries, age, sweep>>

NoRows == [s \in Shards |-> Uncounted]

(* The values of the variables; a running sweep has done fewer batches than *)
(* MAX_BATCHES_PER_SWEEP.                                                   *)
TypeOK ==
  /\ step \in [Alerts -> {"none", "insert", "publish", "audit", "answered", "gone"}]
  /\ at \in [Alerts -> [Shards -> {"none", "waiting", "sent", "ok", "failed", "counted", "done",
                              "unrecorded"}]]
  /\ count \in [Alerts -> [Shards -> Counts]]
  /\ wire \subseteq Alerts \X Shards /\ stored \subseteq Alerts \X Shards
  /\ alerts \subseteq Alerts
  /\ deliveries \in [Alerts -> [Shards -> Counts]]
  /\ age \in 0..MaxAlerts
  /\ sweep \in [on : BOOLEAN, cutoff : 0..MaxAlerts, batches : 0..(MaxBatches - 1)]

Init ==
  /\ step = [d \in Alerts |-> "none"]
  /\ at = [d \in Alerts |-> [s \in Shards |-> "none"]]
  /\ count = [d \in Alerts |-> NoRows]
  /\ wire = {} /\ stored = {} /\ alerts = {}
  /\ deliveries = [d \in Alerts |-> NoRows]
  /\ age = 0
  /\ sweep = [on |-> FALSE, cutoff |-> 0, batches |-> 0]

Over(d) == step[d] \in {"answered", "gone"}   \* gone: without a result
Progress(d, s, p) == at' = [at EXCEPT ![d][s] = p]
Proceed(d, p) == step' = [step EXCEPT ![d] = p]
Forget(d) ==   \* what a handler knew that ends without an answer
  /\ at' = [at EXCEPT ![d] = [s \in Shards |-> "none"]]
  /\ count' = [count EXCEPT ![d] = NoRows]

-----------------------------------------------------------------------------
(* dispatch *)

(* The circle is routed before anything is saved *)
Begin(d, targets) ==
  /\ step[d] = "none"
  /\ \A e \in 1..(d - 1) : step[e] # "none"
  /\ Proceed(d, "insert")
  /\ at' = [at EXCEPT ![d] = [s \in Shards |-> IF s \in targets THEN "waiting" ELSE "none"]]
  /\ UNCHANGED <<count, streamVars, tableVars, age, sweep>>

(* insert_alert *)
Insert(d) ==
  /\ step[d] = "insert"
  /\ alerts' = alerts \cup {d}
  /\ Proceed(d, "publish")
  /\ UNCHANGED <<at, count, streamVars, deliveries, age, sweep>>

(* Mutant: the error is only logged *)
InsertFailsQuietly(d) ==
  /\ step[d] = "insert"
  /\ Proceed(d, "publish")
  /\ UNCHANGED <<at, count, streamVars, tableVars, age, sweep>>

(* The statement failed, or only its answer is lost *)
InsertFails(d) ==
  /\ step[d] = "insert"
  /\ \/ UNCHANGED alerts
     \/ alerts' = alerts \cup {d}
  /\ Proceed(d, "gone")
  /\ Forget(d)
  /\ UNCHANGED <<streamVars, deliveries, age, sweep>>

(* Mutant: a publish that failed keeps its slot *)
BusyOrFailed(d) == {s \in Shards : at[d][s] \in {"sent", "failed", "counted"}}

(* What buffer_unordered has started and not finished *)
Busy(d) == {s \in Shards : at[d][s] \in {"sent", "counted"}}

HasSlot(d) == Cardinality(Busy(d)) < Parallel

(* publish_durable sends the message, ... *)
Send(d, s) ==
  /\ step[d] = "publish"
  /\ at[d][s] = "waiting"
  /\ HasSlot(d)
  /\ wire' = wire \cup {<<d, s>>}
  /\ Progress(d, s, "sent")
  /\ UNCHANGED <<step, count, stored, tableVars, age, sweep>>

(* Mutant: it does not wait until the message is stored *)
AckOnSend(d, s) ==
  /\ step[d] = "publish"
  /\ at[d][s] = "sent"
  /\ Progress(d, s, "ok")
  /\ UNCHANGED <<step, count, streamVars, tableVars, age, sweep>>

(* ... and waits until it is stored ... *)
Ack(d, s) ==
  /\ step[d] = "publish"
  /\ at[d][s] = "sent"
  /\ <<d, s>> \in stored
  /\ Progress(d, s, "ok")
  /\ UNCHANGED <<step, count, streamVars, tableVars, age, sweep>>

(* ... or until PUBLISH_TIMEOUT, or an error.  Nothing takes the message back *)
GiveUp(d, s) ==
  /\ step[d] = "publish"
  /\ at[d][s] = "sent"
  /\ Progress(d, s, "failed")
  /\ UNCHANGED <<step, count, streamVars, tableVars, age, sweep>>

(* All outcomes are there *)
Collect(d) ==
  /\ step[d] = "publish"
  /\ \A s \in Shards : at[d][s] \in {"none", "ok", "failed"}
  /\ Proceed(d, "audit")
  /\ UNCHANGED <<at, count, streamVars, tableVars, age, sweep>>

(* count_in_shard_and_radius; 0 if it fails *)
Count(d, s, n) ==
  /\ step[d] = "audit"
  /\ at[d][s] = "ok"
  /\ HasSlot(d)
  /\ n # Uncounted
  /\ count' = [count EXCEPT ![d][s] = n]
  /\ Progress(d, s, "counted")
  /\ UNCHANGED <<step, streamVars, tableVars, age, sweep>>

(* Mutant: the count is not in the row *)
RecordNoCount(d, s) ==
  /\ step[d] = "audit"
  /\ at[d][s] = "counted"
  /\ deliveries' = [deliveries EXCEPT ![d][s] = 0]
  /\ Progress(d, s, "done")
  /\ UNCHANGED <<step, count, streamVars, alerts, age, sweep>>

(* The statement: the first row stays; it needs the alert's row *)
WriteRow(d, s) ==
  /\ d \in alerts
  /\ deliveries' = [deliveries EXCEPT ![d][s] = IF @ = Uncounted THEN count[d][s] ELSE @]

(* record_shard_delivery *)
RecordShardDelivery(d, s) ==
  /\ step[d] = "audit"
  /\ at[d][s] = "counted"
  /\ WriteRow(d, s)
  /\ Progress(d, s, "done")
  /\ UNCHANGED <<step, count, streamVars, alerts, age, sweep>>

(* It is reported as failed, and the error logged, also when the statement *)
(* was executed and only its answer is lost                                *)
RecordFails(d, s) ==
  /\ step[d] = "audit"
  /\ at[d][s] = "counted"
  /\ \/ UNCHANGED deliveries
     \/ WriteRow(d, s)
  /\ Progress(d, s, "unrecorded")
  /\ UNCHANGED <<step, count, streamVars, alerts, age, sweep>>

(* summarize, and the answer: 207 with the failed shards, or 200 *)
Answer(d) ==
  /\ step[d] = "audit"
  /\ \A s \in Shards : at[d][s] \in {"none", "done", "unrecorded", "failed"}
  /\ Proceed(d, "answered")
  /\ UNCHANGED <<at, count, streamVars, tableVars, age, sweep>>

(* The client is gone, and with it the handler *)
Gone(d) ==
  /\ step[d] \in {"insert", "publish", "audit"}
  /\ Proceed(d, "gone")
  /\ Forget(d)
  /\ UNCHANGED <<streamVars, tableVars, age, sweep>>

(* The stream stores a message, or it is lost on the way *)
Store(d, s) ==
  /\ <<d, s>> \in wire
  /\ wire' = wire \ {<<d, s>>}
  /\ stored' = stored \cup {<<d, s>>}
  /\ UNCHANGED <<dispatchVars, tableVars, age, sweep>>

Lose(d, s) ==
  /\ <<d, s>> \in wire
  /\ wire' = wire \ {<<d, s>>}
  /\ UNCHANGED <<stored, dispatchVars, tableVars, age, sweep>>

-----------------------------------------------------------------------------
(* The retention sweep, its part for alerts *)

(* Retention is at least a day: the dispatch of the alert is long over, and *)
(* nothing of it is on the wire any more                                    *)
Age ==
  /\ age < MaxAlerts
  /\ Over(age + 1)
  /\ \A s \in Shards : <<age + 1, s>> \notin wire
  /\ age' = age + 1
  /\ UNCHANGED <<dispatchVars, streamVars, tableVars, sweep>>

SweepBegin ==
  /\ ~sweep.on
  /\ sweep' = [on |-> TRUE, cutoff |-> age, batches |-> 0]
  /\ UNCHANGED <<dispatchVars, streamVars, tableVars, age>>

(* Mutant: more than a batch is not purged at all *)
VictimsIfFull ==
  LET past == alerts \cap 1..sweep.cutoff
  IN  IF Cardinality(past) > BatchSize THEN {} ELSE past

(* purge_older_than: the oldest BatchSize *)
Victims ==
  LET past == alerts \cap 1..sweep.cutoff
  IN  {d \in past : Cardinality({e \in past : e < d}) < BatchSize}

(* Mutant: a sweep that runs until there is nothing left *)
LastBatchIfEmpty(n) == n < BatchSize

LastBatch(n) == n < BatchSize \/ sweep.batches + 1 = MaxBatches

(* One statement; the delivery rows go with their alert *)
PurgeBatch ==
  /\ sweep.on
  /\ alerts' = alerts \ Victims
  /\ deliveries' = [d \in Alerts |-> IF d \in Victims THEN NoRows ELSE deliveries[d]]
  /\ sweep' = IF LastBatch(Cardinality(Victims))
              THEN [on |-> FALSE, cutoff |-> 0, batches |-> 0]
              ELSE [sweep EXCEPT !.batches = @ + 1]
  /\ UNCHANGED <<dispatchVars, streamVars, age>>

(* "A failed sweep is logged and retried at the next interval" *)
SweepFails ==
  /\ sweep.on
  /\ sweep' = [on |-> FALSE, cutoff |-> 0, batches |-> 0]
  /\ UNCHANGED <<dispatchVars, streamVars, tableVars, age>>

-----------------------------------------------------------------------------
ShardStep(d, s) ==
  \/ Send(d, s) \/ Ack(d, s) \/ GiveUp(d, s)
  \/ \E n \in Counts : Count(d, s, n)
  \/ RecordShardDelivery(d, s) \/ RecordFails(d, s)

DispatchStep(d) ==
  \/ Insert(d) \/ InsertFails(d) \/ Collect(d) \/ Answer(d)
  \/ \E s \in Shards : ShardStep(d, s)

Next ==
  \/ \E d \in Alerts :
       \/ \E targets \in SUBSET Shards \ {{}} : Begin(d, targets)
       \/ DispatchStep(d) \/ Gone(d)
       \/ \E s \in Shards : Store(d, s) \/ Lose(d, s)
  \/ Age \/ SweepBegin \/ PurgeBatch \/ SweepFails

Spec == Init /\ [][Next]_vars

(* A dispatch goes on, a publish that is not answered times out, sweeps are *)
(* started again and do not fail for ever                                   *)
Fairness ==
  /\ \A d \in Alerts : WF_vars(DispatchStep(d))
  /\ WF_vars(SweepBegin) /\ SF_vars(PurgeBatch)

FairSpec == Spec /\ Fairness

-----------------------------------------------------------------------------
(* Correctness *)

(* What an answered dispatch reports as published was stored, whatever      *)
(* failed or came late; every target is reported, and the audit trail says  *)
(* no more than that.                                                       *)
AnswerIsHonest ==
  \A d \in Alerts, s \in Shards :
    /\ (step[d] = "answered" /\ at[d][s] # "none") =>
         at[d][s] \in {"done", "unrecorded", "failed"}
    /\ at[d][s] \in {"ok", "counted", "done", "unrecorded"} => <<d, s>> \in stored
    /\ deliveries[d][s] # Uncounted => <<d, s>> \in stored /\ d \in alerts

(* Nobody is alerted to something the operators cannot look up: what is on  *)
(* the way or stored has its row in alerts, until its retention has passed. *)
StoredIsKnown == \A m \in wire \cup stored : m[1] \in alerts \/ m[1] <= age

(* GET /alerts/{id} agrees with the answer of POST /alerts.  Until the      *)
(* retention of an answered alert has passed, a shard that was recorded has *)
(* its row; a row, also one whose INSERT was reported as failed and had     *)
(* been executed, is of a shard that was reported as published, and has the *)
(* count that was reported.                                                 *)
DetailsAgree ==
  \A d \in Alerts : (step[d] = "answered" /\ d > age) =>
    \A s \in Shards :
      /\ at[d][s] = "done" => deliveries[d][s] # Uncounted
      /\ deliveries[d][s] # Uncounted =>
           at[d][s] \in {"done", "unrecorded"} /\ deliveries[d][s] = count[d][s]

(* "A fast, visible failure is far better than a silent hang": a dispatch   *)
(* ends, whatever becomes of its messages and however many shards it has.   *)
DispatchEnds == \A d \in Alerts : step[d] = "insert" ~> Over(d)

(* "Carries on at the next interval": an alert past its retention is        *)
(* purged, also when one sweep is not enough for the backlog.               *)
OldGoesAway == \A d \in Alerts : d <= age ~> d \notin alerts
=============================================================================
