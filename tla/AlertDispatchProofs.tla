------------------------ MODULE AlertDispatchProofs ------------------------
(***************************************************************************)
(* Proofs about AlertDispatch, for every set of shards, number of alerts   *)
(* and slots, and size of a sweep.                                         *)
(***************************************************************************)
EXTENDS AlertDispatch, TLAPS

-----------------------------------------------------------------------------
(* The inductive invariant *)

(* Only what is past its retention is swept *)
CutoffIsPast == sweep.cutoff <= age

(* An alert that is past its retention has no dispatch and no message left *)
AgedIsOver ==
  \A d \in Alerts : d <= age => Over(d) /\ \A s \in Shards : <<d, s>> \notin wire

(* A dispatch that publishes has its row *)
PublishingIsKnown == \A d \in Alerts : step[d] \in {"publish", "audit"} => d \in alerts

(* A dispatch that has not begun has done nothing *)
Fresh == \A d \in Alerts : step[d] = "none" => \A s \in Shards : at[d][s] = "none"

(* What the row of a shard with progress p is, when n was counted *)
RowFollows(p, row, n) ==
  /\ p \in {"counted", "done", "unrecorded"} => n # Uncounted
  /\ p = "done" => row = n
  /\ p = "unrecorded" => row \in {n, Uncounted}
  /\ p \notin {"done", "unrecorded"} => row = Uncounted

(* DetailsAgree at every step of a dispatch, until its handler is dropped *)
DetailsFollow ==
  \A d \in Alerts : (step[d] # "gone" /\ d > age) =>
    \A s \in Shards : RowFollows(at[d][s], deliveries[d][s], count[d][s])

Inv ==
  /\ TypeOK /\ CutoffIsPast /\ AgedIsOver /\ PublishingIsKnown /\ Fresh
  /\ AnswerIsHonest /\ StoredIsKnown /\ DetailsFollow

(* AnswerIsHonest for one shard of one alert *)
Honest(d, s) ==
  /\ (step[d] = "answered" /\ at[d][s] # "none") => at[d][s] \in {"done", "unrecorded", "failed"}
  /\ at[d][s] \in {"ok", "counted", "done", "unrecorded"} => <<d, s>> \in stored
  /\ deliveries[d][s] # Uncounted => <<d, s>> \in stored /\ d \in alerts

-----------------------------------------------------------------------------
(* Types *)

Progresses == {"none", "waiting", "sent", "ok", "failed", "counted", "done", "unrecorded"}

(* What Progress, Proceed and Forget do to the variables *)
LEMMA ProgressTyped ==
  ASSUME TypeOK, NEW d \in Alerts, NEW s \in Shards, NEW p \in Progresses, Progress(d, s, p)
  PROVE  /\ at' \in [Alerts -> [Shards -> Progresses]]
         /\ at'[d][s] = p
         /\ \A e \in Alerts, t \in Shards : (e # d \/ t # s) => at'[e][t] = at[e][t]
BY DEF TypeOK, Progress, Progresses

LEMMA ProceedTyped ==
  ASSUME TypeOK, NEW d \in Alerts, NEW p \in {"insert", "publish", "audit", "answered", "gone"},
         Proceed(d, p)
  PROVE  /\ step' \in [Alerts -> {"none", "insert", "publish", "audit", "answered", "gone"}]
         /\ step'[d] = p
         /\ \A e \in Alerts : e # d => step'[e] = step[e]
BY DEF TypeOK, Proceed

LEMMA ForgetTyped ==
  ASSUME TypeOK, NEW d \in Alerts, Forget(d)
  PROVE  /\ at' \in [Alerts -> [Shards -> Progresses]]
         /\ count' \in [Alerts -> [Shards -> Counts]]
         /\ \A s \in Shards : at'[d][s] = "none" /\ count'[d][s] = Uncounted
         /\ \A e \in Alerts : e # d => at'[e] = at[e] /\ count'[e] = count[e]
BY DEF TypeOK, Forget, NoRows, Counts, Progresses

(* A sweep takes what is in the table and before its cutoff *)
LEMMA VictimsArePast ==
  ASSUME TypeOK
  PROVE  Victims \subseteq alerts /\ \A d \in Victims : d \in Alerts /\ d <= sweep.cutoff
BY DEF TypeOK, Victims, Alerts

LEMMA InitHolds == Init => Inv
<1> SUFFICES ASSUME Init PROVE Inv
  OBVIOUS
<1>1. TypeOK
  BY DispatchBounds, SweepAssumption DEF Init, TypeOK, NoRows, Counts
<1> QED
  BY <1>1, DispatchBounds DEF Init, Inv, CutoffIsPast, AgedIsOver, PublishingIsKnown, Fresh,
     AnswerIsHonest, StoredIsKnown, DetailsFollow, RowFollows, Alerts, NoRows

-----------------------------------------------------------------------------
(* Every step keeps the invariant *)

LEMMA BeginKeeps ==
  ASSUME Inv, NEW d \in Alerts, NEW targets \in SUBSET Shards, Begin(d, targets)
  PROVE  Inv'
<1>1. /\ at' \in [Alerts -> [Shards -> Progresses]]
      /\ \A s \in Shards : at'[d][s] \in {"waiting", "none"}
      /\ \A e \in Alerts : e # d => at'[e] = at[e]
  BY DEF Inv, Begin, TypeOK, Progresses
<1>2. /\ step' \in [Alerts -> {"none", "insert", "publish", "audit", "answered", "gone"}]
      /\ step[d] = "none" /\ step'[d] = "insert"
      /\ \A e \in Alerts : e # d => step'[e] = step[e]
  BY ProceedTyped DEF Inv, Begin
<1>3. UNCHANGED <<count, wire, stored, alerts, deliveries, age, sweep>>
  BY DEF Begin, streamVars, tableVars
<1>4. TypeOK'
  BY <1>1, <1>2, <1>3 DEF Inv, TypeOK, Progresses
<1>5. AgedIsOver' /\ PublishingIsKnown' /\ Fresh' /\ CutoffIsPast' /\ StoredIsKnown'
  BY <1>1, <1>2, <1>3
     DEF Inv, AgedIsOver, Over, PublishingIsKnown, Fresh, CutoffIsPast, StoredIsKnown
<1>6. AnswerIsHonest'
  BY <1>1, <1>2, <1>3 DEF Inv, AnswerIsHonest
<1>7. DetailsFollow'
  BY <1>1, <1>2, <1>3 DEF Inv, DetailsFollow, RowFollows, Fresh
<1> QED
  BY <1>4, <1>5, <1>6, <1>7 DEF Inv

(* Progress of a dispatch as a whole: the row, the outcomes, the answer *)
LEMMA ProceedKeeps ==
  ASSUME Inv, NEW d \in Alerts, Insert(d) \/ Collect(d) \/ Answer(d)
  PROVE  Inv'
<1>1. PICK p \in {"publish", "audit", "answered"} :
        /\ Proceed(d, p)
        /\ p = "audit" => step[d] = "publish"
        /\ p = "publish" => d \in alerts'
        /\ p = "answered" =>
             \A s \in Shards : at[d][s] \in {"none", "done", "unrecorded", "failed"}
  BY DEF Insert, Collect, Answer
<1>2. /\ step' \in [Alerts -> {"none", "insert", "publish", "audit", "answered", "gone"}]
      /\ step'[d] = p
      /\ \A e \in Alerts : e # d => step'[e] = step[e]
  BY <1>1, ProceedTyped DEF Inv
<1>3. /\ UNCHANGED <<at, count, wire, stored, deliveries, age, sweep>>
      /\ alerts \subseteq alerts' /\ alerts' \subseteq Alerts
      /\ step[d] \in {"insert", "publish", "audit"}
  BY DEF Inv, TypeOK, Insert, Collect, Answer, streamVars, tableVars
<1>4. TypeOK'
  BY <1>2, <1>3 DEF Inv, TypeOK
<1>5. AgedIsOver'
  BY <1>2, <1>3 DEF Inv, AgedIsOver, Over
<1>6. PublishingIsKnown' /\ Fresh'
  BY <1>1, <1>2, <1>3 DEF Inv, PublishingIsKnown, Fresh
<1>7. AnswerIsHonest'
  BY <1>1, <1>2, <1>3 DEF Inv, AnswerIsHonest
<1>8. StoredIsKnown' /\ DetailsFollow' /\ CutoffIsPast'
  BY <1>2, <1>3 DEF Inv, StoredIsKnown, DetailsFollow, CutoffIsPast
<1> QED
  BY <1>4, <1>5, <1>6, <1>7, <1>8 DEF Inv

(* A dispatch that ends without an answer *)
LEMMA GoneKeeps ==
  ASSUME Inv, NEW d \in Alerts, InsertFails(d) \/ Gone(d)
  PROVE  Inv'
<1>1. /\ step' \in [Alerts -> {"none", "insert", "publish", "audit", "answered", "gone"}]
      /\ step[d] \in {"insert", "publish", "audit"} /\ step'[d] = "gone"
      /\ \A e \in Alerts : e # d => step'[e] = step[e]
  BY ProceedTyped DEF Inv, InsertFails, Gone
<1>2. /\ at' \in [Alerts -> [Shards -> Progresses]]
      /\ count' \in [Alerts -> [Shards -> Counts]]
      /\ \A s \in Shards : at'[d][s] = "none"
      /\ \A e \in Alerts : e # d => at'[e] = at[e] /\ count'[e] = count[e]
  BY ForgetTyped DEF Inv, InsertFails, Gone
<1>3. /\ UNCHANGED <<wire, stored, deliveries, age, sweep>>
      /\ alerts \subseteq alerts' /\ alerts' \subseteq Alerts
  BY DEF Inv, TypeOK, InsertFails, Gone, streamVars, tableVars
<1>4. TypeOK'
  BY <1>1, <1>2, <1>3 DEF Inv, TypeOK, Progresses
<1>5. AgedIsOver' /\ PublishingIsKnown'
  BY <1>1, <1>3 DEF Inv, AgedIsOver, Over, PublishingIsKnown
<1>8. Fresh'
  BY <1>1, <1>2 DEF Inv, Fresh
<1>6. AnswerIsHonest'
  <2> SUFFICES ASSUME NEW e \in Alerts, NEW s \in Shards PROVE Honest(e, s)'
    BY DEF AnswerIsHonest, Honest
  <2>1. Honest(e, s)
    BY DEF Inv, AnswerIsHonest, Honest
  <2>2. CASE e = d
    <3>1. at'[e][s] = "none" /\ deliveries' = deliveries /\ stored' = stored
      BY <1>2, <1>3, <2>2
    <3> QED
      BY <1>3, <2>1, <3>1 DEF Honest
  <2>3. CASE e # d
    <3>1. step'[e] = step[e] /\ at'[e] = at[e]
      BY <1>1, <1>2, <2>3
    <3> QED
      BY <1>3, <2>1, <3>1 DEF Honest
  <2> QED
    BY <2>2, <2>3
<1>7. StoredIsKnown' /\ DetailsFollow' /\ CutoffIsPast'
  BY <1>1, <1>2, <1>3 DEF Inv, StoredIsKnown, DetailsFollow, CutoffIsPast
<1> QED
  BY <1>4, <1>5, <1>6, <1>7, <1>8 DEF Inv

(* Publishing to one shard *)
LEMMA PublishKeeps ==
  ASSUME Inv, NEW d \in Alerts, NEW s \in Shards, Send(d, s) \/ Ack(d, s) \/ GiveUp(d, s)
  PROVE  Inv'
<1>1. PICK p \in {"sent", "ok", "failed"} :
        Progress(d, s, p) /\ (p = "ok" => <<d, s>> \in stored)
  BY DEF Send, Ack, GiveUp
<1>2. /\ at' \in [Alerts -> [Shards -> Progresses]]
      /\ at'[d][s] = p
      /\ \A e \in Alerts, t \in Shards : (e # d \/ t # s) => at'[e][t] = at[e][t]
  BY <1>1, ProgressTyped DEF Inv, Progresses
<1>3. step[d] = "publish" /\ at[d][s] \in {"waiting", "sent"}
  BY DEF Send, Ack, GiveUp
<1>4. d \in alerts /\ ~(d <= age)
  BY <1>3 DEF Inv, PublishingIsKnown, AgedIsOver, Over
<1>5. /\ wire' \subseteq wire \cup {<<d, s>>}
      /\ UNCHANGED <<step, count, stored, alerts, deliveries, age, sweep>>
  BY DEF Send, Ack, GiveUp, streamVars, tableVars
<1>6. TypeOK'
  BY <1>2, <1>5 DEF Inv, TypeOK, Progresses
<1>7. AgedIsOver' /\ PublishingIsKnown'
  BY <1>4, <1>5 DEF Inv, AgedIsOver, Over, PublishingIsKnown
<1>8. Fresh'
  BY <1>2, <1>3, <1>5 DEF Inv, Fresh
<1>9. AnswerIsHonest'
  BY <1>1, <1>2, <1>3, <1>5 DEF Inv, AnswerIsHonest
<1>10. StoredIsKnown' /\ CutoffIsPast'
  BY <1>4, <1>5 DEF Inv, StoredIsKnown, CutoffIsPast
<1>11. DetailsFollow'
  BY <1>1, <1>2, <1>3, <1>5 DEF Inv, DetailsFollow, RowFollows
<1> QED
  BY <1>6, <1>7, <1>8, <1>9, <1>10, <1>11 DEF Inv

(* Counting and recording one shard *)
LEMMA AuditKeeps ==
  ASSUME Inv, NEW d \in Alerts, NEW s \in Shards,
         \/ \E n \in Counts : Count(d, s, n)
         \/ RecordShardDelivery(d, s)
         \/ RecordFails(d, s)
  PROVE  Inv'
<1>1. /\ step[d] = "audit" /\ at[d][s] \in {"ok", "counted"}
      /\ UNCHANGED <<step, wire, stored, alerts, age, sweep>>
  BY DEF Count, RecordShardDelivery, RecordFails, streamVars, tableVars
<1>2. <<d, s>> \in stored /\ d \in alerts /\ ~(d <= age) /\ d > age
  BY <1>1, DispatchBounds
     DEF Inv, PublishingIsKnown, AgedIsOver, Over, AnswerIsHonest, TypeOK, Alerts
<1>3. /\ deliveries[d][s] = Uncounted
      /\ at[d][s] = "counted" => count[d][s] # Uncounted
  BY <1>1, <1>2 DEF Inv, DetailsFollow, RowFollows
<1>4. PICK p \in {"counted", "done", "unrecorded"} :
        /\ Progress(d, s, p)
        /\ p = "done" => deliveries' = [deliveries EXCEPT ![d][s] = count[d][s]]
        /\ p = "counted" => deliveries' = deliveries
        /\ p = "unrecorded" => \/ deliveries' = deliveries
                              \/ deliveries' = [deliveries EXCEPT ![d][s] = count[d][s]]
        /\ p = "counted" =>
             \E n \in Counts : n # Uncounted /\ count' = [count EXCEPT ![d][s] = n]
        /\ p # "counted" => count' = count /\ at[d][s] = "counted"
  BY <1>3 DEF Count, RecordShardDelivery, RecordFails, WriteRow, tableVars, Inv, TypeOK
<1>5. /\ at' \in [Alerts -> [Shards -> Progresses]]
      /\ at'[d][s] = p
      /\ \A e \in Alerts, t \in Shards : (e # d \/ t # s) => at'[e][t] = at[e][t]
  BY <1>4, ProgressTyped DEF Inv, Progresses
<1>6. /\ count' \in [Alerts -> [Shards -> Counts]]
      /\ \A e \in Alerts, t \in Shards : (e # d \/ t # s) => count'[e][t] = count[e][t]
      /\ count'[d][s] # Uncounted
      /\ p # "counted" => count'[d][s] = count[d][s]
  <2>1. CASE p = "counted"
    <3>1. PICK n \in Counts : n # Uncounted /\ count' = [count EXCEPT ![d][s] = n]
      BY <1>4, <2>1
    <3> QED
      BY <2>1, <3>1 DEF Inv, TypeOK
  <2>2. CASE p # "counted"
    BY <1>3, <1>4, <2>2 DEF Inv, TypeOK
  <2> QED
    BY <2>1, <2>2
<1>7. /\ deliveries' \in [Alerts -> [Shards -> Counts]]
      /\ \A e \in Alerts, t \in Shards : (e # d \/ t # s) => deliveries'[e][t] = deliveries[e][t]
      /\ p = "done" => deliveries'[d][s] = count[d][s]
      /\ p = "counted" => deliveries'[d][s] = Uncounted
      /\ p = "unrecorded" => deliveries'[d][s] \in {count[d][s], Uncounted}
  <2>1. CASE p # "counted" /\ deliveries' = [deliveries EXCEPT ![d][s] = count[d][s]]
    <3>1. count[d][s] \in Counts
      BY DEF Inv, TypeOK
    <3> QED
      BY <2>1, <3>1 DEF Inv, TypeOK
  <2>2. CASE p # "done" /\ deliveries' = deliveries
    BY <1>3, <2>2 DEF Inv, TypeOK
  <2> QED
    BY <1>4, <2>1, <2>2
<1>8. TypeOK'
  BY <1>1, <1>5, <1>6, <1>7 DEF Inv, TypeOK, Progresses
<1>9. AgedIsOver' /\ PublishingIsKnown' /\ StoredIsKnown' /\ CutoffIsPast'
  BY <1>1 DEF Inv, AgedIsOver, Over, PublishingIsKnown, StoredIsKnown, CutoffIsPast
<1>10. Fresh'
  BY <1>1, <1>5 DEF Inv, Fresh
<1>11. AnswerIsHonest'
  <2> SUFFICES ASSUME NEW e \in Alerts, NEW t \in Shards PROVE Honest(e, t)'
    BY DEF AnswerIsHonest, Honest
  <2>1. CASE e = d /\ t = s
    BY <2>1, <1>1, <1>2, <1>5 DEF Honest
  <2>2. CASE e # d \/ t # s
    BY <2>2, <1>1, <1>5, <1>7 DEF Inv, AnswerIsHonest, Honest
  <2> QED
    BY <2>1, <2>2
<1>12. DetailsFollow'
  <2> SUFFICES ASSUME NEW e \in Alerts, NEW t \in Shards, step[e] # "gone", e > age
               PROVE  RowFollows(at'[e][t], deliveries'[e][t], count'[e][t])
    BY <1>1 DEF DetailsFollow
  <2>1. CASE e = d /\ t = s
    BY <2>1, <1>5, <1>6, <1>7 DEF RowFollows
  <2>2. CASE e # d \/ t # s
    BY <2>2, <1>5, <1>6, <1>7 DEF Inv, DetailsFollow
  <2> QED
    BY <2>1, <2>2
<1> QED
  BY <1>8, <1>9, <1>10, <1>11, <1>12 DEF Inv

(* What becomes of a message *)
LEMMA StreamKeeps ==
  ASSUME Inv, NEW d \in Alerts, NEW s \in Shards, Store(d, s) \/ Lose(d, s)
  PROVE  Inv'
<1> USE DEF Inv, Store, Lose, dispatchVars, tableVars
<1>1. TypeOK'
  BY DEF TypeOK
<1>2. AgedIsOver' /\ PublishingIsKnown' /\ Fresh'
  BY DEF AgedIsOver, Over, PublishingIsKnown, Fresh
<1>3. AnswerIsHonest' /\ StoredIsKnown' /\ DetailsFollow'
  BY DEF AnswerIsHonest, StoredIsKnown, DetailsFollow
<1> QED
  BY <1>1, <1>2, <1>3 DEF CutoffIsPast

LEMMA AgeKeeps ==
  ASSUME Inv, Age
  PROVE  Inv'
<1> USE DEF Inv, Age, dispatchVars, streamVars, tableVars
<1>0. age \in Int /\ age' = age + 1 /\ sweep.cutoff \in Int
  BY DispatchBounds DEF TypeOK
<1>1. TypeOK'
  BY DispatchBounds DEF TypeOK
<1>2. AgedIsOver'
  BY <1>0 DEF AgedIsOver, Over, Alerts
<1>3. PublishingIsKnown' /\ Fresh' /\ AnswerIsHonest'
  BY DEF PublishingIsKnown, Fresh, AnswerIsHonest
<1>4. StoredIsKnown' /\ DetailsFollow' /\ CutoffIsPast'
  BY <1>0 DEF StoredIsKnown, DetailsFollow, CutoffIsPast, TypeOK, Alerts
<1> QED
  BY <1>1, <1>2, <1>3, <1>4

LEMMA SweepKeeps ==
  ASSUME Inv, SweepBegin \/ SweepFails
  PROVE  Inv'
<1>1. UNCHANGED <<step, at, count, wire, stored, alerts, deliveries, age>>
  BY DEF SweepBegin, SweepFails, dispatchVars, streamVars, tableVars
<1>2. age \in 0..MaxAlerts /\ 0 \in 0..MaxAlerts /\ 0 \in 0..(MaxBatches - 1)
  BY DispatchBounds, SweepAssumption DEF Inv, TypeOK
<1>3. PICK on \in BOOLEAN, cutoff \in {0, age} :
        sweep' = [on |-> on, cutoff |-> cutoff, batches |-> 0]
  BY Zenon DEF SweepBegin, SweepFails
<1>4. sweep' \in [on : BOOLEAN, cutoff : 0..MaxAlerts, batches : 0..(MaxBatches - 1)]
  BY <1>2, <1>3, Zenon
<1>5. TypeOK'
  BY <1>1, <1>4 DEF Inv, TypeOK
<1>6. CutoffIsPast'
  BY <1>1, <1>2, <1>3 DEF CutoffIsPast
<1>7. AgedIsOver' /\ PublishingIsKnown' /\ Fresh' /\ AnswerIsHonest'
  BY <1>1 DEF Inv, AgedIsOver, Over, PublishingIsKnown, Fresh, AnswerIsHonest
<1>8. StoredIsKnown' /\ DetailsFollow'
  BY <1>1 DEF Inv, StoredIsKnown, DetailsFollow
<1> QED
  BY <1>5, <1>6, <1>7, <1>8 DEF Inv

(* A batch is of alerts past their retention only, so nobody needs them *)
LEMMA PurgeKeeps ==
  ASSUME Inv, PurgeBatch
  PROVE  Inv'
<1> USE DEF Inv, PurgeBatch, dispatchVars, streamVars
<1>1. /\ Victims \subseteq alerts
      /\ \A d \in Victims : d \in Alerts /\ d <= age /\ Over(d)
  BY VictimsArePast, DispatchBounds DEF TypeOK, CutoffIsPast, AgedIsOver, Alerts
<1>2. sweep' \in [on : BOOLEAN, cutoff : 0..MaxAlerts, batches : 0..(MaxBatches - 1)]
  <2>1. CASE LastBatch(Cardinality(Victims))
    BY <2>1, DispatchBounds, SweepAssumption
  <2>2. CASE ~LastBatch(Cardinality(Victims))
    <3>1. sweep.batches \in 0..(MaxBatches - 1) /\ sweep.batches + 1 # MaxBatches
      BY <2>2 DEF LastBatch, TypeOK
    <3>2. sweep.batches + 1 \in 0..(MaxBatches - 1)
      BY <3>1, SweepAssumption
    <3> QED
      BY <2>2, <3>2 DEF TypeOK
  <2> QED
    BY <2>1, <2>2
<1>3. sweep'.cutoff \in {0, sweep.cutoff}
  BY DEF TypeOK
<1>4. /\ deliveries' \in [Alerts -> [Shards -> Counts]]
      /\ \A d \in Alerts \ Victims : deliveries'[d] = deliveries[d]
      /\ \A d \in Victims, s \in Shards : deliveries'[d][s] = Uncounted
  BY <1>1 DEF TypeOK, NoRows, Counts
<1>5. TypeOK'
  BY <1>2, <1>4 DEF TypeOK
<1>6. CutoffIsPast'
  BY <1>3 DEF CutoffIsPast, TypeOK
<1>7. AgedIsOver' /\ PublishingIsKnown' /\ Fresh'
  BY <1>1 DEF AgedIsOver, Over, PublishingIsKnown, Fresh
<1>8. AnswerIsHonest'
  BY <1>1, <1>4 DEF AnswerIsHonest
<1>9. StoredIsKnown' /\ DetailsFollow'
  BY <1>1, <1>4 DEF StoredIsKnown, DetailsFollow, TypeOK, Alerts
<1> QED
  BY <1>5, <1>6, <1>7, <1>8, <1>9

LEMMA StepKeeps == Inv /\ [Next]_vars => Inv'
<1> SUFFICES ASSUME Inv, [Next]_vars PROVE Inv'
  OBVIOUS
<1>1. CASE UNCHANGED vars
  BY <1>1 DEF vars, Inv, TypeOK, CutoffIsPast, AgedIsOver, Over, PublishingIsKnown, Fresh,
     AnswerIsHonest, StoredIsKnown, DetailsFollow
<1>2. CASE Age \/ SweepBegin \/ PurgeBatch \/ SweepFails
  BY <1>2, AgeKeeps, SweepKeeps, PurgeKeeps
<1>3. CASE \E d \in Alerts, s \in Shards : Store(d, s) \/ Lose(d, s)
  BY <1>3, StreamKeeps
<1>4. CASE \E d \in Alerts :
             (\E targets \in SUBSET Shards : Begin(d, targets)) \/ DispatchStep(d) \/ Gone(d)
  BY <1>4, BeginKeeps, GoneKeeps, ProceedKeeps, PublishKeeps, AuditKeeps
     DEF DispatchStep, ShardStep
<1> QED
  BY <1>1, <1>2, <1>3, <1>4 DEF Next

-----------------------------------------------------------------------------
(* The theorems *)

LEMMA Invariance == Spec => []Inv
BY InitHolds, StepKeeps, PTL DEF Spec

(* Every variable keeps its type, the sweep's batches their bound           *)
(* (MAX_BATCHES_PER_SWEEP), with any number of dispatches.                  *)
THEOREM DispatchTypeCorrect == Spec => []TypeOK
BY Invariance, PTL DEF Inv

(* What dispatch reports as published is stored, every target is reported,  *)
(* and an audit row is there only for what was stored.                      *)
THEOREM AnswersAreHonest == Spec => []AnswerIsHonest
BY Invariance, PTL DEF Inv

(* What is published has its row in alerts until retention takes it.        *)
THEOREM NothingUnknownIsStored == Spec => []StoredIsKnown
BY Invariance, PTL DEF Inv

(* The rows that alert_details reads are of shards that dispatch reported   *)
(* as published and have the reported counts, also those whose INSERT lost  *)
(* its answer; none that was recorded is missing.                           *)
THEOREM DetailsAlwaysAgree == Spec => []DetailsAgree
<1>1. Inv => DetailsAgree
  BY DEF Inv, DetailsFollow, RowFollows, DetailsAgree
<1> QED
  BY <1>1, Invariance, PTL
=============================================================================
