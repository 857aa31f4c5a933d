------------------------- MODULE OperatorViewProofs -------------------------
(***************************************************************************)
(* What OperatorView's runs check of a few sessions, shards and events,    *)
(* proved for any number of them.                                          *)
(***************************************************************************)
EXTENDS OperatorView, Induction

-----------------------------------------------------------------------------
(* Presence *)

Stages == {"none", "entered", "live", "looking", "deleting", "over"}

PresenceType ==
  /\ at \in [Sessions -> Stages]
  /\ worker \in [Sessions -> Workers \cup {Nobody}]
  /\ \A a \in Sessions : IF at[a] = "none" THEN worker[a] = Nobody ELSE worker[a] \in Workers
  /\ current \in [Workers -> Int]

(* Sessions are numbered as they register *)
Numbered == \A a, b \in Sessions : (b < a /\ at[a] # "none") => at[b] # "none"

(* A worker's registry holds the latest session that registered there, if any *)
CurrentIsLatest ==
  \A a \in Sessions : (at[a] # "none" /\ current[worker[a]] # 0) => a <= current[worker[a]]

(* No earlier session has a command on the way that could hide the newest:  *)
(* one that looks at the record does so from another worker                 *)
EarlierAreSafe ==
  \A a \in Sessions \ hidden : (at[a] = "live" /\ Newest(a)) =>
    \A b \in Sessions : b < a =>
      /\ at[b] \notin {"entered", "deleting"}
      /\ at[b] = "looking" => worker[b] # worker[a]

PresenceInv ==
  PresenceType /\ Numbered /\ CurrentIsLatest /\ EarlierAreSafe /\ NewestIsVisible

LEMMA PresenceInit == Init => PresenceInv
BY NobodyAssumption DEF Init, PresenceInv, PresenceType, Stages, Numbered, CurrentIsLatest,
   EarlierAreSafe, NewestIsVisible

(* Only the sessions, the registries and the record matter *)
LEMMA PresenceUnchanged ==
  ASSUME PresenceInv, UNCHANGED presenceVars
  PROVE  PresenceInv'
BY DEF presenceVars, PresenceInv, PresenceType, Numbered, CurrentIsLatest, EarlierAreSafe,
   NewestIsVisible, Newest

LEMMA PresenceEnter ==
  ASSUME PresenceInv, NEW a \in Sessions, NEW w \in Workers, Enter(a, w)
  PROVE  PresenceInv'
<1>1. /\ at[a] = "none" /\ at' = [at EXCEPT ![a] = "entered"]
      /\ worker' = [worker EXCEPT ![a] = w]
      /\ current' = [current EXCEPT ![w] = a]
      /\ presence' = presence /\ hidden' = hidden
      /\ \A b \in Sessions : b < a => at[b] # "none"
  BY ViewBounds DEF Enter, Step, Sessions
<1>2. \A b \in Sessions : at[b] # "none" => b < a
  BY <1>1, ViewBounds DEF PresenceInv, PresenceType, Numbered, Sessions
<1>3. PresenceType'
  BY <1>1 DEF PresenceInv, PresenceType, Stages, Sessions
<1>4. Numbered'
  BY <1>1, <1>2 DEF PresenceInv, PresenceType, Numbered, Sessions
<1>5. CurrentIsLatest'
  BY <1>1, <1>2, ViewBounds DEF PresenceInv, PresenceType, CurrentIsLatest, Sessions
<1>6. \A b \in Sessions : ~(at'[b] = "live" /\ Newest(b)')
  <2>. SUFFICES ASSUME NEW b \in Sessions, at'[b] = "live"
                PROVE  ~Newest(b)'
    OBVIOUS
  <2>1. at[b] = "live" /\ at'[a] = "entered"
    BY <1>1 DEF PresenceInv, PresenceType
  <2>2. b < a
    BY <1>2, <2>1
  <2>. QED  BY <2>1, <2>2 DEF Newest, Sessions
<1>. QED  BY <1>3, <1>4, <1>5, <1>6 DEF PresenceInv, EarlierAreSafe, NewestIsVisible

(* A step that moves one session past "none" and leaves the registries *)
LEMMA PresenceMoves ==
  ASSUME PresenceInv, NEW a \in Sessions, NEW to \in Stages \ {"none"},
         at[a] # "none", at' = [at EXCEPT ![a] = to],
         UNCHANGED <<worker, current>>
  PROVE  /\ PresenceType' /\ Numbered' /\ CurrentIsLatest'
         /\ \A b \in Sessions : Newest(b)' => Newest(b)
BY DEF PresenceInv, PresenceType, Numbered, CurrentIsLatest, Newest, Sessions

LEMMA PresenceAnnounce ==
  ASSUME PresenceInv, NEW a \in Sessions, Announce(a)
  PROVE  PresenceInv'
<1>1. /\ at[a] = "entered" /\ at' = [at EXCEPT ![a] = "live"]
      /\ presence' = worker[a] /\ worker' = worker /\ current' = current
      /\ hidden \subseteq hidden'
      /\ (\E b \in Sessions : b < a /\ at[b] \in {"entered", "looking", "deleting"}) => a \in hidden'
  BY ViewBounds DEF Announce, Step, Sessions
<1>2. PresenceType' /\ Numbered' /\ CurrentIsLatest' /\ \A b \in Sessions : Newest(b)' => Newest(b)
  BY <1>1, PresenceMoves DEF Stages
<1>3. ASSUME NEW b \in Sessions \ hidden', at'[b] = "live", Newest(b)', b # a
      PROVE  FALSE
  <2>1. at[b] = "live" /\ b \in Sessions \ hidden /\ Newest(b)
    BY <1>1, <1>2, <1>3 DEF PresenceInv, PresenceType
  <2>2. CASE a < b
    BY <1>1, <2>1, <2>2 DEF PresenceInv, EarlierAreSafe
  <2>3. CASE b < a
    BY <1>1, <2>1, <2>3 DEF Newest
  <2>. QED  BY <1>3, <2>2, <2>3 DEF Sessions
<1>4. NewestIsVisible'
  BY <1>1, <1>3 DEF NewestIsVisible
<1>5. EarlierAreSafe'
  <2>. SUFFICES ASSUME a \notin hidden', NEW b \in Sessions, b < a
                PROVE  at'[b] \notin {"entered", "deleting"} /\ at'[b] # "looking"
    BY <1>3 DEF EarlierAreSafe
  <2>. QED  BY <1>1 DEF PresenceInv, PresenceType, Sessions
<1>. QED  BY <1>2, <1>4, <1>5 DEF PresenceInv

LEMMA PresenceAnnounceFails ==
  ASSUME PresenceInv, NEW a \in Sessions, AnnounceFails(a)
  PROVE  PresenceInv'
<1>1. /\ at[a] = "entered" /\ at' = [at EXCEPT ![a] = "live"]
      /\ worker' = worker /\ current' = current
      /\ hidden' = hidden \cup {a}
  BY DEF AnnounceFails, Step
<1>2. PresenceType' /\ Numbered' /\ CurrentIsLatest' /\ \A b \in Sessions : Newest(b)' => Newest(b)
  BY <1>1, PresenceMoves DEF Stages
<1>3. ASSUME NEW b \in Sessions \ hidden', at'[b] = "live", Newest(b)'
      PROVE  FALSE
  <2>1. at[b] = "live" /\ b \in Sessions \ hidden /\ Newest(b) /\ b # a
    BY <1>1, <1>2, <1>3 DEF PresenceInv, PresenceType
  <2>2. CASE a < b
    BY <1>1, <2>1, <2>2 DEF PresenceInv, EarlierAreSafe
  <2>3. CASE b < a
    BY <1>1, <2>1, <2>3 DEF Newest
  <2>. QED  BY <2>1, <2>2, <2>3 DEF Sessions
<1>. QED  BY <1>2, <1>3 DEF PresenceInv, NewestIsVisible, EarlierAreSafe

(* A session that leaves "live" or goes on after it cannot hide the newest, *)
(* as long as it does not touch the record of another                       *)
LEMMA PresenceLeaves ==
  ASSUME PresenceInv, PresenceType', Numbered', CurrentIsLatest',
         NEW a \in Sessions, NEW to \in {"looking", "deleting", "over"},
         at[a] # "none", at' = [at EXCEPT ![a] = to],
         UNCHANGED <<worker, hidden>>,
         \A b \in Sessions \ hidden : (a < b /\ at[b] = "live" /\ Newest(b)) =>
           /\ to # "deleting"
           /\ to = "looking" => worker[a] # worker[b]
           /\ presence' = presence,
         presence' # presence => at[a] # "live"
  PROVE  PresenceInv'
<1>1. ASSUME NEW b \in Sessions \ hidden', at'[b] = "live", Newest(b)'
      PROVE  /\ at[b] = "live" /\ b \in Sessions \ hidden /\ Newest(b) /\ a < b
  BY <1>1 DEF PresenceInv, PresenceType, Newest, Sessions
<1>2. NewestIsVisible'
  BY <1>1 DEF PresenceInv, NewestIsVisible
<1>3. EarlierAreSafe'
  BY <1>1 DEF PresenceInv, PresenceType, EarlierAreSafe
<1>. QED  BY <1>2, <1>3 DEF PresenceInv

LEMMA PresenceEnd ==
  ASSUME PresenceInv, NEW a \in Sessions, End(a)
  PROVE  PresenceInv'
<1>. DEFINE to == IF current[worker[a]] = a THEN "looking" ELSE "over"
<1>1. /\ at[a] = "live" /\ at' = [at EXCEPT ![a] = to]
      /\ current' = [current EXCEPT ![worker[a]] = IF @ = a THEN 0 ELSE @]
      /\ worker' = worker /\ presence' = presence /\ hidden' = hidden
  BY DEF End, Step
<1>2. PresenceType' /\ Numbered' /\ CurrentIsLatest'
  BY <1>1 DEF PresenceInv, PresenceType, Numbered, CurrentIsLatest, Stages, Sessions
<1>3. ASSUME NEW b \in Sessions \ hidden, a < b, at[b] = "live"
      PROVE  to = "looking" => worker[a] # worker[b]
  BY <1>1, <1>3 DEF PresenceInv, CurrentIsLatest, Sessions
<1>. QED  BY <1>1, <1>2, <1>3, PresenceLeaves

LEMMA PresenceLook ==
  ASSUME PresenceInv, NEW a \in Sessions, Look(a)
  PROVE  PresenceInv'
<1>. DEFINE to == IF Ours(a) THEN "deleting" ELSE "over"
<1>1. /\ at[a] = "looking" /\ at' = [at EXCEPT ![a] = to]
      /\ UNCHANGED <<worker, current, presence, hidden>>
  BY DEF Look, Step
<1>2. PresenceType' /\ Numbered' /\ CurrentIsLatest'
  BY <1>1, PresenceMoves DEF Stages
<1>3. ASSUME NEW b \in Sessions \ hidden, a < b, at[b] = "live", Newest(b)
      PROVE  to = "over"
  BY <1>1, <1>3 DEF PresenceInv, EarlierAreSafe, NewestIsVisible, Ours
<1>. QED  BY <1>1, <1>2, <1>3, PresenceLeaves

LEMMA PresenceDelete ==
  ASSUME PresenceInv, NEW a \in Sessions, Delete(a) \/ LeaveRecord(a)
  PROVE  PresenceInv'
<1>1. /\ at[a] \in {"looking", "deleting"} /\ at' = [at EXCEPT ![a] = "over"]
      /\ UNCHANGED <<worker, current, hidden>>
      /\ at[a] = "looking" => presence' = presence
      /\ presence' \in {presence, Nobody}
  BY DEF Delete, LeaveRecord, Step
<1>2. PresenceType' /\ Numbered' /\ CurrentIsLatest'
  BY <1>1, PresenceMoves DEF Stages
<1>3. ASSUME NEW b \in Sessions \ hidden, a < b, at[b] = "live", Newest(b)
      PROVE  presence' = presence
  BY <1>1, <1>3 DEF PresenceInv, EarlierAreSafe
<1>. QED  BY <1>1, <1>2, <1>3, PresenceLeaves

LEMMA PresenceTimes ==
  ASSUME PresenceInv, Expire \/ Lapse
  PROVE  PresenceInv'
<1>1. /\ UNCHANGED <<at, worker, current>>
      /\ hidden \subseteq hidden'
      /\ \A a \in Sessions : at[a] = "live" => a \in hidden'
  BY DEF Expire, Lapse, Attended
<1>2. PresenceType' /\ Numbered' /\ CurrentIsLatest'
  BY <1>1 DEF PresenceInv, PresenceType, Numbered, CurrentIsLatest
<1>. QED  BY <1>1, <1>2 DEF PresenceInv, NewestIsVisible, EarlierAreSafe

LEMMA PresenceWorker ==
  ASSUME PresenceInv, NEW w \in Workers, Drain(w) \/ Die(w)
  PROVE  PresenceInv'
<1>1. /\ \A a \in Sessions : at'[a] = at[a] \/ (at[a] # "none" /\ at'[a] = "over")
      /\ at' \in [Sessions -> Stages]
      /\ current' = [current EXCEPT ![w] = 0]
      /\ UNCHANGED <<worker, presence, hidden>>
  BY NobodyAssumption DEF Drain, Die, PresenceInv, PresenceType, Stages
<1>2. PresenceType' /\ Numbered' /\ CurrentIsLatest'
  BY <1>1 DEF PresenceInv, PresenceType, Numbered, CurrentIsLatest, Stages
<1>3. ASSUME NEW b \in Sessions, at'[b] = "live", Newest(b)'
      PROVE  at[b] = "live" /\ Newest(b)
  BY <1>1, <1>3 DEF Newest
<1>4. NewestIsVisible' /\ EarlierAreSafe'
  BY <1>1, <1>3 DEF PresenceInv, NewestIsVisible, EarlierAreSafe
<1>. QED  BY <1>2, <1>4 DEF PresenceInv

LEMMA PresenceHolds == Spec => []PresenceInv
<1>1. ASSUME PresenceInv, [Next]_vars
      PROVE  PresenceInv'
  <2>1. CASE PresenceNext
    BY <1>1, <2>1, PresenceEnter, PresenceAnnounce, PresenceAnnounceFails, PresenceEnd, PresenceLook,
       PresenceDelete, PresenceTimes DEF PresenceNext, SessionStep
  <2>2. CASE WorkerNext
    BY <1>1, <2>2, PresenceWorker DEF WorkerNext
  <2>3. CASE ReportNext
    <3>1. UNCHANGED presenceVars
      BY <2>3 DEF ReportNext, OnAlert, Record, RecordFails, Publish, PublishFails, StatsExpire,
         Follow, Subscribe, Stream, CloseStream
    <3>. QED  BY <1>1, <3>1, PresenceUnchanged
  <2>4. CASE UNCHANGED vars
    BY <1>1, <2>4, PresenceUnchanged DEF vars, presenceVars
  <2>. QED  BY <1>1, <2>1, <2>2, <2>3, <2>4 DEF Next
<1>. QED  BY <1>1, PresenceInit, PTL DEF Spec

(* "Which worker instance holds the device's socket right now", for any     *)
(* number of sessions and workers: however the ends of earlier sessions,    *)
(* shutdowns and crashes interleave with handle_socket, the record names    *)
(* the worker of the newest session, if that is not exempt.                 *)
THEOREM NewestStaysVisible == Spec => []NewestIsVisible
BY PresenceHolds, PTL DEF PresenceInv

-----------------------------------------------------------------------------
(* Delivery statistics *)

Fields == stats.shard

(* The second half of CountsAddUp: the count of a shard that is there is    *)
(* what its broadcast reached                                               *)
CountIsReal == \A s \in DOMAIN Fields : Fields[s] = fanned[s]

(* A count is there only after the one record of the shard's report *)
CountInv ==
  /\ report \in [Shards -> {"none", "recording", "publishing", "over"}]
  /\ fanned \in [Shards -> Nat]
  /\ \A s \in DOMAIN Fields : s \in Shards /\ report[s] \in {"publishing", "over"}
  /\ CountIsReal
  /\ Fields \in [DOMAIN Fields -> Nat] /\ IsFiniteSet(DOMAIN Fields)
  /\ stats.total = Total(Fields)

LEMMA NoCounts ==
  /\ DOMAIN NoStats.shard = {} /\ IsFiniteSet({}) /\ NoStats.shard \in [{} -> Nat]
  /\ NoStats.total = Total(NoStats.shard)
<1>1. NoStats.shard = <<>> /\ DOMAIN NoStats.shard = {} /\ NoStats.total = 0
  BY DEF NoStats
<1>2. NoStats.shard \in [{} -> Nat]
  BY <1>1
<1>. QED  BY <1>1, <1>2, FS_EmptySet, NoTotal

LEMMA CountInit == Init => CountInv
BY NoCounts DEF Init, CountInv, CountIsReal, Fields

LEMMA CountUnchanged ==
  ASSUME CountInv, UNCHANGED reportVars
  PROVE  CountInv'
BY DEF reportVars, CountInv, CountIsReal, Fields

(* The transaction adds the count of a shard that has no field yet *)
LEMMA AddedOnce ==
  ASSUME CountInv, NEW s \in Shards, report[s] = "recording"
  PROVE  LET f == Added(s, fanned[s]).shard
         IN  /\ f = [t \in DOMAIN f |-> f[t]] /\ DOMAIN f = DOMAIN Fields \cup {s}
             /\ f[s] = fanned[s] /\ s \notin DOMAIN Fields
             /\ \A t \in DOMAIN Fields : f[t] = Fields[t]
             /\ Added(s, fanned[s]).total = stats.total + fanned[s]
<1>1. s \notin DOMAIN Fields
  BY DEF CountInv
<1>2. \A t \in DOMAIN Fields : t # s /\ Fields[t] \in Nat
  BY <1>1 DEF CountInv, CountIsReal
<1>3. fanned[s] \in Nat
  BY DEF CountInv
<1>. QED  BY <1>1, <1>2, <1>3 DEF Added, Fields

LEMMA CountRecord ==
  ASSUME CountInv, NEW s \in Shards, Record(s) \/ RecordFails(s)
  PROVE  CountInv'
<1>1. /\ report[s] = "recording" /\ report' = [report EXCEPT ![s] = "publishing"]
      /\ fanned' = fanned
      /\ stats' = stats \/ stats' = Added(s, fanned[s])
  BY DEF Record, RecordFails, Report
<1>2. CASE stats' = stats
  BY <1>1, <1>2 DEF CountInv, CountIsReal, Fields
<1>3. CASE stats' = Added(s, fanned[s])
  <2>. DEFINE D == DOMAIN Fields
              h == Added(s, fanned[s]).shard
  <2>1. /\ h = [t \in DOMAIN h |-> h[t]] /\ DOMAIN h = D \cup {s}
        /\ h[s] = fanned[s] /\ s \notin D
        /\ \A t \in D : h[t] = Fields[t]
        /\ Added(s, fanned[s]).total = stats.total + fanned[s]
    BY <1>1, AddedOnce
  <2>2. \A t \in D : Fields[t] \in Nat /\ fanned[s] \in Nat
    BY DEF CountInv, CountIsReal
  <2>3. h \in [D \cup {s} -> Nat]
    <3>1. \A t \in D \cup {s} : h[t] \in Nat
      BY <2>1, <2>2 DEF CountInv
    <3>. HIDE DEF h
    <3>. QED  BY <2>1, <3>1
  <2>4. Fields' = h /\ stats'.total = stats.total + fanned[s]
    BY <1>3, <2>1 DEF Fields
  <2>5. IsFiniteSet(D \cup {s}) /\ IsFiniteSet(D) /\ stats.total = Total(Fields)
    BY FS_AddElement DEF CountInv
  <2>6. Fields \in [D -> Nat]
    BY <2>2 DEF CountInv
  <2>. HIDE DEF D, h
  <2>7. Total(h) = Total(Fields) + h[s]
    BY <2>1, <2>3, <2>5, <2>6, TotalGrows
  <2>8. IsFiniteSet(DOMAIN Fields') /\ stats'.total = Total(Fields')
    BY <2>1, <2>4, <2>5, <2>7
  <2>. QED  BY <1>1, <2>1, <2>3, <2>4, <2>8 DEF CountInv, CountIsReal, D
<1>. QED  BY <1>1, <1>2, <1>3

LEMMA CountHolds == Spec => []CountInv
<1>1. ASSUME CountInv, [Next]_vars
      PROVE  CountInv'
  <2>1. CASE PresenceNext
    <3>1. UNCHANGED reportVars
      BY <2>1 DEF PresenceNext, SessionStep, Enter, Announce, AnnounceFails, End, Look, Delete,
         LeaveRecord, Expire, Lapse
    <3>. QED  BY <1>1, <3>1, CountUnchanged
  <2>2. CASE WorkerNext
    <3>1. PICK w \in Workers : Drain(w) \/ Die(w)
      BY <2>2 DEF WorkerNext
    <3>2. CASE Drain(w)
      BY <1>1, <3>2, CountUnchanged DEF Drain
    <3>3. CASE Die(w)
      BY <1>1, <3>3 DEF Die, CountInv, CountIsReal, Fields
    <3>. QED  BY <3>1, <3>2, <3>3
  <2>3. ASSUME NEW s \in Shards, NEW n \in 0..MaxSockets, OnAlert(s, n)
        PROVE  CountInv'
    BY <1>1, <2>3, ViewBounds DEF OnAlert, Report, CountInv, CountIsReal, Fields
  <2>4. ASSUME NEW s \in Shards, Publish(s) \/ PublishFails(s)
        PROVE  CountInv'
    BY <1>1, <2>4 DEF Publish, PublishFails, Report, CountInv, CountIsReal, Fields
  <2>5. CASE StatsExpire
    <3>1. stats' = NoStats /\ report' = report /\ fanned' = fanned
      BY <2>5 DEF StatsExpire
    <3>. QED  BY <1>1, <3>1, NoCounts DEF CountInv, CountIsReal, Fields
  <2>6. ASSUME NEW d \in Dashboards, Subscribe(d) \/ Stream(d) \/ CloseStream(d)
        PROVE  CountInv'
    BY <1>1, <2>6, CountUnchanged DEF Subscribe, Stream, CloseStream
  <2>7. CASE Follow
    BY <1>1, <2>7, CountUnchanged DEF Follow
  <2>8. CASE UNCHANGED vars
    BY <1>1, <2>8, CountUnchanged DEF vars, reportVars
  <2>. QED
    BY <1>1, <2>1, <2>2, <2>3, <2>4, <2>5, <2>6, <2>7, <2>8, CountRecord DEF Next, ReportNext
<1>. QED  BY <1>1, CountInit, PTL DEF Spec

(* "This is the real delivery count", for any number of shards: whatever    *)
(* fails, expires or dies between on_alert and AlertStatsStore::record, a   *)
(* shard that has a field has the count of its one broadcast, never a part  *)
(* of it or twice that, and the total is the sum of these counts.           *)
THEOREM CountsAlwaysAddUp == Spec => []CountsAddUp
<1>1. ASSUME CountInv PROVE CountsAddUp
  <2>1. stats.total = Total(stats.shard)
    BY <1>1 DEF CountInv, Fields
  <2>2. stats.total = MapThenSumSet(LAMBDA s : stats.shard[s], DOMAIN stats.shard)
    BY <2>1 DEF Total
  <2>3. \A s \in DOMAIN stats.shard : stats.shard[s] = fanned[s]
    BY <1>1 DEF CountInv, CountIsReal, Fields
  <2>. QED  BY <2>2, <2>3 DEF CountsAddUp
<1>. QED  BY <1>1, CountHolds, PTL

-----------------------------------------------------------------------------
(* Dashboards *)

IsStream(v) ==
  /\ DOMAIN v = {"on", "since", "next", "got", "missed"}
  /\ v.since \in Nat /\ v.next \in Nat /\ v.missed \in Nat
  /\ v.got \in Seq(Shards)

DashType ==
  /\ log \in Seq(Shards)
  /\ DOMAIN dash = Dashboards
  /\ \A d \in Dashboards : IsStream(dash[d])

(* A stream has read what it says, and nothing that is not there *)
Within == \A d \in Dashboards : dash[d].since < dash[d].next /\ dash[d].next <= Len(log) + 1

(* DashboardAccounts of one stream v over the events of l *)
Reads(v, l, read) ==
  /\ read \in [DOMAIN v.got -> (v.since + 1)..(v.next - 1)]
  /\ \A i, j \in DOMAIN v.got : i < j => read[i] < read[j]
  /\ \A i \in DOMAIN v.got : v.got[i] = l[read[i]]

Accounts(v, l) ==
  /\ Len(v.got) + v.missed = v.next - 1 - v.since
  /\ \E read \in [DOMAIN v.got -> (v.since + 1)..(v.next - 1)] : Reads(v, l, read)

DashInv == DashType /\ Within /\ \A d \in Dashboards : Accounts(dash[d], log)

LEMMA AccountsBy ==
  ASSUME NEW v, NEW l, NEW read \in [DOMAIN v.got -> (v.since + 1)..(v.next - 1)],
         Len(v.got) + v.missed = v.next - 1 - v.since, Reads(v, l, read)
  PROVE  Accounts(v, l)
BY Zenon DEF Accounts

LEMMA NoDashAccounts ==
  ASSUME NEW v, NEW l, v.got = <<>>, v.missed = 0, v.since \in Nat, v.next = v.since + 1
  PROVE  Accounts(v, l)
<1>1. DOMAIN v.got = {} /\ Len(v.got) = 0
  OBVIOUS
<1>. DEFINE read == [i \in DOMAIN v.got |-> 0]
<1>2. read \in [DOMAIN v.got -> (v.since + 1)..(v.next - 1)]
  BY <1>1
<1>3. Reads(v, l, read)
  BY <1>1, <1>2 DEF Reads
<1>4. Len(v.got) + v.missed = v.next - 1 - v.since
  BY <1>1
<1>. HIDE DEF read
<1>. QED  BY <1>2, <1>3, <1>4, AccountsBy

LEMMA DashInit == Init => DashInv
<1>. SUFFICES ASSUME Init PROVE DashInv
  OBVIOUS
<1>1. log = <<>> /\ DOMAIN dash = Dashboards /\ \A d \in Dashboards : dash[d] = NoDash
  BY DEF Init
<1>2. IsStream(NoDash)
  BY DEF NoDash, IsStream
<1>3. Accounts(NoDash, log)
  BY NoDashAccounts DEF NoDash
<1>4. Within
  BY <1>1 DEF NoDash, Within
<1>. QED  BY <1>1, <1>2, <1>3, <1>4 DEF DashInv, DashType

LEMMA DashUnchanged ==
  ASSUME DashInv, UNCHANGED <<log, dash>>
  PROVE  DashInv'
BY DEF DashInv, DashType, Within

(* What a stream has read stays where it is *)
LEMMA DashPublish ==
  ASSUME DashInv, NEW s \in Shards, log' = Append(log, s), dash' = dash
  PROVE  DashInv'
<1>1. DashType' /\ Len(log') = Len(log) + 1 /\ \A i \in 1..Len(log) : log'[i] = log[i]
  BY DEF DashInv, DashType
<1>2. Within'
  BY <1>1 DEF DashInv, DashType, IsStream, Within
<1>3. ASSUME NEW d \in Dashboards
      PROVE  Accounts(dash'[d], log')
  <2>1. PICK read \in [DOMAIN dash[d].got -> (dash[d].since + 1)..(dash[d].next - 1)] :
          Reads(dash[d], log, read)
    BY DEF DashInv, Accounts
  <2>2. (dash[d].since + 1)..(dash[d].next - 1) \subseteq 1..Len(log)
    BY DEF DashInv, DashType, IsStream, Within
  <2>3. Reads(dash[d], log', read)
    BY <1>1, <2>1, <2>2 DEF Reads
  <2>. QED  BY <2>1, <2>3 DEF DashInv, Accounts
<1>. QED  BY <1>1, <1>2, <1>3 DEF DashInv

(* A stream that lags is set to an event the channel still keeps *)
LEMMA OldestIsKept ==
  ASSUME DashType
  PROVE  Oldest \in Nat /\ Oldest >= 1 /\ (Oldest > 1 => Oldest <= Len(log))
<1>. DEFINE n == Len(log) - Capacity + 1
<1>1. n \in Int /\ n <= Len(log)
  BY CapacityAssumption DEF DashType
<1>. HIDE DEF n
<1>2. \E x \in {1, n} : \A y \in {1, n} : x >= y
  BY <1>1
<1>3. Max({1, n}) \in {1, n} /\ Max({1, n}) >= 1
  BY <1>1, <1>2 DEF Max
<1>4. Oldest = Max({1, n})
  BY DEF Oldest, n
<1>. QED  BY <1>1, <1>3, <1>4

(* The stream of one dashboard is replaced by another *)
LEMMA DashReplace ==
  ASSUME DashInv, NEW d \in Dashboards,
         NEW v, IsStream(v),
         v.since < v.next, v.next <= Len(log) + 1, Accounts(v, log),
         dash' = [dash EXCEPT ![d] = v], log' = log
  PROVE  DashInv'
BY DEF DashInv, DashType, Within

LEMMA DashStream ==
  ASSUME DashInv, NEW d \in Dashboards, Stream(d)
  PROVE  DashInv'
<1>. DEFINE u == dash[d]
            n == u.next
            lagged == [u EXCEPT !.missed = u.missed + (Oldest - n), !.next = Oldest]
            read1 == [u EXCEPT !.got = Append(u.got, log[n]), !.next = n + 1]
<1>1. /\ IsStream(u)
      /\ n \in 1..Len(log) /\ u.since < n /\ log \in Seq(Shards) /\ log[n] \in Shards
      /\ Accounts(u, log)
  BY DEF Stream, DashInv, DashType, IsStream, Within
<1>2. PICK read \in [DOMAIN u.got -> (u.since + 1)..(n - 1)] : Reads(u, log, read)
  BY <1>1 DEF Accounts
<1>3. Len(u.got) + u.missed = n - 1 - u.since
  BY <1>1 DEF Accounts
<1>4. CASE n < Oldest
  <2>1. dash' = [dash EXCEPT ![d] = lagged] /\ log' = log
    BY <1>4 DEF Stream
  <2>2. Oldest \in Nat /\ Oldest <= Len(log)
    BY <1>1, <1>4, OldestIsKept DEF DashInv
  <2>3. /\ IsStream(lagged)
        /\ lagged.since = u.since /\ lagged.next = Oldest /\ lagged.got = u.got
        /\ lagged.missed = u.missed + (Oldest - n)
    BY <1>1, <1>4, <2>2 DEF IsStream
  <2>. HIDE DEF lagged, u, n
  <2>4. (u.since + 1)..(n - 1) \subseteq (u.since + 1)..(Oldest - 1)
    BY <1>1, <1>4, <2>2
  <2>5. read \in [DOMAIN u.got -> (u.since + 1)..(Oldest - 1)] /\ Reads(lagged, log, read)
    BY <1>2, <2>3, <2>4 DEF Reads, n
  <2>6. lagged.since < lagged.next /\ lagged.next <= Len(log) + 1
    BY <1>1, <1>4, <2>2, <2>3 DEF IsStream
  <2>7. Len(lagged.got) + lagged.missed = lagged.next - 1 - lagged.since
    <3>. DEFINE got == Len(u.got)
                missed == u.missed
                since == u.since
                oldest == Oldest
    <3>1. got \in Nat /\ missed \in Nat /\ since \in Nat /\ n \in Nat /\ oldest \in Nat
      BY <1>1, <2>2 DEF IsStream
    <3>2. got + missed = n - 1 - since
      BY <1>3
    <3>3. /\ Len(lagged.got) = got /\ lagged.missed = missed + (oldest - n)
          /\ lagged.next = oldest /\ lagged.since = since
      BY <2>3
    <3>. HIDE DEF got, missed, since, oldest
    <3>4. got + (missed + (oldest - n)) = oldest - 1 - since
      BY <3>1, <3>2
    <3>. QED  BY <3>3, <3>4
  <2>8. Accounts(lagged, log)
    BY <2>3, <2>5, <2>7, AccountsBy
  <2>. QED  BY <2>1, <2>3, <2>6, <2>8, DashReplace
<1>5. CASE ~(n < Oldest)
  <2>1. dash' = [dash EXCEPT ![d] = read1] /\ log' = log
    BY <1>5 DEF Stream
  <2>2. /\ IsStream(read1)
        /\ read1.since = u.since /\ read1.next = n + 1 /\ read1.got = Append(u.got, log[n])
        /\ read1.missed = u.missed
    BY <1>1 DEF IsStream
  <2>. DEFINE k == Len(u.got)
              more == [i \in 1..(k + 1) |-> IF i = k + 1 THEN n ELSE read[i]]
  <2>3. /\ k \in Nat /\ DOMAIN u.got = 1..k
        /\ Len(read1.got) = k + 1 /\ DOMAIN read1.got = 1..(k + 1)
        /\ read1.got[k + 1] = log[n]
        /\ \A i \in 1..k : read1.got[i] = u.got[i]
    BY <1>1, <2>2
  <2>. HIDE DEF read1, u, n, k
  <2>4. \A i \in 1..k : read[i] \in (u.since + 1)..(n - 1)
    BY <1>2, <2>3
  <2>5. more \in [1..(k + 1) -> (u.since + 1)..n]
    BY <1>1, <2>3, <2>4 DEF n, IsStream
  <2>6. ASSUME NEW i \in 1..(k + 1), NEW j \in 1..(k + 1), i < j
        PROVE  more[i] < more[j]
    <3>1. i \in 1..k
      BY <2>3, <2>6
    <3>2. CASE j = k + 1
      BY <1>1, <2>3, <2>4, <3>1, <3>2 DEF n, IsStream
    <3>3. CASE j \in 1..k
      <4>1. more[i] = read[i] /\ more[j] = read[j]
        BY <2>3, <3>1, <3>3
      <4>2. read[i] < read[j]
        BY <1>2, <2>3, <2>6, <3>1, <3>3 DEF Reads
      <4>. QED  BY <4>1, <4>2
    <3>. QED  BY <2>3, <3>2, <3>3
  <2>7. ASSUME NEW i \in 1..(k + 1)
        PROVE  read1.got[i] = log[more[i]]
    <3>1. CASE i = k + 1
      BY <2>3, <3>1
    <3>2. CASE i \in 1..k
      BY <1>2, <2>3, <3>2 DEF Reads
    <3>. QED  BY <2>3, <3>1, <3>2
  <2>8. more \in [DOMAIN read1.got -> (read1.since + 1)..(read1.next - 1)]
    BY <1>1, <2>2, <2>3, <2>5
  <2>9. Reads(read1, log, more)
    BY <2>3, <2>6, <2>7, <2>8 DEF Reads
  <2>10. read1.since < read1.next /\ read1.next <= Len(log) + 1
    BY <1>1, <2>2 DEF IsStream, n
  <2>11. Len(read1.got) + read1.missed = read1.next - 1 - read1.since
    <3>1. k \in Nat /\ u.missed \in Nat /\ u.since \in Nat /\ n \in Nat
      BY <1>1, <2>3 DEF IsStream
    <3>2. k + u.missed = n - 1 - u.since
      BY <1>3 DEF k
    <3>3. /\ Len(read1.got) = k + 1 /\ read1.missed = u.missed
          /\ read1.next = n + 1 /\ read1.since = u.since
      BY <2>2, <2>3
    <3>. QED  BY <3>1, <3>2, <3>3
  <2>. HIDE DEF more
  <2>12. Accounts(read1, log)
    BY <2>8, <2>9, <2>11, AccountsBy
  <2>. QED  BY <2>1, <2>2, <2>10, <2>12, DashReplace
<1>. QED  BY <1>4, <1>5

LEMMA DashOpen ==
  ASSUME DashInv, NEW d \in Dashboards, Subscribe(d) \/ CloseStream(d)
  PROVE  DashInv'
<1>. DEFINE fresh == [NoDash EXCEPT !.on = TRUE, !.since = Len(log), !.next = Len(log) + 1]
<1>1. Len(log) \in Nat
  BY DEF DashInv, DashType
<1>2. CASE Subscribe(d)
  <2>1. dash' = [dash EXCEPT ![d] = fresh] /\ log' = log
    BY <1>2 DEF Subscribe
  <2>2. /\ IsStream(fresh)
        /\ fresh.since = Len(log) /\ fresh.next = Len(log) + 1
        /\ fresh.got = <<>> /\ fresh.missed = 0
    BY <1>1 DEF NoDash, IsStream
  <2>. HIDE DEF fresh
  <2>3. Accounts(fresh, log)
    BY <1>1, <2>2, NoDashAccounts
  <2>4. fresh.since < fresh.next /\ fresh.next <= Len(log) + 1
    BY <1>1, <2>2
  <2>. QED  BY <2>1, <2>2, <2>3, <2>4, DashReplace
<1>3. CASE CloseStream(d)
  <2>1. dash' = [dash EXCEPT ![d] = NoDash] /\ log' = log
    BY <1>3 DEF CloseStream
  <2>2. /\ IsStream(NoDash)
        /\ NoDash.since = 0 /\ NoDash.next = 1
        /\ NoDash.got = <<>> /\ NoDash.missed = 0
    BY DEF NoDash, IsStream
  <2>3. Accounts(NoDash, log)
    BY <2>2, NoDashAccounts
  <2>4. NoDash.since < NoDash.next /\ NoDash.next <= Len(log) + 1
    BY <1>1, <2>2
  <2>. QED  BY <2>1, <2>2, <2>3, <2>4, DashReplace
<1>. QED  BY <1>2, <1>3

LEMMA DashHolds == Spec => []DashInv
<1>1. ASSUME DashInv, [Next]_vars
      PROVE  DashInv'
  <2>1. CASE PresenceNext
    <3>1. UNCHANGED dashVars
      BY <2>1 DEF PresenceNext, SessionStep, Enter, Announce, AnnounceFails, End, Look, Delete,
         LeaveRecord, Expire, Lapse
    <3>. QED  BY <1>1, <3>1, DashUnchanged DEF dashVars
  <2>2. CASE WorkerNext
    BY <1>1, <2>2, DashUnchanged DEF WorkerNext, Drain, Die, dashVars
  <2>3. ASSUME NEW s \in Shards, NEW n \in 0..MaxSockets, OnAlert(s, n)
        PROVE  DashInv'
    BY <1>1, <2>3, DashUnchanged DEF OnAlert, dashVars
  <2>4. ASSUME NEW s \in Shards, Record(s) \/ RecordFails(s) \/ PublishFails(s)
        PROVE  DashInv'
    BY <1>1, <2>4, DashUnchanged DEF Record, RecordFails, PublishFails, dashVars
  <2>5. ASSUME NEW s \in Shards, Publish(s)
        PROVE  DashInv'
    BY <1>1, <2>5, DashUnchanged, DashPublish DEF Publish
  <2>6. CASE StatsExpire \/ Follow
    BY <1>1, <2>6, DashUnchanged DEF StatsExpire, Follow, dashVars
  <2>7. CASE UNCHANGED vars
    BY <1>1, <2>7, DashUnchanged DEF vars
  <2>. QED
    BY <1>1, <2>1, <2>2, <2>3, <2>4, <2>5, <2>6, <2>7, DashStream, DashOpen DEF Next, ReportNext
<1>. QED  BY <1>1, DashInit, PTL DEF Spec

(* "A dashboard that reads too slowly only loses its own events (it is told *)
(* how many)", for any capacity of the channel and any number of events and *)
(* dashboards: dashboard.rs shows or counts every event since subscribe.    *)
THEOREM DashboardsAccount == Spec => []DashboardAccounts
<1>1. DashInv => DashboardAccounts
  BY DEF DashInv, Accounts, Reads, DashboardAccounts
<1>. QED  BY <1>1, DashHolds, PTL
=============================================================================
