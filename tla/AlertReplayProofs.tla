-------------------------- MODULE AlertReplayProofs --------------------------
(***************************************************************************)
(* Proofs about AlertReplay, for any number of alerts and of sessions, any *)
(* capacity of the queues and any limits of the replay.                    *)
(***************************************************************************)
EXTENDS AlertReplay, SequenceTheorems, FiniteSetTheorems, WellFoundedInduction, TLAPS

-----------------------------------------------------------------------------
(* Where sessions are, with or without replay *)

(* An alert is stored once *)
StoredOnce ==
  /\ unsent \cap ToSet(stored) = {}
  /\ \A a \in ToSet(stored) : storedAt[a] >= a

Phases ==
  \A s \in Sessions :
    /\ phase[s] \in {"none", "registered"} =>
         replay[s] = "no" /\ got[s] = {} /\ pending[s] = 0 /\ writing[s] = 0 /\ acked[s] = 0
    /\ phase[s] = "none" => queue[s] = <<>>
    /\ phase[s] \in {"open", "closing", "gone"} => replay[s] # "no"
    /\ phase[s] \in {"closing", "gone"} =>
         replay[s] = "over" /\ queue[s] = <<>>
    /\ phase[s] = "gone" => writing[s] = 0

CurrentIsThere == current # 0 => phase[current] \in {"registered", "open", "closing"}

Base == TypeOK /\ StoredOnce /\ Phases /\ CurrentIsThere

-----------------------------------------------------------------------------
(* Sequences *)

LEMMA Appended ==
  ASSUME NEW S, NEW q \in Seq(S), NEW x \in S, NEW r, r = Append(q, x)
  PROVE  /\ r \in Seq(S) /\ Len(q) \in Nat /\ Len(r) = Len(q) + 1
         /\ DOMAIN q = 1..Len(q) /\ DOMAIN r = 1..(Len(q) + 1)
         /\ \A i \in DOMAIN q : r[i] = q[i]
         /\ r[Len(q) + 1] = x
         /\ ToSet(r) = ToSet(q) \cup {x}
<1>1. /\ r \in Seq(S) /\ Len(q) \in Nat /\ Len(r) = Len(q) + 1
      /\ DOMAIN q = 1..Len(q) /\ DOMAIN r = 1..(Len(q) + 1)
      /\ \A i \in DOMAIN q : r[i] = q[i]
      /\ r[Len(q) + 1] = x
  BY AppendProperties, LenProperties
<1>2. ToSet(r) = ToSet(q) \cup {x}
  BY <1>1 DEF ToSet
<1>. QED  BY <1>1, <1>2

LEMMA Popped ==
  ASSUME NEW S, NEW q \in Seq(S), q # <<>>, NEW r, r = Tail(q)
  PROVE  /\ r \in Seq(S) /\ Len(q) \in Nat \ {0} /\ Len(r) = Len(q) - 1
         /\ DOMAIN q = 1..Len(q) /\ DOMAIN r = 1..(Len(q) - 1)
         /\ \A i \in DOMAIN r : r[i] = q[i + 1]
         /\ Head(q) = q[1] /\ q[1] \in S /\ 1 \in DOMAIN q
         /\ ToSet(r) \subseteq ToSet(q)
         /\ ToSet(q) \subseteq ToSet(r) \cup {q[1]}
<1>1. /\ r \in Seq(S) /\ Len(q) \in Nat \ {0} /\ Len(r) = Len(q) - 1
      /\ DOMAIN q = 1..Len(q) /\ DOMAIN r = 1..(Len(q) - 1)
      /\ \A i \in DOMAIN r : r[i] = q[i + 1]
  BY HeadTailProperties, EmptySeq, LenProperties
<1>2. Head(q) = q[1] /\ q[1] \in S /\ 1 \in DOMAIN q
  BY <1>1, ElementOfSeq
<1>3. \A i \in DOMAIN r : i + 1 \in DOMAIN q
  BY <1>1
<1>4. ToSet(r) \subseteq ToSet(q)
  BY <1>1, <1>3 DEF ToSet
<1>5. \A i \in DOMAIN q : i = 1 \/ (i - 1 \in DOMAIN r /\ q[i] = r[i - 1])
  BY <1>1
<1>6. ASSUME NEW x \in ToSet(q)  PROVE x \in ToSet(r) \cup {q[1]}
  <2>1. PICK i \in DOMAIN q : x = q[i]
    BY DEF ToSet
  <2>. QED  BY <1>5, <2>1 DEF ToSet
<1>. QED  BY <1>1, <1>2, <1>4, <1>6

LEMMA InSeq ==
  ASSUME NEW S, NEW q \in Seq(S)
  PROVE  /\ Len(q) \in Nat /\ DOMAIN q = 1..Len(q)
         /\ \A i \in DOMAIN q : q[i] \in S
         /\ ToSet(q) \subseteq S
<1>1. Len(q) \in Nat /\ DOMAIN q = 1..Len(q) /\ \A i \in DOMAIN q : q[i] \in S
  BY LenProperties, ElementOfSeq
<1>. QED  BY <1>1 DEF ToSet

LEMMA NoSeq == ToSet(<<>>) = {} /\ \A S : <<>> \in Seq(S) /\ Len(<<>>) = 0
<1>1. DOMAIN <<>> = {}
  OBVIOUS
<1>2. ToSet(<<>>) = {}
  BY <1>1 DEF ToSet
<1>. QED  BY <1>2, EmptySeq

-----------------------------------------------------------------------------
(* Types, by the variables they are about *)

PublishOK ==
  /\ made \in 0..MaxAlerts
  /\ unsent \subseteq 1..made
  /\ stored \in Seq(1..made) /\ IsInjective(stored)
  /\ storedAt \in [Alerts -> 0..made]
  /\ up \in BOOLEAN
  /\ wire \in Seq(ToSet(stored))
  /\ StoredOnce

QueueOK ==
  /\ queue \in [Sessions -> Seq(Inside \cup {Done})]
  /\ \A s \in Sessions : Len(queue[s]) <= Capacity

PlanOK ==
  /\ plan \in [Sessions -> SUBSET Inside]
  /\ \A s \in Sessions : Cardinality(plan[s]) <= Limit

SessionOK ==
  /\ skew \in -Skew..Skew
  /\ current \in 0..MaxSessions
  /\ phase \in [Sessions -> {"none", "registered", "open", "closing", "gone"}]
  /\ connected \in [Sessions -> -Skew..(MaxAlerts + Skew)]
  /\ replay \in [Sessions -> {"no", "cursor", "stream", "sending", "over"}]
  /\ since \in [Sessions -> Int]
  /\ got \in [Sessions -> SUBSET Inside]
  /\ settled \subseteq Sessions
  /\ excused \subseteq Alerts /\ cut \subseteq Alerts

AckOK ==
  /\ pending \in [Sessions -> 0..MaxAlerts]
  /\ writing \in [Sessions -> 0..MaxAlerts]
  /\ acked \in [Sessions -> 0..MaxAlerts]
  /\ wrote \in [Sessions -> BOOLEAN]
  /\ stray \subseteq Alerts
  /\ cursor \in 0..MaxAlerts
  /\ polling \subseteq Sessions /\ spoiled \subseteq Sessions

LEMMA TypeParts ==
  TypeOK /\ StoredOnce <=> PublishOK /\ QueueOK /\ PlanOK /\ SessionOK /\ AckOK
BY DEF TypeOK, PublishOK, QueueOK, PlanOK, SessionOK, AckOK

(* What the groups of variables stand for *)
LEMMA PublishSteps ==
  ASSUME Next
  PROVE  \/ Make \/ Unsubscribe \/ Subscribe \/ OnAlert \/ WorkerDies
         \/ \E a \in Alerts, kept \in BOOLEAN : Publish(a, kept)
         \/ UNCHANGED <<made, unsent, stored, storedAt, up, wire>>
BY DEF Next, SessionStep, ReplayStep, publishVars, StrayWrite, Connect, StartTasks,
       SessionEnds, Deregister, ReplayCursor, ReplayStream, ReplaySend, ReplayFails,
       WriterSends, OnAck, LateAck, CursorWritten, CursorWriteFails

LEMMA PublishTyped ==
  ASSUME PublishOK, NEW a \in Alerts, NEW kept \in BOOLEAN, Publish(a, kept)
  PROVE  PublishOK'
<1>1. a \in unsent /\ a \in 1..made /\ made' = made /\ up' = up /\ unsent' = unsent \ {a}
  BY DEF Publish, PublishOK
<1>2. CASE ~kept
  BY <1>1, <1>2 DEF Publish, StoredOnce, PublishOK
<1>3. CASE kept
  <2>0. stored \in Seq(1..made)
    BY DEF PublishOK
  <2>1. stored' = Append(stored, a) /\ storedAt' = [storedAt EXCEPT ![a] = made]
    BY <1>3 DEF Publish
  <2>2. /\ stored' \in Seq(1..made) /\ ToSet(stored') = ToSet(stored) \cup {a}
        /\ DOMAIN stored' = 1..(Len(stored) + 1) /\ DOMAIN stored = 1..Len(stored)
        /\ Len(stored) \in Nat
        /\ \A i \in DOMAIN stored : stored'[i] = stored[i]
        /\ stored'[Len(stored) + 1] = a
    <3>. DEFINE T == 1..made
    <3>1. stored \in Seq(T) /\ a \in T
      BY <1>1, <2>0
    <3>. HIDE DEF T
    <3>2. stored' \in Seq(T)
      BY <2>1, <3>1, Appended
    <3>3. /\ DOMAIN stored' = 1..(Len(stored) + 1) /\ DOMAIN stored = 1..Len(stored)
          /\ Len(stored) \in Nat
      BY <2>1, <3>1, Appended
    <3>4. \A i \in DOMAIN stored : stored'[i] = stored[i]
      BY <2>1, <3>1, Appended
    <3>5. stored'[Len(stored) + 1] = a
      BY <2>1, <3>1, Appended
    <3>6. ToSet(stored') = ToSet(stored) \cup {a}
      BY <3>3, <3>4, <3>5 DEF ToSet
    <3>. QED  BY <3>2, <3>3, <3>4, <3>5, <3>6 DEF T
  <2>3. a \notin ToSet(stored)
    BY <1>1 DEF StoredOnce, PublishOK
  <2>4. \A i \in DOMAIN stored : stored[i] # a
    BY <2>3 DEF ToSet
  <2>5. IsInjective(stored')
    <3>1. IsInjective(stored)
      BY DEF PublishOK
    <3>. QED  BY <2>2, <2>4, <3>1 DEF IsInjective
  <2>6. /\ storedAt' \in [Alerts -> 0..made]
        /\ storedAt'[a] = made
        /\ \A b \in Alerts : b # a => storedAt'[b] = storedAt[b]
    BY <2>1, ReplayNumbers DEF PublishOK
  <2>7. ToSet(stored) \subseteq Alerts
    <3>1. ToSet(stored) \subseteq 1..made
      BY <2>0, InSeq
    <3>. QED  BY <3>1, ReplayNumbers DEF PublishOK, Alerts
  <2>8. StoredOnce'
    <3>1. StoredOnce /\ made \in Nat
      BY DEF PublishOK
    <3>2. \A b \in ToSet(stored') : storedAt'[b] >= b
      <4>1. \A b \in ToSet(stored) : storedAt[b] >= b /\ b # a /\ b \in Alerts
        BY <2>3, <2>7, <3>1 DEF StoredOnce
      <4>2. \A b \in ToSet(stored) : storedAt'[b] >= b
        BY <2>6, <4>1
      <4>3. storedAt'[a] >= a
        BY <1>1, <2>6, <3>1
      <4>. QED  BY <2>2, <4>2, <4>3
    <3>3. unsent' \cap ToSet(stored') = {}
      BY <1>1, <2>2, <3>1 DEF StoredOnce
    <3>. QED  BY <3>2, <3>3 DEF StoredOnce
  <2>9. wire \in Seq(ToSet(stored'))
    <3>1. wire \in Seq(ToSet(stored)) /\ ToSet(stored) \subseteq ToSet(stored')
      BY <2>2 DEF PublishOK
    <3>. QED  BY <3>1, SeqMonotonic
  <2>10. wire' \in Seq(ToSet(stored'))
    <3>1. CASE up
      <4>1. wire' = Append(wire, a) /\ a \in ToSet(stored')
        BY <1>3, <2>2, <3>1 DEF Publish
      <4>. QED  BY <2>9, <4>1, Appended
    <3>2. CASE ~up
      BY <2>9, <3>2 DEF Publish
    <3>. QED  BY <3>1, <3>2
  <2>. QED  BY <1>1, <2>2, <2>5, <2>6, <2>8, <2>10 DEF PublishOK
<1>. QED  BY <1>2, <1>3

LEMMA PublishKept ==
  ASSUME PublishOK, Next
  PROVE  PublishOK'
<1>. USE DEF PublishOK
<1>1. CASE Make
  <2>1. /\ made' = made + 1 /\ unsent' = unsent \cup {made + 1} /\ made < MaxAlerts
        /\ UNCHANGED <<stored, storedAt, up, wire>>
    BY <1>1 DEF Make
  <2>2. made' \in 0..MaxAlerts /\ unsent' \subseteq 1..made' /\ 1..made \subseteq 1..made'
    BY <2>1, ReplayNumbers
  <2>3. stored \in Seq(1..made')
    BY <2>2, SeqMonotonic
  <2>4. storedAt' \in [Alerts -> 0..made']
    BY <2>1
  <2>5. ToSet(stored) \subseteq 1..made
    BY InSeq
  <2>6. StoredOnce'
    BY <2>1, <2>5 DEF StoredOnce
  <2>. QED  BY <2>1, <2>2, <2>3, <2>4, <2>6
<1>2. CASE Unsubscribe \/ Subscribe
  BY <1>2 DEF Unsubscribe, Subscribe, StoredOnce
<1>3. CASE OnAlert
  <2>1. wire # <<>> /\ wire' = Tail(wire) /\ UNCHANGED <<made, unsent, stored, storedAt, up>>
    BY <1>3 DEF OnAlert
  <2>2. wire' \in Seq(ToSet(stored))
    BY <2>1, Popped
  <2>. QED  BY <2>1, <2>2 DEF StoredOnce
<1>4. CASE WorkerDies
  <2>1. wire' = <<>> /\ up' = FALSE /\ UNCHANGED <<made, unsent, stored, storedAt>>
    BY <1>4 DEF WorkerDies
  <2>. QED  BY <2>1, NoSeq DEF StoredOnce
<1>5. ASSUME NEW a \in Alerts, NEW kept \in BOOLEAN, Publish(a, kept)  PROVE PublishOK'
  BY <1>5, PublishTyped
<1>6. CASE UNCHANGED <<made, unsent, stored, storedAt, up, wire>>
  BY <1>6 DEF StoredOnce
<1>. QED  BY <1>1, <1>2, <1>3, <1>4, <1>5, <1>6, PublishSteps

-----------------------------------------------------------------------------
(* Queues *)

Others(s) == \A r \in Sessions \ {s} : queue'[r] = queue[r]

Pushed(s, m) ==
  /\ Len(queue[s]) \in Nat
  /\ Len(queue[s]) < Capacity
  /\ DOMAIN queue[s] = 1..Len(queue[s])
  /\ DOMAIN queue'[s] = 1..(Len(queue[s]) + 1)
  /\ \A i \in DOMAIN queue[s] : queue'[s][i] = queue[s][i]
  /\ queue'[s][Len(queue[s]) + 1] = m
  /\ Others(s)

Shifted(s) ==
  /\ Len(queue[s]) \in Nat \ {0}
  /\ DOMAIN queue[s] = 1..Len(queue[s])
  /\ DOMAIN queue'[s] = 1..(Len(queue[s]) - 1)
  /\ \A i \in DOMAIN queue'[s] : queue'[s][i] = queue[s][i + 1]
  /\ Others(s)

LEMMA PushFacts ==
  ASSUME QueueOK, NEW s \in Sessions, NEW m \in Inside \cup {Done}, HasRoom(s),
         queue' = [queue EXCEPT ![s] = Append(@, m)]
  PROVE  QueueOK' /\ Pushed(s, m)
<1>1. queue'[s] = Append(queue[s], m) /\ Others(s)
  BY DEF QueueOK, Others
<1>. DEFINE T == Inside \cup {Done}
<1>2. queue[s] \in Seq(T) /\ m \in T
  BY DEF QueueOK
<1>. HIDE DEF T
<1>3. /\ queue'[s] \in Seq(T) /\ Len(queue[s]) \in Nat /\ Len(queue'[s]) = Len(queue[s]) + 1
  BY <1>1, <1>2, Appended
<1>4. /\ DOMAIN queue[s] = 1..Len(queue[s]) /\ DOMAIN queue'[s] = 1..(Len(queue[s]) + 1)
  BY <1>1, <1>2, Appended
<1>5. /\ \A i \in DOMAIN queue[s] : queue'[s][i] = queue[s][i]
      /\ queue'[s][Len(queue[s]) + 1] = m
  BY <1>1, <1>2, Appended
<1>6. Len(queue[s]) < Capacity
  BY DEF HasRoom
<1>7. Pushed(s, m)
  BY <1>1, <1>3, <1>4, <1>5, <1>6 DEF Pushed
<1>8. queue' \in [Sessions -> Seq(T)]
  <2>1. queue \in [Sessions -> Seq(T)]
    BY DEF QueueOK, T
  <2>. QED  BY <1>1, <1>3, <2>1
<1>9. \A r \in Sessions : Len(queue'[r]) <= Capacity
  BY <1>1, <1>3, <1>6, ReplayNumbers DEF QueueOK, Others
<1>. QED  BY <1>7, <1>8, <1>9 DEF QueueOK, T

LEMMA PopFacts ==
  ASSUME QueueOK, NEW s \in Sessions, queue[s] # <<>>,
         queue' = [queue EXCEPT ![s] = Tail(@)]
  PROVE  /\ QueueOK' /\ Shifted(s)
         /\ Head(queue[s]) = queue[s][1] /\ queue[s][1] \in Inside \cup {Done}
<1>1. queue'[s] = Tail(queue[s]) /\ Others(s)
  BY DEF QueueOK, Others
<1>. DEFINE T == Inside \cup {Done}
<1>2. queue[s] \in Seq(T)
  BY DEF QueueOK
<1>. HIDE DEF T
<1>3. /\ queue'[s] \in Seq(T) /\ Len(queue[s]) \in Nat \ {0} /\ Len(queue'[s]) = Len(queue[s]) - 1
  BY <1>1, <1>2, Popped
<1>4. /\ DOMAIN queue[s] = 1..Len(queue[s]) /\ DOMAIN queue'[s] = 1..(Len(queue[s]) - 1)
  BY <1>1, <1>2, Popped
<1>5. \A i \in DOMAIN queue'[s] : queue'[s][i] = queue[s][i + 1]
  <2>1. ASSUME NEW r, r = Tail(queue[s])  PROVE \A i \in DOMAIN r : r[i] = queue[s][i + 1]
    BY <1>2, <2>1, Popped
  <2>. QED  BY <1>1, <2>1
<1>6. Head(queue[s]) = queue[s][1] /\ queue[s][1] \in T
  BY <1>2, Popped
<1>7. Shifted(s)
  BY <1>1, <1>3, <1>4, <1>5 DEF Shifted
<1>8. queue' \in [Sessions -> Seq(T)]
  <2>1. queue \in [Sessions -> Seq(T)]
    BY DEF QueueOK, T
  <2>. QED  BY <1>1, <1>3, <2>1
<1>9. \A r \in Sessions : Len(queue'[r]) <= Capacity
  BY <1>1, <1>3, ReplayNumbers DEF QueueOK, Others
<1>. QED  BY <1>6, <1>7, <1>8, <1>9 DEF QueueOK, T

(* OnAlert: the alert goes to the current session, or nowhere *)
LEMMA OnAlertFacts ==
  ASSUME PublishOK, QueueOK, SessionOK, OnAlert
  PROVE  /\ wire # <<>> /\ wire[1] \in ToSet(stored)
         /\ QueueOK'
         /\ \/ /\ wire[1] \in Inside /\ current \in Sessions /\ HasRoom(current)
               /\ Pushed(current, wire[1]) /\ excused' = excused
            \/ /\ wire[1] \in Inside /\ current \in Sessions /\ Open(current)
               /\ queue' = queue /\ excused' = excused \cup {wire[1]}
            \/ /\ wire[1] \notin Inside \/ current = 0 \/ ~Open(current)
               /\ queue' = queue /\ excused' = excused
<1>1. wire \in Seq(ToSet(stored)) /\ wire # <<>>
  BY DEF PublishOK, OnAlert
<1>2. Head(wire) = wire[1] /\ wire[1] \in ToSet(stored)
  BY <1>1, Popped
<1>3. current = 0 \/ current \in Sessions
  BY ReplayNumbers DEF SessionOK, Sessions
<1>4. CASE wire[1] \in Inside /\ current # 0 /\ HasRoom(current)
  <2>1. queue' = [queue EXCEPT ![current] = Append(@, wire[1])] /\ excused' = excused
    BY <1>2, <1>4 DEF OnAlert, HasRoom
  <2>2. QueueOK' /\ Pushed(current, wire[1])
    BY <1>3, <1>4, <2>1, PushFacts
  <2>. QED  BY <1>1, <1>2, <1>3, <1>4, <2>1, <2>2
<1>5. CASE ~(wire[1] \in Inside /\ current # 0 /\ HasRoom(current))
  <2>1. queue' = queue
    BY <1>2, <1>5 DEF OnAlert
  <2>2. QueueOK'
    BY <2>1 DEF QueueOK
  <2>3. CASE wire[1] \in Inside /\ current # 0 /\ Open(current)
    <3>1. excused' = excused \cup {wire[1]}
      BY <1>2, <1>5, <2>3 DEF OnAlert
    <3>. QED  BY <1>1, <1>2, <1>3, <2>1, <2>2, <2>3, <3>1
  <2>4. CASE ~(wire[1] \in Inside /\ current # 0 /\ Open(current))
    <3>1. excused' = excused
      BY <1>2, <2>4 DEF OnAlert
    <3>. QED  BY <1>1, <1>2, <1>3, <2>1, <2>2, <2>4, <3>1
  <2>. QED  BY <2>3, <2>4
<1>. QED  BY <1>4, <1>5

(* ReplaySend: the next alert of the plan, or replay_complete *)
LEMMA ReplaySendFacts ==
  ASSUME QueueOK, PlanOK, SessionOK, NEW s \in Sessions, ReplaySend(s)
  PROVE  /\ QueueOK' /\ replay[s] = "sending" /\ HasRoom(s)
         /\ \/ \E a \in plan[s] :
                 /\ Pushed(s, a) /\ plan' = [plan EXCEPT ![s] = @ \ {a}] /\ replay' = replay
            \/ /\ plan[s] = {} /\ Pushed(s, Done) /\ plan' = plan
               /\ replay' = [replay EXCEPT ![s] = "over"]
<1>1. replay[s] = "sending" /\ HasRoom(s)
  BY DEF ReplaySend
<1>2. ASSUME NEW a \in plan[s], queue' = [queue EXCEPT ![s] = Append(@, a)]
      PROVE  QueueOK' /\ Pushed(s, a)
  <2>1. a \in Inside \cup {Done}
    BY DEF PlanOK
  <2>. QED  BY <1>1, <1>2, <2>1, PushFacts
<1>3. ASSUME queue' = [queue EXCEPT ![s] = Append(@, Done)]
      PROVE  QueueOK' /\ Pushed(s, Done)
  BY <1>1, <1>3, PushFacts
<1>. QED  BY <1>1, <1>2, <1>3 DEF ReplaySend

LEMMA QueueKept ==
  ASSUME PublishOK, QueueOK, PlanOK, SessionOK, Next
  PROVE  QueueOK'
<1>1. CASE OnAlert
  BY <1>1, OnAlertFacts
<1>2. ASSUME NEW s \in Sessions, ReplaySend(s)  PROVE QueueOK'
  BY <1>2, ReplaySendFacts
<1>3. ASSUME NEW s \in Sessions, WriterSends(s)  PROVE QueueOK'
  BY <1>3, PopFacts DEF WriterSends
<1>4. ASSUME NEW s \in Sessions, SessionEnds(s)  PROVE QueueOK'
  BY <1>4, NoSeq, ReplayNumbers DEF SessionEnds, QueueOK
<1>5. CASE WorkerDies
  BY <1>5, NoSeq, ReplayNumbers DEF WorkerDies, QueueOK
<1>6. \/ OnAlert \/ WorkerDies \/ queue' = queue
      \/ \E s \in Sessions : ReplaySend(s) \/ WriterSends(s) \/ SessionEnds(s)
  BY DEF Next, SessionStep, ReplayStep, Make, Publish, Unsubscribe, Subscribe, StrayWrite,
         Connect, StartTasks, Deregister, ReplayCursor, ReplayStream, ReplayFails,
         OnAck, LateAck, CursorWritten, CursorWriteFails
<1>7. CASE queue' = queue
  BY <1>7 DEF QueueOK
<1>. QED  BY <1>1, <1>2, <1>3, <1>4, <1>5, <1>6, <1>7

-----------------------------------------------------------------------------
(* The plan of a replay *)

(* Positions of stored alerts *)
LEMMA PositionFacts ==
  ASSUME PublishOK, NEW a \in ToSet(stored)
  PROVE  Position(a) \in DOMAIN stored /\ stored[Position(a)] = a
<1>1. \E i \in DOMAIN stored : stored[i] = a
  BY DEF ToSet
<1>. QED  BY <1>1 DEF Position

(* A plan has an alert of the least position, from which on there are Limit *)
LEMMA PlanIsShort ==
  ASSUME PublishOK, NEW s \in Sessions, NEW size
  PROVE  /\ PlanReplay(s, size) \subseteq Wanted(s, size)
         /\ Wanted(s, size) \subseteq ToSet(stored) \cap Inside
         /\ Cardinality(PlanReplay(s, size)) <= Limit
<1>. DEFINE P == PlanReplay(s, size)
            W == Wanted(s, size)
            N == {Position(a) : a \in P}
<1>1. W \subseteq ToSet(stored) \cap Inside
  BY DEF Wanted, ReplayAlerts, Fetched, ToSet
<1>2. P \subseteq W
  BY DEF PlanReplay
<1>3. \A a \in W : Position(a) \in Nat
  <2>1. DOMAIN stored = 1..Len(stored) /\ Len(stored) \in Nat
    BY LenProperties DEF PublishOK
  <2>. QED  BY <1>1, <2>1, PositionFacts
<1>4. IsFiniteSet(W)
  <2>1. IsFiniteSet(1..MaxAlerts)
    BY FS_Interval, ReplayNumbers
  <2>2. W \in SUBSET (1..MaxAlerts)
    BY <1>1, InsideAssumption
  <2>. QED  BY <2>1, <2>2, FS_Subset
<1>5. CASE P = {}
  BY <1>1, <1>2, <1>5, FS_EmptySet, ReplayNumbers
<1>6. CASE P # {}
  <2>1. PICK n \in N : \A m \in N : ~(<<m, n>> \in OpToRel(<, Nat))
    <3>1. N \subseteq Nat /\ N # {}
      BY <1>2, <1>3, <1>6
    <3>. QED  BY <3>1, NatLessThanWellFounded, WFMin
  <2>2. PICK a \in P : n = Position(a)
    OBVIOUS
  <2>3. \A b \in P : Position(b) >= Position(a)
    <3>1. ASSUME NEW b \in P  PROVE Position(b) >= Position(a)
      <4>1. PICK m : m = Position(b)
        OBVIOUS
      <4>2. m \in N /\ m \in Nat /\ n \in Nat
        BY <1>2, <1>3, <2>2, <4>1
      <4>3. ~(<<m, n>> \in OpToRel(<, Nat))
        BY <2>1, <4>2
      <4>4. m >= n
        BY <4>2, <4>3 DEF OpToRel
      <4>. QED  BY <2>2, <4>1, <4>4
    <3>. QED  BY <3>1
  <2>. DEFINE F == {b \in W : Position(b) >= Position(a)}
  <2>4. Cardinality(F) <= Limit
    BY <2>2 DEF PlanReplay
  <2>5. IsFiniteSet(F)
    BY <1>4, FS_Subset
  <2>6. P \in SUBSET F
    BY <1>2, <2>3
  <2>7. Cardinality(P) <= Cardinality(F) /\ IsFiniteSet(P)
    BY <2>5, <2>6, FS_Subset
  <2>8. Cardinality(P) \in Nat /\ Cardinality(F) \in Nat
    BY <2>5, <2>7, FS_CardinalityType
  <2>9. Cardinality(P) <= Limit
    BY <2>4, <2>7, <2>8, ReplayNumbers
  <2>. QED  BY <1>1, <1>2, <2>9
<1>. QED  BY <1>5, <1>6

LEMMA PlanKept ==
  ASSUME PublishOK, QueueOK, PlanOK, SessionOK, Next
  PROVE  PlanOK'
<1>0. Cardinality({}) <= Limit
  BY FS_EmptySet, ReplayNumbers
<1>1. ASSUME NEW s \in Sessions, ReplayStream(s)  PROVE PlanOK'
  <2>1. PICK n \in 0..MaxRead : plan' = [plan EXCEPT ![s] = PlanReplay(s, n)]
    BY <1>1 DEF ReplayStream
  <2>2. PICK p : p = PlanReplay(s, n)
    OBVIOUS
  <2>3. p \in SUBSET Inside /\ Cardinality(p) <= Limit
    BY <2>2, PlanIsShort
  <2>. QED  BY <2>1, <2>2, <2>3 DEF PlanOK
<1>2. ASSUME NEW s \in Sessions, ReplaySend(s)  PROVE PlanOK'
  <2>1. CASE plan' = plan
    BY <2>1 DEF PlanOK
  <2>2. ASSUME NEW a \in plan[s], plan' = [plan EXCEPT ![s] = @ \ {a}]  PROVE PlanOK'
    <3>1. IsFiniteSet(plan[s])
      <4>1. IsFiniteSet(1..MaxAlerts)
        BY FS_Interval, ReplayNumbers
      <4>2. plan[s] \in SUBSET (1..MaxAlerts)
        BY InsideAssumption DEF PlanOK
      <4>. QED  BY <4>1, <4>2, FS_Subset
    <3>2. /\ Cardinality(plan[s] \ {a}) = Cardinality(plan[s]) - 1
          /\ Cardinality(plan[s]) \in Nat
      BY <3>1, FS_RemoveElement, FS_CardinalityType
    <3>3. PICK p : p = plan[s] \ {a}
      OBVIOUS
    <3>4. Cardinality(p) <= Limit /\ p \in SUBSET Inside
      BY <3>2, <3>3, ReplayNumbers DEF PlanOK
    <3>5. plan' = [plan EXCEPT ![s] = p]
      BY <2>2, <3>3
    <3>. QED  BY <3>4, <3>5 DEF PlanOK
  <2>. QED  BY <1>2, <2>1, <2>2, ReplaySendFacts
<1>3. ASSUME NEW s \in Sessions, ReplayFails(s) \/ SessionEnds(s)  PROVE PlanOK'
  BY <1>0, <1>3 DEF ReplayFails, SessionEnds, EndReplay, PlanOK
<1>4. CASE WorkerDies
  BY <1>0, <1>4 DEF WorkerDies, PlanOK
<1>5. CASE plan' = plan
  BY <1>5 DEF PlanOK
<1>6. \/ WorkerDies \/ plan' = plan
      \/ \E s \in Sessions : ReplayStream(s) \/ ReplaySend(s) \/ ReplayFails(s) \/ SessionEnds(s)
  BY DEF Next, SessionStep, ReplayStep, Make, Publish, Unsubscribe, Subscribe, StrayWrite, OnAlert,
         Connect, StartTasks, Deregister, ReplayCursor, WriterSends, replayVars,
         OnAck, LateAck, CursorWritten, CursorWriteFails
<1>. QED  BY <1>1, <1>2, <1>3, <1>4, <1>5, <1>6

-----------------------------------------------------------------------------
(* Sessions and acknowledgements *)

LEMMA SessionKept ==
  ASSUME PublishOK, QueueOK, PlanOK, SessionOK, AckOK, Next
  PROVE  SessionOK'
<1>0. Inside \subseteq Alerts
  BY InsideAssumption DEF Alerts
<1>1. CASE OnAlert
  <2>1. UNCHANGED <<skew, current, phase, connected, replay, since, got, settled>>
    BY <1>1 DEF OnAlert, replayVars, deviceVars
  <2>2. excused' \subseteq Alerts /\ cut' = cut
    BY <1>0, <1>1, OnAlertFacts DEF SessionOK, OnAlert
  <2>. QED  BY <2>1, <2>2 DEF SessionOK
<1>2. ASSUME NEW s \in Sessions, Connect(s)  PROVE SessionOK'
  <2>1. Clock \in -Skew..(MaxAlerts + Skew)
    BY ReplayNumbers DEF PublishOK, SessionOK, Clock
  <2>2. s \in 0..MaxSessions
    BY ReplayNumbers DEF Sessions
  <2>. QED  BY <1>2, <2>1, <2>2 DEF Connect, SessionOK, replayVars, deviceVars, leftOut
<1>3. ASSUME NEW s \in Sessions, StartTasks(s)  PROVE SessionOK'
  BY <1>3 DEF StartTasks, SessionOK, deviceVars, leftOut
<1>4. ASSUME NEW s \in Sessions, ReplayCursor(s)  PROVE SessionOK'
  <2>1. cursor \in Int /\ connected[s] - Window \in Int
    BY ReplayNumbers DEF AckOK, SessionOK
  <2>. QED  BY <1>4, <2>1 DEF ReplayCursor, SessionOK, deviceVars
<1>5. ASSUME NEW s \in Sessions, ReplayStream(s)  PROVE SessionOK'
  <2>0. PICK n \in 0..MaxRead :
              /\ excused' = excused \cup (Wanted(s, n) \ PlanReplay(s, n))
              /\ cut' = cut \cup (Wanted(s, Len(stored)) \ Wanted(s, n))
    BY <1>5 DEF ReplayStream
  <2>1. Wanted(s, n) \subseteq Alerts /\ Wanted(s, Len(stored)) \subseteq Alerts
    BY <1>0, PlanIsShort
  <2>2. /\ UNCHANGED <<skew, current, phase, got, settled>>
        /\ replay' = [replay EXCEPT ![s] = "sending"]
        /\ since' = [since EXCEPT ![s] = 0]
        /\ connected' = [connected EXCEPT ![s] = 0]
    BY <1>5 DEF ReplayStream, deviceVars
  <2>3. excused' \subseteq Alerts /\ cut' \subseteq Alerts
    BY <2>0, <2>1 DEF SessionOK
  <2>. QED  BY <2>2, <2>3, ReplayNumbers DEF SessionOK
<1>6. ASSUME NEW s \in Sessions, ReplaySend(s)  PROVE SessionOK'
  <2>1. UNCHANGED <<skew, current, phase, connected, since, got, settled, excused, cut>>
    BY <1>6 DEF ReplaySend, deviceVars, leftOut
  <2>2. replay' = replay \/ replay' = [replay EXCEPT ![s] = "over"]
    BY <1>6 DEF ReplaySend
  <2>. QED  BY <2>1, <2>2 DEF SessionOK
<1>7. ASSUME NEW s \in Sessions, ReplayFails(s)  PROVE SessionOK'
  BY <1>7, ReplayNumbers DEF ReplayFails, EndReplay, SessionOK, deviceVars, leftOut
<1>8. ASSUME NEW s \in Sessions, WriterSends(s)  PROVE SessionOK'
  <2>1. Head(queue[s]) \in Inside \cup {Done}
    BY <1>8, PopFacts DEF WriterSends
  <2>2. UNCHANGED <<skew, current, phase, connected, replay, since, excused, cut>>
    BY <1>8 DEF WriterSends, replayVars, leftOut
  <2>3. settled' \subseteq Sessions
    BY <1>8 DEF WriterSends, SessionOK
  <2>4. got' \in [Sessions -> SUBSET Inside]
    BY <1>8, <2>1 DEF WriterSends, SessionOK
  <2>. QED  BY <2>2, <2>3, <2>4 DEF SessionOK
<1>9. ASSUME NEW s \in Sessions, SessionEnds(s)  PROVE SessionOK'
  BY <1>9, ReplayNumbers DEF SessionEnds, EndReplay, SessionOK, deviceVars, leftOut
<1>10. ASSUME NEW s \in Sessions, Deregister(s)  PROVE SessionOK'
  BY <1>10, ReplayNumbers DEF Deregister, SessionOK, deviceVars, replayVars, leftOut
<1>11. CASE WorkerDies
  <2>1. UNCHANGED <<skew, got, settled, excused, cut>> /\ current' = 0
    BY <1>11 DEF WorkerDies, deviceVars, leftOut
  <2>2. /\ connected' \in [Sessions -> -Skew..(MaxAlerts + Skew)]
        /\ since' \in [Sessions -> Int]
    BY <1>11, ReplayNumbers DEF WorkerDies
  <2>3. /\ phase' \in [Sessions -> {"none", "registered", "open", "closing", "gone"}]
        /\ replay' \in [Sessions -> {"no", "cursor", "stream", "sending", "over"}]
    BY <1>11 DEF WorkerDies
  <2>. QED  BY <2>1, <2>2, <2>3, ReplayNumbers DEF SessionOK
<1>12. CASE UNCHANGED <<skew, current, phase, connected, replay, since, got, settled, excused, cut>>
  BY <1>12 DEF SessionOK
<1>13. \/ WorkerDies \/ OnAlert
       \/ UNCHANGED <<skew, current, phase, connected, replay, since, got, settled, excused, cut>>
       \/ \E s \in Sessions :
            \/ Connect(s) \/ StartTasks(s) \/ SessionEnds(s) \/ Deregister(s) \/ WriterSends(s)
            \/ ReplayCursor(s) \/ ReplayStream(s) \/ ReplaySend(s) \/ ReplayFails(s)
  BY DEF Next, SessionStep, ReplayStep, Make, Publish, Unsubscribe, Subscribe, StrayWrite,
         replayVars, deviceVars, leftOut, OnAck, LateAck, CursorWritten, CursorWriteFails
<1>. QED  BY <1>1, <1>2, <1>3, <1>4, <1>5, <1>6, <1>7, <1>8, <1>9, <1>10, <1>11, <1>12, <1>13

LEMMA AckKept ==
  ASSUME SessionOK, AckOK, Next
  PROVE  AckOK'
<1>0. Inside \subseteq Alerts
  BY InsideAssumption DEF Alerts
<1>1. ASSUME NEW s \in Sessions, NEW a \in Alerts, NEW due \in BOOLEAN, OnAck(s, a, due)
      PROVE  AckOK'
  <2>1. a \in 0..MaxAlerts
    BY ReplayNumbers DEF Alerts
  <2>2. Offer(s, a) \in 0..MaxAlerts /\ Newer(acked[s], a) \in 0..MaxAlerts
    BY <2>1 DEF AckOK, Offer, Newer
  <2>3. acked' \in [Sessions -> 0..MaxAlerts]
    BY <1>1, <2>2 DEF OnAck, AckOK
  <2>4. pending' \in [Sessions -> 0..MaxAlerts] /\ writing' \in [Sessions -> 0..MaxAlerts]
    BY <1>1, <2>2, ReplayNumbers DEF OnAck, AckOK
  <2>5. wrote' \in [Sessions -> BOOLEAN] /\ UNCHANGED <<stray, polling, cursor, spoiled>>
    BY <1>1 DEF OnAck, AckOK
  <2>. QED  BY <2>3, <2>4, <2>5 DEF AckOK
<1>2. ASSUME NEW s \in Sessions, CursorWritten(s)  PROVE AckOK'
  BY <1>2, ReplayNumbers DEF CursorWritten, AckOK, Advance, Newer
<1>3. ASSUME NEW s \in Sessions, writing[s] # 0  PROVE writing[s] \in Alerts
  BY <1>3, ReplayNumbers DEF AckOK, Alerts
<1>4. ASSUME NEW s \in Sessions, CursorWriteFails(s)  PROVE AckOK'
  BY <1>3, <1>4, ReplayNumbers DEF CursorWriteFails, Abandon, AckOK
<1>5. ASSUME NEW v \in Alerts, StrayWrite(v)  PROVE AckOK'
  <2>1. v \in 0..MaxAlerts
    BY ReplayNumbers DEF Alerts
  <2>2. cursor' \in 0..MaxAlerts
    BY <1>5, <2>1 DEF StrayWrite, Advance, Newer, AckOK
  <2>. QED  BY <1>5, <2>2 DEF StrayWrite, ackVars, AckOK
<1>6. ASSUME NEW s \in Sessions, SessionEnds(s)  PROVE AckOK'
  <2>1. pending' \in [Sessions -> 0..MaxAlerts] /\ writing' \in [Sessions -> 0..MaxAlerts]
    BY <1>6, ReplayNumbers DEF SessionEnds, AckOK
  <2>2. stray' \subseteq Alerts /\ spoiled' \subseteq Sessions
    BY <1>3, <1>6 DEF SessionEnds, Abandon, AckOK
  <2>3. wrote' \in [Sessions -> BOOLEAN] /\ UNCHANGED <<acked, cursor>>
    BY <1>6 DEF SessionEnds, AckOK
  <2>4. polling' \subseteq Sessions
    BY <1>6 DEF SessionEnds, AckOK
  <2>. QED  BY <2>1, <2>2, <2>3, <2>4 DEF AckOK
<1>7. CASE WorkerDies
  <2>1. /\ pending' \in [Sessions -> 0..MaxAlerts] /\ writing' \in [Sessions -> 0..MaxAlerts]
        /\ wrote' \in [Sessions -> BOOLEAN] /\ UNCHANGED <<acked, cursor>>
    BY <1>7, ReplayNumbers DEF WorkerDies
  <2>2. spoiled' \subseteq Sessions /\ polling' \subseteq Sessions
    BY <1>7 DEF WorkerDies, AckOK
  <2>3. stray' \subseteq Alerts
    BY <1>3, <1>7 DEF WorkerDies, AckOK
  <2>. QED  BY <2>1, <2>2, <2>3 DEF AckOK
<1>8. CASE UNCHANGED <<pending, wrote, writing, polling, acked, spoiled, stray, cursor>>
  BY <1>8 DEF AckOK
<1>9. \/ WorkerDies \/ UNCHANGED <<pending, wrote, writing, polling, acked, spoiled, stray, cursor>>
      \/ \E v \in Alerts : StrayWrite(v)
      \/ \E s \in Sessions :
            \/ SessionEnds(s) \/ CursorWritten(s) \/ CursorWriteFails(s)
            \/ \E a \in Alerts, due \in BOOLEAN : OnAck(s, a, due) \/ LateAck(s, a, due)
  BY DEF Next, SessionStep, ReplayStep, Make, Publish, Unsubscribe, Subscribe, OnAlert,
         ackVars, Connect, StartTasks, Deregister, WriterSends, ReplayCursor, ReplayStream,
         ReplaySend, ReplayFails
<1>10. ASSUME NEW s \in Sessions, NEW a \in Alerts, NEW due \in BOOLEAN, LateAck(s, a, due)
       PROVE  AckOK'
  <2>1. a \in 1..MaxAlerts
    BY DEF Alerts
  <2>2. Offer(s, a) \in 1..MaxAlerts
    BY <2>1, ReplayNumbers DEF AckOK, Offer, Newer
  <2>3. pending' \in [Sessions -> 0..MaxAlerts]
    BY <1>10, <2>2, ReplayNumbers DEF LateAck, AckOK
  <2>4. stray' \subseteq Alerts
    BY <1>10, <2>2 DEF LateAck, AckOK, Alerts
  <2>5. polling' \subseteq Sessions /\ wrote' \in [Sessions -> BOOLEAN]
    BY <1>10 DEF LateAck, AckOK
  <2>6. UNCHANGED <<writing, acked, cursor, spoiled>>
    BY <1>10 DEF LateAck
  <2>. QED  BY <2>3, <2>4, <2>5, <2>6 DEF AckOK
<1>. QED  BY <1>1, <1>2, <1>4, <1>5, <1>6, <1>7, <1>8, <1>9, <1>10

(* Phases, for one session *)
PhaseOf(s) ==
  /\ phase[s] \in {"none", "registered"} =>
       replay[s] = "no" /\ got[s] = {} /\ pending[s] = 0 /\ writing[s] = 0 /\ acked[s] = 0
  /\ phase[s] = "none" => queue[s] = <<>>
  /\ phase[s] \in {"open", "closing", "gone"} => replay[s] # "no"
  /\ phase[s] \in {"closing", "gone"} =>
       replay[s] = "over" /\ queue[s] = <<>>
  /\ phase[s] = "gone" => writing[s] = 0

(* A step on session s leaves the others where they are *)
OnlyHere(s) ==
  \A r \in Sessions \ {s} :
    /\ phase'[r] = phase[r] /\ replay'[r] = replay[r] /\ got'[r] = got[r]
    /\ pending'[r] = pending[r] /\ writing'[r] = writing[r] /\ acked'[r] = acked[r]
    /\ queue'[r] = queue[r]

LEMMA PhaseFrame ==
  ASSUME Phases, NEW s \in Sessions, OnlyHere(s), PhaseOf(s)'
  PROVE  Phases'
<1>. SUFFICES ASSUME NEW r \in Sessions  PROVE PhaseOf(r)'
  BY DEF Phases, PhaseOf
<1>1. PhaseOf(r)
  BY DEF Phases, PhaseOf
<1>. QED  BY <1>1 DEF OnlyHere, PhaseOf

LEMMA PhasesKept ==
  ASSUME PublishOK, QueueOK, PlanOK, SessionOK, AckOK, Phases, CurrentIsThere, Next
  PROVE  Phases'
<1>1. CASE OnAlert
  <2>1. UNCHANGED <<phase, replay, got, pending, writing, acked>>
    BY <1>1 DEF OnAlert, replayVars, deviceVars, ackVars
  <2>2. CASE queue' = queue
    BY <2>1, <2>2 DEF Phases
  <2>3. CASE current \in Sessions /\ HasRoom(current) /\ Pushed(current, wire[1])
    <3>1. PICK c \in Sessions : c = current
      BY <2>3
    <3>2. OnlyHere(c)
      BY <2>1, <2>3, <3>1 DEF OnlyHere, Pushed, Others
    <3>3. PhaseOf(c)
      BY DEF Phases, PhaseOf
    <3>4. phase[c] \in {"registered", "open"}
      BY <2>3, <3>1 DEF HasRoom, Open
    <3>5. PhaseOf(c)'
      BY <2>1, <3>3, <3>4 DEF PhaseOf
    <3>. QED  BY <3>2, <3>5, PhaseFrame
  <2>. QED  BY <1>1, <2>2, <2>3, OnAlertFacts
<1>2. ASSUME NEW s \in Sessions, SessionStep(s)  PROVE Phases'
  <2>0. PhaseOf(s)
    BY DEF Phases, PhaseOf
  <2>. SUFFICES OnlyHere(s) /\ PhaseOf(s)'
    BY PhaseFrame
  <2>1. CASE Connect(s)
    BY <2>0, <2>1 DEF Connect, OnlyHere, PhaseOf, SessionOK, replayVars, deviceVars, ackVars
  <2>2. CASE StartTasks(s)
    BY <2>0, <2>2 DEF StartTasks, OnlyHere, PhaseOf, SessionOK, deviceVars, ackVars
  <2>3. CASE SessionEnds(s)
    <3>1. OnlyHere(s)
      BY <2>3 DEF SessionEnds, EndReplay, OnlyHere, SessionOK, AckOK, QueueOK, deviceVars
    <3>2. phase'[s] = "closing" /\ replay'[s] = "over" /\ queue'[s] = <<>>
      BY <2>3 DEF SessionEnds, EndReplay, SessionOK, QueueOK
    <3>. QED  BY <3>1, <3>2 DEF PhaseOf
  <2>4. CASE Deregister(s)
    BY <2>0, <2>4 DEF Deregister, OnlyHere, PhaseOf, SessionOK, replayVars, deviceVars, ackVars
  <2>5. CASE ReplayCursor(s) \/ ReplayStream(s) \/ ReplayFails(s)
    BY <2>0, <2>5 DEF ReplayCursor, ReplayStream, ReplayFails, EndReplay, OnlyHere, PhaseOf,
         SessionOK, deviceVars, ackVars
  <2>6. CASE ReplaySend(s)
    <3>1. UNCHANGED <<phase, got, pending, writing, acked>>
      BY <2>6 DEF ReplaySend, deviceVars, ackVars
    <3>2. Others(s) /\ replay[s] = "sending" /\ phase[s] \in {"registered", "open"}
      BY <2>6, ReplaySendFacts DEF Pushed, HasRoom, Open
    <3>3. replay' = replay \/ replay' = [replay EXCEPT ![s] = "over"]
      BY <2>6, ReplaySendFacts
    <3>4. replay'[s] # "no" /\ \A r \in Sessions \ {s} : replay'[r] = replay[r]
      BY <3>2, <3>3 DEF SessionOK
    <3>. QED  BY <2>0, <3>1, <3>2, <3>4 DEF OnlyHere, Others, PhaseOf
  <2>7. CASE WriterSends(s)
    <3>1. UNCHANGED <<phase, replay, pending, writing, acked>> /\ phase[s] = "open"
      BY <2>7 DEF WriterSends, replayVars, ackVars
    <3>2. Others(s)
      BY <2>7, PopFacts DEF WriterSends, Shifted
    <3>3. \A r \in Sessions \ {s} : got'[r] = got[r]
      BY <2>7 DEF WriterSends, SessionOK
    <3>. QED  BY <2>0, <3>1, <3>2, <3>3 DEF OnlyHere, Others, PhaseOf
  <2>8. ASSUME NEW a \in Alerts, NEW due \in BOOLEAN, OnAck(s, a, due)
        PROVE  OnlyHere(s) /\ PhaseOf(s)'
    BY <2>0, <2>8 DEF OnAck, OnlyHere, PhaseOf, AckOK, replayVars, deviceVars
  <2>9. CASE CursorWritten(s) \/ CursorWriteFails(s)
    BY <2>0, <2>9 DEF CursorWritten, CursorWriteFails, OnlyHere, PhaseOf, AckOK,
         replayVars, deviceVars
  <2>10. ASSUME NEW a \in Alerts, NEW due \in BOOLEAN, LateAck(s, a, due)
         PROVE  OnlyHere(s) /\ PhaseOf(s)'
    BY <2>0, <2>10 DEF LateAck, OnlyHere, PhaseOf, AckOK, replayVars, deviceVars
  <2>. QED
    BY <1>2, <2>1, <2>2, <2>3, <2>4, <2>5, <2>6, <2>7, <2>8, <2>9, <2>10 DEF SessionStep, ReplayStep
<1>3. CASE WorkerDies
  <2>. SUFFICES ASSUME NEW r \in Sessions  PROVE PhaseOf(r)'
    BY DEF Phases, PhaseOf
  <2>1. PhaseOf(r)
    BY DEF Phases, PhaseOf
  <2>2. got' = got /\ acked' = acked
    BY <1>3 DEF WorkerDies, deviceVars
  <2>3. /\ phase'[r] = (IF phase[r] = "none" THEN "none" ELSE "gone")
        /\ replay'[r] = (IF phase[r] = "none" THEN "no" ELSE "over")
        /\ queue'[r] = <<>> /\ pending'[r] = 0 /\ writing'[r] = 0
    BY <1>3 DEF WorkerDies
  <2>. QED  BY <2>1, <2>2, <2>3 DEF PhaseOf
<1>4. CASE UNCHANGED <<phase, replay, got, pending, writing, acked, queue>>
  BY <1>4 DEF Phases
<1>5. \/ WorkerDies \/ OnAlert \/ \E s \in Sessions : SessionStep(s)
      \/ UNCHANGED <<phase, replay, got, pending, writing, acked, queue>>
  BY DEF Next, Make, Publish, Unsubscribe, Subscribe, StrayWrite, replayVars, deviceVars, ackVars
<1>. QED  BY <1>1, <1>2, <1>3, <1>4, <1>5

LEMMA CurrentKept ==
  ASSUME SessionOK, CurrentIsThere, Next
  PROVE  CurrentIsThere'
<1>0. current = 0 \/ current \in Sessions
  BY ReplayNumbers DEF SessionOK, Sessions
<1>1. ASSUME NEW s \in Sessions,
             Connect(s) \/ StartTasks(s) \/ SessionEnds(s) \/ Deregister(s)
      PROVE  CurrentIsThere'
  BY <1>0, <1>1 DEF Connect, StartTasks, SessionEnds, Deregister, SessionOK, CurrentIsThere
<1>2. CASE WorkerDies
  BY <1>2 DEF WorkerDies, CurrentIsThere
<1>3. CASE UNCHANGED <<current, phase>>
  BY <1>3 DEF CurrentIsThere
<1>4. \/ WorkerDies \/ UNCHANGED <<current, phase>>
      \/ \E s \in Sessions : Connect(s) \/ StartTasks(s) \/ SessionEnds(s) \/ Deregister(s)
  BY DEF Next, SessionStep, ReplayStep, Make, Publish, Unsubscribe, Subscribe, StrayWrite, OnAlert,
         WriterSends, ReplayCursor, ReplayStream, ReplaySend, ReplayFails,
         OnAck, LateAck, CursorWritten, CursorWriteFails
<1>. QED  BY <1>1, <1>2, <1>3, <1>4

-----------------------------------------------------------------------------
(* Base is an invariant *)

LEMMA BaseInit ==
  ASSUME Init
  PROVE  Base
<1>1. PublishOK
  <2>1. /\ made = 0 /\ unsent = {} /\ stored = <<>> /\ up = TRUE /\ wire = <<>>
        /\ storedAt = [a \in Alerts |-> 0]
    BY DEF Init
  <2>2. /\ stored \in Seq(1..made) /\ wire \in Seq(ToSet(stored)) /\ ToSet(stored) = {}
    BY <2>1, NoSeq
  <2>3. IsInjective(stored)
    BY <2>1 DEF IsInjective
  <2>. QED  BY <2>1, <2>2, <2>3, ReplayNumbers DEF PublishOK, StoredOnce
<1>2. QueueOK
  BY NoSeq, ReplayNumbers DEF Init, QueueOK
<1>3. PlanOK
  BY FS_EmptySet, ReplayNumbers DEF Init, PlanOK
<1>4. SessionOK
  BY ReplayNumbers DEF Init, SessionOK
<1>5. AckOK
  BY ReplayNumbers DEF Init, AckOK
<1>6. Phases /\ CurrentIsThere
  BY DEF Init, Phases, CurrentIsThere
<1>. QED  BY <1>1, <1>2, <1>3, <1>4, <1>5, <1>6, TypeParts DEF Base

LEMMA BaseStep ==
  ASSUME Base, [Next]_vars
  PROVE  Base'
<1>0. PublishOK /\ QueueOK /\ PlanOK /\ SessionOK /\ AckOK /\ Phases /\ CurrentIsThere
  BY TypeParts DEF Base
<1>1. CASE Next
  <2>1. PublishOK' /\ QueueOK' /\ PlanOK' /\ SessionOK' /\ AckOK' /\ Phases' /\ CurrentIsThere'
    BY <1>0, <1>1, PublishKept, QueueKept, PlanKept, SessionKept, AckKept, PhasesKept, CurrentKept
  <2>. QED  BY <2>1 DEF Base, TypeOK, PublishOK, QueueOK, PlanOK, SessionOK, AckOK
<1>2. CASE UNCHANGED vars
  BY <1>2 DEF vars, Base, TypeOK, StoredOnce, Phases, CurrentIsThere
<1>. QED  BY <1>1, <1>2

LEMMA BaseHolds == Spec => []Base
BY BaseInit, BaseStep, PTL DEF Spec

(* The stream holds each alert once, stored no earlier than it was made, no *)
(* queue holds more than CONNECTION_CHANNEL_CAPACITY messages and no replay *)
(* plans more than REPLAY_MAX_ALERTS (plan_replay), for any number of       *)
(* alerts and of sessions of the device.                                    *)
THEOREM ReplayTypeCorrect == Spec => []TypeOK
BY BaseHolds, PTL DEF Base

-----------------------------------------------------------------------------
(* The cursor *)

(* ADVANCE_LUA is the only writer of the cursor: whatever sessions of the   *)
(* device acknowledge in whatever order, and whenever a write that its      *)
(* session did not wait for arrives, the cursor never moves back.           *)
THEOREM CursorOnlyAdvances == Spec => CursorNeverRewinds
<1>1. ASSUME Base, [Next]_vars  PROVE [cursor' >= cursor]_vars
  <2>1. cursor \in Int /\ writing \in [Sessions -> Int]
    BY <1>1, TypeParts DEF Base, AckOK
  <2>2. ASSUME NEW s \in Sessions, CursorWritten(s)  PROVE cursor' >= cursor
    BY <2>1, <2>2 DEF CursorWritten, Advance, Newer
  <2>3. ASSUME NEW v \in Alerts, StrayWrite(v)  PROVE cursor' >= cursor
    BY <2>1, <2>3 DEF StrayWrite, Advance, Newer, Alerts
  <2>4. CASE cursor' = cursor
    BY <2>1, <2>4
  <2>5. CASE Next
    <3>1. \/ cursor' = cursor
          \/ \E s \in Sessions : CursorWritten(s)
          \/ \E v \in Alerts : StrayWrite(v)
      BY <2>5 DEF Next, SessionStep, ReplayStep, Make, Publish, Unsubscribe, Subscribe, OnAlert,
           Connect, StartTasks, SessionEnds, Deregister, WriterSends, ReplayCursor, ReplayStream,
           ReplaySend, ReplayFails, OnAck, LateAck, CursorWriteFails, WorkerDies
    <3>. QED  BY <2>2, <2>3, <2>4, <3>1
  <2>. QED  BY <1>1, <2>5
<1>. QED  BY <1>1, BaseHolds, PTL DEF Spec, CursorNeverRewinds

(* The newest acknowledgement that session s took before its final flush is  *)
(* in the cursor, or is being written, or waits for the flush                *)
AckIsKept(s) ==
  \/ acked[s] <= cursor \/ acked[s] <= writing[s]
  \/ phase[s] \notin {"closing", "gone"} /\ acked[s] <= pending[s]

AckIsSomewhere == \A s \in Sessions \ spoiled : AckIsKept(s)

LEMMA AckStep ==
  ASSUME Base, AckIsSomewhere, [Next]_vars
  PROVE  AckIsSomewhere'
<1>0. AckOK /\ Phases /\ SessionOK
  BY TypeParts DEF Base
<1>. SUFFICES ASSUME NEW r \in Sessions, r \notin spoiled'
              PROVE  AckIsKept(r)'
  BY DEF AckIsSomewhere
<1>1. spoiled \subseteq spoiled'
  <2>1. CASE UNCHANGED vars
    BY <2>1 DEF vars
  <2>2. CASE Next
    BY <2>2 DEF Next, SessionStep, ReplayStep, Make, Publish, Unsubscribe, Subscribe, OnAlert,
           Connect, StartTasks, SessionEnds, Deregister, WriterSends, ReplayCursor, ReplayStream,
           ReplaySend, ReplayFails, OnAck, LateAck, CursorWritten, CursorWriteFails, StrayWrite, WorkerDies,
           ackVars, Abandon
  <2>. QED  BY <2>1, <2>2
<1>2. /\ AckIsKept(r)
      /\ acked[r] \in 0..MaxAlerts /\ pending[r] \in 0..MaxAlerts /\ writing[r] \in 0..MaxAlerts
      /\ cursor \in 0..MaxAlerts
  BY <1>0, <1>1 DEF AckIsSomewhere, AckOK
<1>. USE DEF AckIsKept
<1>3. ASSUME NEW s \in Sessions, NEW a \in Alerts, NEW due \in BOOLEAN, OnAck(s, a, due)
      PROVE  AckIsKept(r)'
  <2>1. CASE r # s
    BY <1>0, <1>2, <1>3, <2>1 DEF OnAck, AckOK
  <2>2. CASE r = s
    <3>1. /\ acked'[r] = Newer(acked[r], a) /\ cursor' = cursor /\ writing[r] = 0
          /\ phase[r] = "open" /\ phase' = phase
          /\ pending'[r] = (IF due THEN 0 ELSE Offer(s, a))
          /\ writing'[r] = (IF due THEN Offer(s, a) ELSE 0)
      BY <1>0, <1>3, <2>2 DEF OnAck, AckOK
    <3>2. a \in Int
      BY DEF Alerts
    <3>. QED  BY <1>2, <2>2, <3>1, <3>2, ReplayNumbers DEF Newer, Offer
  <2>. QED  BY <2>1, <2>2
<1>4. ASSUME NEW s \in Sessions, CursorWritten(s)
      PROVE  AckIsKept(r)'
  BY <1>0, <1>2, <1>4 DEF CursorWritten, Advance, Newer, AckOK
<1>5. ASSUME NEW v \in Alerts, StrayWrite(v)
      PROVE  AckIsKept(r)'
  BY <1>2, <1>5, ReplayNumbers DEF StrayWrite, Advance, Newer, ackVars, Alerts
<1>6. ASSUME NEW s \in Sessions, CursorWriteFails(s)
      PROVE  AckIsKept(r)'
  BY <1>0, <1>2, <1>6 DEF CursorWriteFails, Abandon, AckOK
<1>7. ASSUME NEW s \in Sessions, SessionEnds(s)
      PROVE  AckIsKept(r)'
  <2>1. acked' = acked /\ cursor' = cursor
    BY <1>7 DEF SessionEnds
  <2>2. CASE r # s
    BY <1>0, <1>2, <1>7, <2>1, <2>2 DEF SessionEnds, AckOK, SessionOK
  <2>3. CASE r = s
    <3>1. writing[r] = 0
      BY <1>7, <2>3 DEF SessionEnds, Abandon
    <3>2. writing'[r] = pending[r]
      BY <1>0, <1>7, <2>3 DEF SessionEnds, AckOK
    <3>. QED  BY <1>2, <2>1, <3>1, <3>2
  <2>. QED  BY <2>2, <2>3
<1>8. CASE WorkerDies
  <2>1. acked' = acked /\ cursor' = cursor
    BY <1>8 DEF WorkerDies
  <2>2. phase[r] \notin {"open", "closing"}
    BY <1>8 DEF WorkerDies
  <2>3. acked[r] = 0 \/ (phase[r] = "gone" /\ writing[r] = 0)
    BY <1>0, <2>2 DEF Phases, SessionOK
  <2>4. acked[r] <= cursor
    BY <1>2, <2>3
  <2>. QED  BY <2>1, <2>4
<1>9. CASE UNCHANGED <<pending, writing, acked, cursor, phase>>
  BY <1>2, <1>9
<1>10. CASE UNCHANGED vars
  BY <1>9, <1>10 DEF vars
<1>12. ASSUME NEW s \in Sessions, NEW a \in Alerts, NEW due \in BOOLEAN, LateAck(s, a, due)
       PROVE  AckIsKept(r)'
  <2>1. UNCHANGED <<phase, acked, writing, cursor>> /\ phase[s] \in {"closing", "gone"}
    BY <1>12 DEF LateAck
  <2>2. r # s => pending'[r] = pending[r]
    BY <1>0, <1>12 DEF LateAck, AckOK
  <2>. QED  BY <1>2, <2>1, <2>2
<1>13. ASSUME NEW s \in Sessions, Connect(s) \/ StartTasks(s) \/ Deregister(s)
       PROVE  AckIsKept(r)'
  <2>1. UNCHANGED <<pending, acked, writing, cursor>>
    BY <1>13 DEF Connect, StartTasks, Deregister, ackVars
  <2>2. phase'[r] \in {"closing", "gone"} => phase[r] \in {"closing", "gone"}
    BY <1>0, <1>13 DEF Connect, StartTasks, Deregister, SessionOK
  <2>. QED  BY <1>2, <2>1, <2>2
<1>11. ASSUME Next
       PROVE  \/ WorkerDies \/ UNCHANGED <<pending, writing, acked, cursor, phase>>
              \/ \E s \in Sessions : Connect(s) \/ StartTasks(s) \/ Deregister(s)
              \/ \E v \in Alerts : StrayWrite(v)
              \/ \E s \in Sessions :
                    \/ SessionEnds(s) \/ CursorWritten(s) \/ CursorWriteFails(s)
                    \/ \E a \in Alerts, due \in BOOLEAN : OnAck(s, a, due) \/ LateAck(s, a, due)
  BY <1>11 DEF Next, SessionStep, ReplayStep, Make, Publish, Unsubscribe, Subscribe, OnAlert,
         ackVars, WriterSends, ReplayCursor, ReplayStream, ReplaySend, ReplayFails
<1>. QED  BY <1>3, <1>4, <1>5, <1>6, <1>7, <1>8, <1>9, <1>10, <1>11, <1>12, <1>13

(* AckBatcher and the final flush lose no acknowledgement that was taken    *)
(* before the flush: once a session has ended and none of its writes failed *)
(* or was cut off, the cursor has reached the newest of them, whatever a    *)
(* reader that was aborted and not waited for still puts into the batcher.  *)
(* That one is not stored, and its alert is sent again.                     *)
THEOREM AcksAreNeverLost == Spec => []AcksAreKept
<1>1. ASSUME Init  PROVE AckIsSomewhere
  BY <1>1 DEF Init, AckIsSomewhere, AckIsKept
<1>2. ASSUME Base, AckIsSomewhere  PROVE AcksAreKept
  <2>. SUFFICES ASSUME NEW s \in Sessions, phase[s] = "gone", s \notin spoiled
                PROVE  acked[s] <= cursor
    BY DEF AcksAreKept
  <2>1. writing[s] = 0
    BY <1>2 DEF Base, Phases
  <2>2. acked[s] \in 0..MaxAlerts /\ cursor \in 0..MaxAlerts
    BY <1>2, TypeParts DEF Base, AckOK
  <2>. QED  BY <1>2, <2>1, <2>2 DEF AckIsSomewhere, AckIsKept
<1>. QED  BY <1>1, <1>2, AckStep, BaseHolds, PTL DEF Spec

-----------------------------------------------------------------------------
(* Delivery *)

Waits(s, m) == \E i \in DOMAIN queue[s] : queue[s][i] = m
OnWire(a) == \E i \in DOMAIN wire : wire[i] = a
InStream(a) == \E i \in DOMAIN stored : stored[i] = a
Known(a) == a \in Inside /\ InStream(a)

(* replay_complete is queued at most once, after the replay *)
DoneOnce ==
  \A s \in Sessions :
    /\ replay[s] # "over" => ~Waits(s, Done) /\ s \notin settled
    /\ s \in settled => ~Waits(s, Done)
    /\ \A i, j \in DOMAIN queue[s] : queue[s][i] = Done /\ queue[s][j] = Done => i = j

(* Only what is stored is on its way to the device *)
KnownOnly ==
  \A s \in Sessions :
    /\ \A a \in got[s] \cup plan[s] : Known(a)
    /\ \A i \in DOMAIN queue[s] : queue[s][i] # Done => Known(queue[s][i])

(* The order of the stream, if each alert is published before the next *)
Ordered ==
  /\ unsent \subseteq {made}
  /\ Len(stored) <= made /\ (unsent # {} => Len(stored) < made)
  /\ \A i, j \in DOMAIN wire : i < j => wire[i] < wire[j]

Subscribed == current # 0 => up

StreamInv == DoneOnce /\ KnownOnly /\ Ordered /\ Subscribed

(* The alert has arrived, or the code is documented not to deliver it, or it *)
(* was behind the end of a batch                                             *)
Safe(a) == a \in excused \cup cut \/ \E s \in Sessions : a \in got[s]

(* The replay of session s never brings replay_complete *)
Lost(s) == replay[s] = "over" /\ s \notin settled /\ ~Waits(s, Done)

(* The replay of session s will still bring alert a *)
ReplayCovers(s, a) ==
  \/ replay[s] \in {"no", "cursor"} /\ a < connected[s] + Overlap
  \/ replay[s] = "stream" /\ since[s] < a /\ a < connected[s] + Overlap
  \/ replay[s] = "sending" /\ (a \in plan[s] \/ Waits(s, a))
  \/ \E i, k \in DOMAIN queue[s] : i < k /\ queue[s][i] = a /\ queue[s][k] = Done

(* The device has the alert, or gets it before it is told that the replay of *)
(* session s is complete, if it ever is                                      *)
Handled(s, a) == Safe(a) \/ Lost(s) \/ ReplayCovers(s, a)

(* On every path to the device an alert comes after the ones before it in the *)
(* stream: what it has, what waits in a queue, and what a replay will send    *)
GotCovered ==
  \A s \in Sessions : \A v \in got[s] : \A a \in Inside :
    (InStream(a) /\ a < v) => Handled(s, a)

QueueCovered ==
  \A s \in Sessions : \A j \in DOMAIN queue[s] : \A a \in Inside :
    (queue[s][j] # Done /\ InStream(a) /\ a < queue[s][j]) =>
      Handled(s, a) \/ \E i \in DOMAIN queue[s] : i < j /\ queue[s][i] = a

PlanCovered ==
  \A s \in Sessions : \A v \in plan[s] : \A a \in Inside :
    (replay[s] = "sending" /\ InStream(a) /\ a < v) => Handled(s, a)

(* The live path: what is stored and not on the wire to the current session *)
(* is in its queue or left to its replay                                    *)
LiveCovered ==
  (current # 0 /\ Open(current)) =>
    \A a \in Inside : InStream(a) =>
      OnWire(a) \/ Handled(current, a) \/ Waits(current, a)

(* No alert up to v is missing: it is safe, or was never stored *)
Dropped(a) == a <= made /\ a \notin unsent /\ ~InStream(a)
Covered(v) == \A a \in Inside : a <= v => Safe(a) \/ Dropped(a)

SinceCovered == \A s \in Sessions : replay[s] = "stream" => Covered(since[s])

AcksCovered ==
  /\ Covered(cursor)
  /\ \A v \in stray : Covered(v)
  /\ \A s \in Sessions : Covered(pending[s]) /\ Covered(writing[s])

DeliveryInv ==
  GotCovered /\ QueueCovered /\ PlanCovered /\ LiveCovered /\ SinceCovered /\ AcksCovered

-----------------------------------------------------------------------------
(* What waits in a queue that grows or shrinks *)

LEMMA PushedWaits ==
  ASSUME NEW s, NEW m, Pushed(s, m), NEW x
  PROVE  Waits(s, x)' <=> (Waits(s, x) \/ x = m)
<1>1. Len(queue[s]) + 1 \in DOMAIN queue'[s]
  BY DEF Pushed
<1>2. \A i \in DOMAIN queue'[s] : i \in DOMAIN queue[s] \/ i = Len(queue[s]) + 1
  BY DEF Pushed
<1>3. \A i \in DOMAIN queue[s] : i \in DOMAIN queue'[s] /\ queue'[s][i] = queue[s][i]
  BY DEF Pushed
<1>4. queue'[s][Len(queue[s]) + 1] = m
  BY DEF Pushed
<1>. QED  BY <1>1, <1>2, <1>3, <1>4 DEF Waits

LEMMA ShiftedWaits ==
  ASSUME NEW s, Shifted(s), NEW x
  PROVE  /\ Waits(s, x)' => Waits(s, x)
         /\ Waits(s, x) => (Waits(s, x)' \/ x = queue[s][1])
<1>1. \A i \in DOMAIN queue'[s] : i + 1 \in DOMAIN queue[s] /\ queue'[s][i] = queue[s][i + 1]
  BY DEF Shifted
<1>2. \A i \in DOMAIN queue[s] : i = 1 \/ (i - 1 \in DOMAIN queue'[s] /\ queue'[s][i - 1] = queue[s][i])
  BY DEF Shifted
<1>3. Waits(s, x)' => Waits(s, x)
  BY <1>1 DEF Waits
<1>4. Waits(s, x) => (Waits(s, x)' \/ x = queue[s][1])
  BY <1>2 DEF Waits
<1>. QED  BY <1>3, <1>4

LEMMA EmptyWaits ==
  ASSUME NEW s, queue'[s] = <<>>
  PROVE  /\ \A x : ~Waits(s, x)'
         /\ DOMAIN queue'[s] = {}
<1>1. DOMAIN <<>> = {}
  OBVIOUS
<1>. QED  BY <1>1 DEF Waits

-----------------------------------------------------------------------------
(* replay_complete *)

DoneOf(s) ==
  /\ replay[s] # "over" => ~Waits(s, Done) /\ s \notin settled
  /\ s \in settled => ~Waits(s, Done)
  /\ \A i, j \in DOMAIN queue[s] : queue[s][i] = Done /\ queue[s][j] = Done => i = j

LEMMA DoneFrame ==
  ASSUME NEW s \in Sessions, DoneOf(s), queue'[s] = queue[s],
         s \in settled' <=> s \in settled,
         replay'[s] = replay[s] \/ replay[s] # "over"
  PROVE  DoneOf(s)'
<1>1. \A x : Waits(s, x)' <=> Waits(s, x)
  BY DEF Waits
<1>. QED  BY <1>1 DEF DoneOf

LEMMA DonePush ==
  ASSUME NEW s \in Sessions, DoneOf(s), NEW m, m # Done, Pushed(s, m),
         settled' = settled, replay'[s] = replay[s]
  PROVE  DoneOf(s)'
<1>1. Waits(s, Done)' <=> Waits(s, Done)
  BY PushedWaits
<1>2. ASSUME NEW i \in DOMAIN queue'[s], queue'[s][i] = Done
      PROVE  i \in DOMAIN queue[s] /\ queue[s][i] = Done
  BY <1>2 DEF Pushed
<1>. QED  BY <1>1, <1>2 DEF DoneOf

LEMMA DoneKept ==
  ASSUME Base, DoneOnce, Next
  PROVE  DoneOnce'
<1>0. /\ PublishOK /\ QueueOK /\ PlanOK /\ SessionOK /\ AckOK /\ Phases
      /\ Done \notin Inside
  BY TypeParts, InsideAssumption DEF Base, Done
<1>. SUFFICES ASSUME NEW r \in Sessions  PROVE DoneOf(r)'
  BY DEF DoneOnce, DoneOf
<1>1. DoneOf(r)
  BY DEF DoneOnce, DoneOf
<1>2. CASE OnAlert
  <2>1. UNCHANGED <<settled, replay>>
    BY <1>2 DEF OnAlert, deviceVars, replayVars
  <2>2. CASE queue' = queue
    BY <1>1, <2>1, <2>2, DoneFrame
  <2>3. CASE current \in Sessions /\ wire[1] \in Inside /\ Pushed(current, wire[1])
    <3>1. CASE r = current
      BY <1>0, <1>1, <2>1, <2>3, <3>1, DonePush
    <3>2. CASE r # current
      BY <1>1, <2>1, <2>3, <3>2, DoneFrame DEF Pushed, Others
    <3>. QED  BY <3>1, <3>2
  <2>. QED  BY <1>0, <1>2, <2>2, <2>3, OnAlertFacts
<1>3. ASSUME NEW s \in Sessions, ReplaySend(s)  PROVE DoneOf(r)'
  <2>1. settled' = settled
    BY <1>3 DEF ReplaySend, deviceVars
  <2>2. /\ replay[s] = "sending"
        /\ \/ \E a \in plan[s] : Pushed(s, a) /\ replay' = replay
           \/ Pushed(s, Done) /\ replay' = [replay EXCEPT ![s] = "over"]
    BY <1>0, <1>3, ReplaySendFacts
  <2>3. CASE r # s
    BY <1>0, <1>1, <2>1, <2>2, <2>3, DoneFrame DEF Pushed, Others, SessionOK
  <2>4. ASSUME NEW a \in plan[s], Pushed(s, a), replay' = replay, r = s  PROVE DoneOf(r)'
    <3>1. a # Done
      BY <1>0 DEF PlanOK
    <3>. QED  BY <1>1, <2>1, <2>4, <3>1, DonePush
  <2>5. ASSUME Pushed(s, Done), replay' = [replay EXCEPT ![s] = "over"], r = s  PROVE DoneOf(r)'
    <3>1. ~Waits(s, Done) /\ s \notin settled
      BY <1>1, <2>2, <2>5 DEF DoneOf
    <3>2. replay'[s] = "over"
      BY <1>0, <2>5 DEF SessionOK
    <3>3. ASSUME NEW i \in DOMAIN queue'[s], queue'[s][i] = Done  PROVE i = Len(queue[s]) + 1
      BY <2>5, <3>1, <3>3 DEF Pushed, Waits
    <3>. QED  BY <2>1, <2>5, <3>1, <3>2, <3>3 DEF DoneOf
  <2>. QED  BY <2>2, <2>3, <2>4, <2>5
<1>4. ASSUME NEW s \in Sessions, WriterSends(s)  PROVE DoneOf(r)'
  <2>1. /\ replay' = replay
        /\ settled' = IF Head(queue[s]) = Done THEN settled \cup {s} ELSE settled
    BY <1>4 DEF WriterSends, replayVars
  <2>2. Shifted(s) /\ Head(queue[s]) = queue[s][1]
    BY <1>0, <1>4, PopFacts DEF WriterSends
  <2>3. CASE r # s
    BY <1>1, <2>1, <2>2, <2>3, DoneFrame DEF Shifted, Others
  <2>4. CASE r = s
    <3>1. /\ Waits(s, Done)' => Waits(s, Done)
          /\ Waits(s, Done) => Waits(s, Done)' \/ Done = queue[s][1]
      BY <2>2, ShiftedWaits
    <3>2. \A i \in DOMAIN queue'[s] :
            i \in Int /\ i >= 1 /\ i + 1 \in DOMAIN queue[s] /\ queue'[s][i] = queue[s][i + 1]
      BY <2>2 DEF Shifted
    <3>3. 1 \in DOMAIN queue[s]
      BY <2>2 DEF Shifted
    <3>4. ASSUME NEW i \in DOMAIN queue'[s], NEW j \in DOMAIN queue'[s],
                 queue'[s][i] = Done, queue'[s][j] = Done
          PROVE  i = j
      <4>1. i + 1 = j + 1
        BY <1>1, <2>4, <3>2, <3>4 DEF DoneOf
      <4>. QED  BY <3>2, <4>1
    <3>5. CASE queue[s][1] = Done
      <4>1. Waits(s, Done)
        BY <3>3, <3>5 DEF Waits
      <4>2. replay[s] = "over"
        BY <1>1, <2>4, <4>1 DEF DoneOf
      <4>3. ~Waits(s, Done)'
        <5>1. ASSUME NEW i \in DOMAIN queue'[s], queue'[s][i] = Done  PROVE FALSE
          <6>1. i + 1 = 1
            BY <1>1, <2>4, <3>2, <3>3, <3>5, <5>1 DEF DoneOf
          <6>. QED  BY <3>2, <6>1
        <5>. QED  BY <5>1 DEF Waits
      <4>. QED  BY <2>1, <2>4, <3>4, <4>2, <4>3 DEF DoneOf
    <3>6. CASE queue[s][1] # Done
      BY <1>1, <2>1, <2>2, <2>4, <3>1, <3>4, <3>6 DEF DoneOf
    <3>. QED  BY <3>5, <3>6
  <2>. QED  BY <2>3, <2>4
<1>5. ASSUME NEW s \in Sessions, SessionEnds(s)  PROVE DoneOf(r)'
  <2>1. settled' = settled /\ replay' = [replay EXCEPT ![s] = "over"]
        /\ queue' = [queue EXCEPT ![s] = <<>>]
    BY <1>5 DEF SessionEnds, EndReplay, deviceVars
  <2>2. CASE r # s
    BY <1>0, <1>1, <2>1, <2>2, DoneFrame DEF SessionOK, QueueOK
  <2>3. CASE r = s
    BY <1>0, <2>1, <2>3, EmptyWaits DEF SessionOK, QueueOK, DoneOf
  <2>. QED  BY <2>2, <2>3
<1>6. ASSUME NEW s \in Sessions, StartTasks(s) \/ ReplayCursor(s) \/ ReplayStream(s) \/ ReplayFails(s)
      PROVE  DoneOf(r)'
  <2>1. settled' = settled /\ queue' = queue
    BY <1>6 DEF StartTasks, ReplayCursor, ReplayStream, ReplayFails, deviceVars
  <2>2. replay[s] # "over"
    BY <1>0, <1>6 DEF StartTasks, ReplayCursor, ReplayStream, ReplayFails, Phases
  <2>3. r # s => replay'[r] = replay[r]
    BY <1>0, <1>6 DEF StartTasks, ReplayCursor, ReplayStream, ReplayFails, EndReplay, SessionOK
  <2>. QED  BY <1>1, <2>1, <2>2, <2>3, DoneFrame
<1>7. CASE WorkerDies
  <2>1. /\ settled' = settled /\ queue'[r] = <<>>
        /\ replay'[r] = (IF phase[r] = "none" THEN "no" ELSE "over")
    BY <1>7 DEF WorkerDies, deviceVars
  <2>2. phase[r] = "none" => r \notin settled
    BY <1>0, <1>1 DEF Phases, DoneOf
  <2>. QED  BY <2>1, <2>2, EmptyWaits DEF DoneOf
<1>8. CASE UNCHANGED <<settled, replay, queue>>
  BY <1>1, <1>8, DoneFrame
<1>9. \/ WorkerDies \/ OnAlert \/ UNCHANGED <<settled, replay, queue>>
      \/ \E s \in Sessions :
            \/ ReplaySend(s) \/ WriterSends(s) \/ SessionEnds(s)
            \/ StartTasks(s) \/ ReplayCursor(s) \/ ReplayStream(s) \/ ReplayFails(s)
  BY DEF Next, SessionStep, ReplayStep, Make, Publish, Unsubscribe, Subscribe, StrayWrite,
         Connect, Deregister, OnAck, LateAck, CursorWritten, CursorWriteFails, deviceVars, replayVars
<1>. QED  BY <1>2, <1>3, <1>4, <1>5, <1>6, <1>7, <1>8, <1>9

-----------------------------------------------------------------------------
(* The stream and the wire *)

LEMMA PublishFacts ==
  ASSUME PublishOK, NEW a \in Alerts, NEW kept \in BOOLEAN, Publish(a, kept)
  PROVE  /\ a \in unsent /\ unsent' = unsent \ {a} /\ made' = made /\ up' = up
         /\ ~InStream(a)
         /\ \A b : InStream(b)' <=> (InStream(b) \/ (kept /\ b = a))
         /\ \A b : OnWire(b) => OnWire(b)'
         /\ kept /\ up => OnWire(a)'
         /\ Len(stored) \in Nat /\ Len(stored)' = Len(stored) + (IF kept THEN 1 ELSE 0)
         /\ Len(wire) \in Nat /\ DOMAIN wire = 1..Len(wire)
         /\ \/ wire' = wire
            \/ /\ DOMAIN wire' = 1..(Len(wire) + 1) /\ wire'[Len(wire) + 1] = a
               /\ \A i \in DOMAIN wire : wire'[i] = wire[i]
<1>. DEFINE T == 1..made
<1>1. /\ stored \in Seq(T) /\ wire \in Seq(Alerts) /\ a \in T /\ a \in unsent
      /\ unsent' = unsent \ {a} /\ made' = made /\ up' = up
  <2>1. T \subseteq Alerts
    BY ReplayNumbers DEF PublishOK, Alerts
  <2>2. ToSet(stored) \subseteq Alerts
    BY <2>1, InSeq DEF PublishOK
  <2>3. wire \in Seq(Alerts)
    BY <2>2, SeqMonotonic DEF PublishOK
  <2>. QED  BY <2>3 DEF PublishOK, Publish
<1>2. ~InStream(a)
  BY <1>1 DEF PublishOK, StoredOnce, InStream, ToSet
<1>. HIDE DEF T
<1>3. /\ Len(stored) \in Nat /\ DOMAIN stored = 1..Len(stored)
      /\ Len(wire) \in Nat /\ DOMAIN wire = 1..Len(wire)
  BY <1>1, InSeq
<1>4. ASSUME kept
      PROVE  /\ Len(stored)' = Len(stored) + 1
             /\ \A b : InStream(b)' <=> (InStream(b) \/ b = a)
  <2>1. stored' = Append(stored, a)
    BY <1>4 DEF Publish
  <2>2. Len(stored') = Len(stored) + 1 /\ DOMAIN stored' = 1..(Len(stored) + 1)
    BY <1>1, <2>1, Appended
  <2>3. \A i \in DOMAIN stored : stored'[i] = stored[i]
    BY <1>1, <2>1, Appended
  <2>4. stored'[Len(stored) + 1] = a
    BY <1>1, <2>1, Appended
  <2>5. \A i \in DOMAIN stored' : i \in DOMAIN stored \/ i = Len(stored) + 1
    BY <1>3, <2>2
  <2>6. Len(stored) + 1 \in DOMAIN stored' /\ \A i \in DOMAIN stored : i \in DOMAIN stored'
    BY <1>3, <2>2
  <2>. QED  BY <2>2, <2>3, <2>4, <2>5, <2>6 DEF InStream
<1>5. ASSUME ~kept  PROVE stored' = stored /\ wire' = wire
  BY <1>5 DEF Publish
<1>6. ASSUME kept, up
      PROVE  /\ DOMAIN wire' = 1..(Len(wire) + 1) /\ wire'[Len(wire) + 1] = a
             /\ \A i \in DOMAIN wire : wire'[i] = wire[i]
  <2>1. wire' = Append(wire, a)
    BY <1>6 DEF Publish
  <2>2. DOMAIN wire' = 1..(Len(wire) + 1) /\ wire'[Len(wire) + 1] = a
    BY <1>1, <2>1, Appended
  <2>3. \A i \in DOMAIN wire : wire'[i] = wire[i]
    BY <1>1, <2>1, Appended
  <2>. QED  BY <2>2, <2>3
<1>7. ASSUME ~up  PROVE wire' = wire
  BY <1>7 DEF Publish
<1>8. \A b : OnWire(b) => OnWire(b)'
  BY <1>3, <1>5, <1>6, <1>7 DEF OnWire
<1>9. kept /\ up => OnWire(a)'
  BY <1>3, <1>6 DEF OnWire
<1>10. \A b : InStream(b)' <=> (InStream(b) \/ (kept /\ b = a))
  BY <1>4, <1>5 DEF InStream
<1>11. Len(stored)' = Len(stored) + (IF kept THEN 1 ELSE 0)
  BY <1>3, <1>4, <1>5
<1>. QED  BY <1>1, <1>2, <1>3, <1>5, <1>6, <1>7, <1>8, <1>9, <1>10, <1>11

LEMMA StreamKept ==
  ASSUME Next
  PROVE  stored' = stored \/ \E a \in Alerts, kept \in BOOLEAN : Publish(a, kept)
BY PublishSteps DEF Make, Unsubscribe, Subscribe, OnAlert, WorkerDies

LEMMA StreamGrows ==
  ASSUME PublishOK, Next, NEW a
  PROVE  InStream(a) => InStream(a)'
<1>1. CASE stored' = stored
  BY <1>1 DEF InStream
<1>2. ASSUME NEW b \in Alerts, NEW kept \in BOOLEAN, Publish(b, kept)
      PROVE  InStream(a) => InStream(a)'
  BY <1>2, PublishFacts
<1>. QED  BY <1>1, <1>2, StreamKept

KnownOf(s) ==
  /\ \A a \in got[s] \cup plan[s] : Known(a)
  /\ \A i \in DOMAIN queue[s] : queue[s][i] # Done => Known(queue[s][i])

LEMMA KnownKept ==
  ASSUME Base, KnownOnly, Next
  PROVE  KnownOnly'
<1>0. PublishOK /\ QueueOK /\ PlanOK /\ SessionOK /\ AckOK /\ Phases
  BY TypeParts DEF Base
<1>. SUFFICES ASSUME NEW r \in Sessions  PROVE KnownOf(r)'
  BY DEF KnownOnly, KnownOf
<1>1. KnownOf(r)
  BY DEF KnownOnly, KnownOf
<1>2. \A a : Known(a) => Known(a)'
  BY <1>0, StreamGrows DEF Known
<1>3. ASSUME got'[r] = got[r], plan'[r] \subseteq plan[r], queue'[r] = queue[r] \/ queue'[r] = <<>>
      PROVE  KnownOf(r)'
  <2>1. DOMAIN <<>> = {}
    OBVIOUS
  <2>. QED  BY <1>1, <1>2, <1>3, <2>1 DEF KnownOf
<1>4. ASSUME NEW m, m # Done => Known(m), Pushed(r, m), got'[r] = got[r], plan'[r] \subseteq plan[r]
      PROVE  KnownOf(r)'
  <2>1. \A i \in DOMAIN queue'[r] :
          \/ i \in DOMAIN queue[r] /\ queue'[r][i] = queue[r][i]
          \/ queue'[r][i] = m
    BY <1>4 DEF Pushed
  <2>2. \A i \in DOMAIN queue'[r] : queue'[r][i] # Done => Known(queue'[r][i])
    BY <1>1, <1>4, <2>1 DEF KnownOf
  <2>3. \A i \in DOMAIN queue'[r] : queue'[r][i] # Done => Known(queue[r][i])'
    <3>1. ASSUME NEW i \in DOMAIN queue'[r], queue'[r][i] # Done  PROVE Known(queue[r][i])'
      <4>1. PICK x : x = queue'[r][i]
        OBVIOUS
      <4>2. Known(x)'
        BY <1>2, <2>2, <3>1, <4>1
      <4>. QED  BY <4>1, <4>2 DEF Known, InStream
    <3>. QED  BY <3>1
  <2>. QED  BY <1>1, <1>2, <1>4, <2>3 DEF KnownOf
<1>5. CASE OnAlert
  <2>1. got' = got /\ plan' = plan
    BY <1>5 DEF OnAlert, deviceVars, replayVars
  <2>2. CASE queue' = queue
    BY <1>3, <2>1, <2>2
  <2>3. CASE current \in Sessions /\ wire[1] \in Inside /\ Pushed(current, wire[1])
    <3>1. Known(wire[1])
      BY <1>0, <1>5, <2>3, OnAlertFacts DEF Known, InStream, ToSet
    <3>2. CASE r = current
      BY <1>4, <2>1, <2>3, <3>1, <3>2
    <3>3. CASE r # current
      BY <1>3, <2>1, <2>3, <3>3 DEF Pushed, Others
    <3>. QED  BY <3>2, <3>3
  <2>. QED  BY <1>0, <1>5, <2>2, <2>3, OnAlertFacts
<1>6. ASSUME NEW s \in Sessions, ReplaySend(s)  PROVE KnownOf(r)'
  <2>1. got' = got
    BY <1>6 DEF ReplaySend, deviceVars
  <2>2. \/ \E a \in plan[s] : Pushed(s, a) /\ plan' = [plan EXCEPT ![s] = @ \ {a}]
        \/ Pushed(s, Done) /\ plan' = plan
    BY <1>0, <1>6, ReplaySendFacts
  <2>3. plan'[r] \subseteq plan[r]
    BY <1>0, <2>2 DEF PlanOK
  <2>4. CASE r # s
    BY <1>3, <2>1, <2>2, <2>3, <2>4 DEF Pushed, Others
  <2>5. CASE r = s
    BY <1>1, <1>4, <2>1, <2>2, <2>3, <2>5 DEF KnownOf
  <2>. QED  BY <2>4, <2>5
<1>7. ASSUME NEW s \in Sessions, WriterSends(s)  PROVE KnownOf(r)'
  <2>1. /\ plan' = plan
        /\ got' = IF Head(queue[s]) = Done THEN got
                  ELSE [got EXCEPT ![s] = @ \cup {Head(queue[s])}]
    BY <1>7 DEF WriterSends, replayVars
  <2>2. Shifted(s) /\ Head(queue[s]) = queue[s][1]
    BY <1>0, <1>7, PopFacts DEF WriterSends
  <2>3. CASE r # s
    <3>1. got'[r] = got[r]
      BY <1>0, <2>1, <2>3 DEF SessionOK
    <3>. QED  BY <1>3, <2>1, <2>2, <2>3, <3>1 DEF Shifted, Others
  <2>4. CASE r = s
    <3>1. 1 \in DOMAIN queue[r]
      BY <2>2, <2>4 DEF Shifted
    <3>2. queue[r][1] # Done => Known(queue[r][1])
      BY <1>1, <3>1 DEF KnownOf
    <3>3. \A a \in got'[r] : a \in got[r] \/ (queue[r][1] # Done /\ a = queue[r][1])
      BY <1>0, <2>1, <2>2, <2>4 DEF SessionOK
    <3>4. \A a \in got'[r] : Known(a)
      BY <1>1, <3>2, <3>3 DEF KnownOf
    <3>5. \A i \in DOMAIN queue'[r] : i + 1 \in DOMAIN queue[r] /\ queue'[r][i] = queue[r][i + 1]
      BY <2>2, <2>4 DEF Shifted
    <3>6. \A i \in DOMAIN queue'[r] : queue'[r][i] # Done => Known(queue'[r][i])
      BY <1>1, <3>5 DEF KnownOf
    <3>7. \A i \in DOMAIN queue'[r] : queue'[r][i] # Done => Known(queue[r][i])'
      <4>1. ASSUME NEW i \in DOMAIN queue'[r], queue'[r][i] # Done  PROVE Known(queue[r][i])'
        <5>1. PICK x : x = queue'[r][i]
          OBVIOUS
        <5>2. Known(x)'
          BY <1>2, <3>6, <4>1, <5>1
        <5>. QED  BY <5>1, <5>2 DEF Known, InStream
      <4>. QED  BY <4>1
    <3>. QED  BY <1>1, <1>2, <2>1, <3>4, <3>7 DEF KnownOf
  <2>. QED  BY <2>3, <2>4
<1>8. ASSUME NEW s \in Sessions, ReplayStream(s)  PROVE KnownOf(r)'
  <2>0. PICK n \in 0..MaxRead : plan' = [plan EXCEPT ![s] = PlanReplay(s, n)]
    BY <1>8 DEF ReplayStream
  <2>1. got' = got /\ queue' = queue
    BY <1>8 DEF ReplayStream, deviceVars
  <2>2. CASE r # s
    BY <1>0, <1>3, <2>0, <2>1, <2>2 DEF PlanOK
  <2>3. CASE r = s
    <3>1. \A a \in PlanReplay(s, n) : Known(a)
      <4>1. PlanReplay(s, n) \subseteq ToSet(stored) \cap Inside
        BY <1>0, PlanIsShort
      <4>. QED  BY <4>1 DEF Known, InStream, ToSet
    <3>2. plan'[r] = PlanReplay(s, n)
      BY <1>0, <2>0, <2>3 DEF PlanOK
    <3>3. \A a \in plan'[r] : Known(a)'
      BY <1>2, <3>1, <3>2
    <3>. QED  BY <1>1, <1>2, <2>1, <3>3 DEF KnownOf
  <2>. QED  BY <2>2, <2>3
<1>9. ASSUME NEW s \in Sessions, ReplayFails(s) \/ SessionEnds(s)  PROVE KnownOf(r)'
  <2>1. got' = got /\ plan'[r] \subseteq plan[r]
    BY <1>0, <1>9 DEF ReplayFails, SessionEnds, EndReplay, PlanOK, deviceVars
  <2>2. queue'[r] = queue[r] \/ queue'[r] = <<>>
    BY <1>0, <1>9 DEF ReplayFails, SessionEnds, QueueOK
  <2>. QED  BY <1>3, <2>1, <2>2
<1>10. CASE WorkerDies
  <2>1. got' = got /\ plan'[r] = {} /\ queue'[r] = <<>>
    BY <1>10 DEF WorkerDies, deviceVars
  <2>. QED  BY <1>3, <2>1
<1>11. CASE UNCHANGED <<got, plan, queue>>
  BY <1>3, <1>11
<1>12. \/ WorkerDies \/ OnAlert \/ UNCHANGED <<got, plan, queue>>
       \/ \E s \in Sessions :
            \/ ReplaySend(s) \/ WriterSends(s) \/ SessionEnds(s)
            \/ ReplayStream(s) \/ ReplayFails(s)
  BY DEF Next, SessionStep, ReplayStep, Make, Publish, Unsubscribe, Subscribe, StrayWrite,
         Connect, Deregister, OnAck, LateAck, CursorWritten, CursorWriteFails, deviceVars, replayVars,
         StartTasks, ReplayCursor
<1>. QED  BY <1>5, <1>6, <1>7, <1>8, <1>9, <1>10, <1>11, <1>12

(* The wire carries what is stored *)
LEMMA WireIsStored ==
  ASSUME PublishOK
  PROVE  /\ Len(wire) \in Nat /\ DOMAIN wire = 1..Len(wire)
         /\ \A i \in DOMAIN wire : InStream(wire[i]) /\ wire[i] \in 1..made
<1>1. wire \in Seq(ToSet(stored)) /\ stored \in Seq(1..made)
  BY DEF PublishOK
<1>2. Len(wire) \in Nat /\ DOMAIN wire = 1..Len(wire) /\ \A i \in DOMAIN wire : wire[i] \in ToSet(stored)
  BY <1>1, InSeq
<1>3. ToSet(stored) \subseteq 1..made
  BY <1>1, InSeq
<1>. QED  BY <1>2, <1>3 DEF InStream, ToSet

LEMMA StreamIsMade ==
  ASSUME PublishOK, NEW a, InStream(a)
  PROVE  a \in 1..made /\ a \notin unsent
<1>1. ToSet(stored) \subseteq 1..made
  BY InSeq DEF PublishOK
<1>2. a \in ToSet(stored)
  BY DEF InStream, ToSet
<1>. QED  BY <1>1, <1>2 DEF PublishOK, StoredOnce

LEMMA OrderKept ==
  ASSUME InOrder, Base, Ordered, Next
  PROVE  Ordered'
<1>0. PublishOK /\ made \in Nat
  BY TypeParts DEF Base, PublishOK
<1>1. Len(stored) \in Nat /\ Len(wire) \in Nat /\ DOMAIN wire = 1..Len(wire)
  BY <1>0, InSeq DEF PublishOK
<1>2. CASE Make
  <2>1. /\ unsent = {} /\ made' = made + 1 /\ unsent' = {made + 1}
        /\ stored' = stored /\ wire' = wire
    BY <1>2 DEF Make
  <2>. QED  BY <1>0, <1>1, <2>1 DEF Ordered
<1>3. ASSUME NEW a \in Alerts, NEW kept \in BOOLEAN, Publish(a, kept)  PROVE Ordered'
  <2>1. /\ a \in unsent /\ unsent' = unsent \ {a} /\ made' = made
        /\ Len(stored)' = Len(stored) + (IF kept THEN 1 ELSE 0)
        /\ \/ wire' = wire
           \/ /\ DOMAIN wire' = 1..(Len(wire) + 1) /\ wire'[Len(wire) + 1] = a
              /\ \A i \in DOMAIN wire : wire'[i] = wire[i]
    BY <1>0, <1>3, PublishFacts
  <2>2. a = made /\ unsent' = {}
    BY <2>1 DEF Ordered
  <2>3. \A i \in DOMAIN wire : wire[i] < a
    <3>1. ASSUME NEW i \in DOMAIN wire  PROVE wire[i] < a
      <4>1. InStream(wire[i]) /\ wire[i] \in 1..made
        BY <1>0, WireIsStored
      <4>2. wire[i] \notin unsent
        BY <1>0, <4>1, StreamIsMade
      <4>. QED  BY <1>0, <2>1, <2>2, <4>1, <4>2
    <3>. QED  BY <3>1
  <2>4. (Len(stored) <= made)' /\ (unsent # {} => Len(stored) < made)'
    <3>1. Len(stored) < made
      BY <2>1 DEF Ordered
    <3>2. Len(stored)' = Len(stored) \/ Len(stored)' = Len(stored) + 1
      BY <1>1, <2>1
    <3>3. Len(stored)' <= made'
      BY <1>0, <1>1, <2>1, <3>1, <3>2
    <3>. QED  BY <2>2, <3>3
  <2>5. CASE wire' = wire
    BY <1>0, <2>1, <2>2, <2>4, <2>5 DEF Ordered
  <2>6. CASE /\ DOMAIN wire' = 1..(Len(wire) + 1) /\ wire'[Len(wire) + 1] = a
             /\ \A i \in DOMAIN wire : wire'[i] = wire[i]
    <3>1. ASSUME NEW i \in DOMAIN wire', NEW j \in DOMAIN wire', i < j  PROVE wire'[i] < wire'[j]
      <4>1. i \in DOMAIN wire
        BY <1>1, <2>6, <3>1
      <4>2. CASE j \in DOMAIN wire
        BY <2>6, <3>1, <4>1, <4>2 DEF Ordered
      <4>3. CASE j \notin DOMAIN wire
        <5>1. j = Len(wire) + 1
          BY <1>1, <2>6, <4>3
        <5>. QED  BY <2>3, <2>6, <4>1, <5>1
      <4>. QED  BY <4>2, <4>3
    <3>. QED  BY <2>2, <2>4, <3>1 DEF Ordered
  <2>. QED  BY <2>1, <2>5, <2>6
<1>4. CASE OnAlert
  <2>1. UNCHANGED <<made, unsent, stored>> /\ wire # <<>> /\ wire' = Tail(wire)
    BY <1>4 DEF OnAlert
  <2>2. wire \in Seq(ToSet(stored))
    BY <1>0 DEF PublishOK
  <2>3. /\ Len(wire) \in Nat \ {0} /\ DOMAIN wire' = 1..(Len(wire) - 1)
    BY <2>1, <2>2, Popped
  <2>4. \A i \in DOMAIN wire' : wire'[i] = wire[i + 1]
    <3>1. ASSUME NEW q, q = Tail(wire)  PROVE \A i \in DOMAIN q : q[i] = wire[i + 1]
      BY <2>1, <2>2, <3>1, Popped
    <3>. QED  BY <2>1, <3>1
  <2>5. ASSUME NEW i \in DOMAIN wire', NEW j \in DOMAIN wire', i < j  PROVE wire'[i] < wire'[j]
    <3>1. i + 1 \in DOMAIN wire /\ j + 1 \in DOMAIN wire /\ i + 1 < j + 1
      BY <1>1, <2>3, <2>5
    <3>2. wire[i + 1] < wire[j + 1]
      BY <3>1 DEF Ordered
    <3>. QED  BY <2>4, <3>2
  <2>. QED  BY <2>1, <2>5 DEF Ordered
<1>5. CASE WorkerDies
  <2>1. UNCHANGED <<made, unsent, stored>> /\ wire' = <<>>
    BY <1>5 DEF WorkerDies
  <2>2. DOMAIN wire' = {}
    BY <2>1
  <2>. QED  BY <2>1, <2>2 DEF Ordered
<1>6. CASE UNCHANGED <<made, unsent, stored, wire>>
  BY <1>6 DEF Ordered
<1>. QED  BY <1>2, <1>3, <1>4, <1>5, <1>6, PublishSteps DEF Unsubscribe, Subscribe

LEMMA SubscribedKept ==
  ASSUME ~Gaps, Subscribed, Next
  PROVE  Subscribed'
<1>1. ASSUME NEW s \in Sessions, Connect(s)  PROVE Subscribed'
  BY <1>1 DEF Connect, publishVars, Subscribed
<1>2. ASSUME NEW s \in Sessions, Deregister(s)  PROVE Subscribed'
  BY <1>2 DEF Deregister, publishVars, Subscribed
<1>3. CASE WorkerDies
  BY <1>3 DEF WorkerDies, Subscribed
<1>4. CASE Unsubscribe \/ Subscribe
  BY <1>4 DEF Unsubscribe, Subscribe, Subscribed
<1>5. CASE UNCHANGED <<current, up>>
  BY <1>5 DEF Subscribed
<1>6. \/ WorkerDies \/ Unsubscribe \/ Subscribe \/ UNCHANGED <<current, up>>
      \/ \E s \in Sessions : Connect(s) \/ Deregister(s)
  BY DEF Next, SessionStep, ReplayStep, Make, Publish, StrayWrite, OnAlert, StartTasks,
         SessionEnds, WriterSends, ReplayCursor, ReplayStream, ReplaySend, ReplayFails,
         OnAck, LateAck, CursorWritten, CursorWriteFails, publishVars
<1>. QED  BY <1>1, <1>2, <1>3, <1>4, <1>5, <1>6

LEMMA StreamHolds ==
  ASSUME InOrder, ~Gaps
  PROVE  Spec => []StreamInv
<1>1. ASSUME Init  PROVE StreamInv
  <2>1. /\ made = 0 /\ unsent = {} /\ stored = <<>> /\ wire = <<>> /\ current = 0 /\ settled = {}
        /\ \A s \in Sessions : queue[s] = <<>> /\ got[s] = {} /\ plan[s] = {}
    BY <1>1 DEF Init
  <2>2. DOMAIN <<>> = {} /\ Len(<<>>) = 0
    OBVIOUS
  <2>. QED  BY <2>1, <2>2 DEF StreamInv, DoneOnce, KnownOnly, Ordered, Subscribed, Waits
<1>2. ASSUME Base, StreamInv, [Next]_vars  PROVE StreamInv'
  <2>1. CASE Next
    BY <1>2, <2>1, DoneKept, KnownKept, OrderKept, SubscribedKept DEF StreamInv
  <2>2. CASE UNCHANGED vars
    BY <1>2, <2>2 DEF vars, StreamInv, DoneOnce, KnownOnly, Known, InStream, Ordered, Subscribed, Waits
  <2>. QED  BY <1>2, <2>1, <2>2
<1>. QED  BY <1>1, <1>2, BaseHolds, PTL DEF Spec

-----------------------------------------------------------------------------
(* What stays true of an alert *)

LEMMA SafeGrows ==
  ASSUME Base, Next, NEW a, Safe(a)
  PROVE  Safe(a)'
<1>0. PublishOK /\ QueueOK /\ PlanOK /\ SessionOK
  BY TypeParts DEF Base
<1>1. excused \subseteq excused' /\ cut \subseteq cut'
  <2>1. CASE OnAlert
    <3>1. cut' = cut
      BY <2>1 DEF OnAlert
    <3>. QED  BY <1>0, <2>1, <3>1, OnAlertFacts
  <2>2. CASE ~OnAlert
    BY <2>2 DEF Next, SessionStep, ReplayStep, Make, Publish, Unsubscribe, Subscribe, StrayWrite,
         Connect, Deregister, OnAck, LateAck, CursorWritten, CursorWriteFails, StartTasks, SessionEnds,
         WriterSends, ReplayCursor, ReplayStream, ReplaySend, ReplayFails, WorkerDies, leftOut
  <2>. QED  BY <2>1, <2>2
<1>2. ASSUME NEW s \in Sessions  PROVE got[s] \subseteq got'[s]
  <2>1. ASSUME NEW r \in Sessions, WriterSends(r)  PROVE got[s] \subseteq got'[s]
    <3>1. PICK m : m = Head(queue[r])
      OBVIOUS
    <3>2. got' = got \/ got' = [got EXCEPT ![r] = @ \cup {m}]
      BY <2>1, <3>1 DEF WriterSends
    <3>. QED  BY <1>0, <3>2 DEF SessionOK
  <2>2. \/ got' = got
        \/ \E r \in Sessions : WriterSends(r)
    BY DEF Next, SessionStep, ReplayStep, Make, Publish, Unsubscribe, Subscribe, StrayWrite, OnAlert,
         Connect, Deregister, OnAck, LateAck, CursorWritten, CursorWriteFails, StartTasks, SessionEnds,
         ReplayCursor, ReplayStream, ReplaySend, ReplayFails, WorkerDies, deviceVars
  <2>. QED  BY <2>1, <2>2
<1>. QED  BY <1>1, <1>2 DEF Safe

LEMMA CoveredStays ==
  ASSUME Base, Next, NEW v, Covered(v)
  PROVE  Covered(v)'
<1>0. PublishOK /\ made \in Nat
  BY TypeParts DEF Base, PublishOK
<1>1. ASSUME NEW a, a \in Inside, Dropped(a)  PROVE Dropped(a)'
  <2>0. a \in Nat
    BY <1>1, InsideAssumption
  <2>1. CASE Make
    BY <1>0, <1>1, <2>0, <2>1 DEF Make, Dropped, InStream
  <2>2. ASSUME NEW b \in Alerts, NEW kept \in BOOLEAN, Publish(b, kept)  PROVE Dropped(a)'
    BY <1>0, <1>1, <2>2, PublishFacts DEF Dropped
  <2>3. CASE UNCHANGED <<made, unsent, stored>>
    BY <1>1, <2>3 DEF Dropped, InStream
  <2>4. \/ Make \/ UNCHANGED <<made, unsent, stored>>
        \/ \E b \in Alerts, kept \in BOOLEAN : Publish(b, kept)
    BY PublishSteps DEF Unsubscribe, Subscribe, OnAlert, WorkerDies
  <2>. QED  BY <2>1, <2>2, <2>3, <2>4
<1>. QED  BY <1>1, SafeGrows DEF Covered

(* Alerts are stored in their order *)
LEMMA NothingNewBelow ==
  ASSUME Base, Ordered, Next, NEW a, NEW v, InStream(v), InStream(a)', a < v
  PROVE  InStream(a)
<1>0. PublishOK /\ made \in Nat
  BY TypeParts DEF Base, PublishOK
<1>1. CASE stored' = stored
  BY <1>1 DEF InStream
<1>2. ASSUME NEW b \in Alerts, NEW kept \in BOOLEAN, Publish(b, kept)  PROVE InStream(a)
  <2>1. InStream(a) \/ a = b
    BY <1>0, <1>2, PublishFacts
  <2>2. b = made
    BY <1>0, <1>2, PublishFacts DEF Ordered
  <2>3. v \in 1..made
    BY <1>0, StreamIsMade
  <2>. QED  BY <1>0, <2>1, <2>2, <2>3
<1>. QED  BY <1>1, <1>2, StreamKept

-----------------------------------------------------------------------------
(* What is handled on a session stays handled, whatever happens *)

HandledStays(s) == \A a \in Inside : (InStream(a) /\ Handled(s, a)) => Handled(s, a)'

LEMMA HandledFrame ==
  ASSUME Base, Next, NEW s \in Sessions,
         replay'[s] = replay[s], s \in settled' <=> s \in settled, queue'[s] = queue[s],
         connected'[s] = connected[s], since'[s] = since[s], plan'[s] = plan[s]
  PROVE  HandledStays(s)
<1>1. \A x : Waits(s, x)' <=> Waits(s, x)
  BY DEF Waits
<1>2. Lost(s) => Lost(s)'
  BY <1>1 DEF Lost
<1>3. \A a : ReplayCovers(s, a) => ReplayCovers(s, a)'
  BY <1>1 DEF ReplayCovers
<1>. QED  BY <1>2, <1>3, SafeGrows DEF HandledStays, Handled

LEMMA HandledPush ==
  ASSUME Base, Next, NEW s \in Sessions, NEW m, m # Done, Pushed(s, m),
         replay'[s] = replay[s], settled' = settled,
         connected'[s] = connected[s], since'[s] = since[s], plan[s] \ {m} \subseteq plan'[s]
  PROVE  HandledStays(s)
<1>1. \A x : Waits(s, x)' <=> (Waits(s, x) \/ x = m)
  BY PushedWaits
<1>2. Lost(s) => Lost(s)'
  BY <1>1 DEF Lost
<1>3. \A i \in DOMAIN queue[s] : i \in DOMAIN queue'[s] /\ queue'[s][i] = queue[s][i]
  BY DEF Pushed
<1>4. \A a : ReplayCovers(s, a) => ReplayCovers(s, a)'
  BY <1>1, <1>3 DEF ReplayCovers
<1>. QED  BY <1>2, <1>4, SafeGrows DEF HandledStays, Handled

(* A replay that ends early is lost, and so are its alerts *)
LEMMA HandledEnd ==
  ASSUME Base, Next, DoneOnce, NEW s \in Sessions, replay'[s] = "over", settled' = settled,
         queue'[s] = <<>> \/ (replay[s] # "over" /\ queue'[s] = queue[s])
  PROVE  HandledStays(s)
<1>1. ~Waits(s, Done)'
  <2>1. CASE queue'[s] = <<>>
    BY <2>1, EmptyWaits
  <2>2. CASE replay[s] # "over" /\ queue'[s] = queue[s]
    BY <2>2 DEF DoneOnce, Waits
  <2>. QED  BY <2>1, <2>2
<1>2. ASSUME NEW a, ReplayCovers(s, a)  PROVE s \notin settled
  <2>1. replay[s] # "over" \/ Waits(s, Done)
    BY <1>2 DEF ReplayCovers, Waits
  <2>. QED  BY <2>1 DEF DoneOnce
<1>3. ASSUME NEW a, ReplayCovers(s, a) \/ Lost(s)  PROVE Lost(s)'
  BY <1>1, <1>2, <1>3 DEF Lost
<1>. QED  BY <1>3, SafeGrows DEF HandledStays, Handled

(* A batch of the whole stream has every alert after the cursor *)
LEMMA ReplayReadsAll ==
  ASSUME Base, NEW s \in Sessions, NEW a \in Inside, InStream(a),
         since[s] < a, a < connected[s] + Overlap
  PROVE  a \in Wanted(s, Len(stored))
<1>0. /\ PublishOK /\ SessionOK /\ since[s] \in Int /\ a \in Alerts
      /\ made \in 0..MaxAlerts
  BY TypeParts, InsideAssumption DEF Base, PublishOK, SessionOK, Alerts
<1>1. PICK i \in DOMAIN stored : stored[i] = a
  BY DEF InStream
<1>. DEFINE late == {j \in DOMAIN stored : storedAt[stored[j]] >= since[s] - Margin}
<1>2. DOMAIN stored = 1..Len(stored) /\ Len(stored) \in Nat
  BY <1>0, LenProperties DEF PublishOK
<1>3. storedAt[a] >= a /\ storedAt[a] \in Int /\ a \in Int
  <2>1. a \in ToSet(stored)
    BY <1>1 DEF ToSet
  <2>. QED  BY <1>0, <2>1, ReplayNumbers DEF PublishOK, StoredOnce, Alerts
<1>4. i \in late
  BY <1>0, <1>1, <1>3, ReplayNumbers
<1>5. \A k \in late : i < k + Len(stored)
  <2>1. \A k \in late : k \in Nat \ {0}
    BY <1>2
  <2>. QED  BY <1>1, <1>2, <2>1
<1>6. a \in Fetched(since[s], Len(stored))
  BY <1>1, <1>4, <1>5 DEF Fetched
<1>. QED  BY <1>6 DEF Wanted, ReplayAlerts

LEMMA HandledHere ==
  ASSUME Base, StreamInv, AcksCovered, Next, NEW s \in Sessions,
         \/ StartTasks(s) \/ ReplayCursor(s) \/ ReplayStream(s) \/ ReplaySend(s)
         \/ ReplayFails(s) \/ WriterSends(s) \/ SessionEnds(s)
  PROVE  HandledStays(s)
<1>0. /\ PublishOK /\ QueueOK /\ PlanOK /\ SessionOK /\ AckOK /\ Phases
      /\ DoneOnce /\ KnownOnly /\ Ordered /\ Inside \subseteq Int
  BY TypeParts, InsideAssumption DEF Base, StreamInv
<1>1. CASE StartTasks(s)
  <2>1. /\ replay[s] = "no"
        /\ replay'[s] = "cursor" \/ replay'[s] = "over"
        /\ UNCHANGED <<settled, queue, connected>>
    BY <1>0, <1>1 DEF StartTasks, Phases, SessionOK, deviceVars
  <2>2. CASE replay'[s] = "over"
    BY <1>0, <2>1, <2>2, HandledEnd
  <2>3. CASE replay'[s] = "cursor"
    <3>1. ~Lost(s)
      BY <2>1 DEF Lost
    <3>2. \A a : ReplayCovers(s, a) => ReplayCovers(s, a)'
      BY <2>1, <2>3 DEF ReplayCovers
    <3>. QED  BY <3>1, <3>2, SafeGrows DEF HandledStays, Handled
  <2>. QED  BY <2>1, <2>2, <2>3
<1>2. CASE ReplayCursor(s)
  <2>1. /\ replay[s] = "cursor" /\ replay'[s] = "stream" /\ UNCHANGED <<queue, connected, cursor>>
        /\ since'[s] = IF cursor # 0 THEN cursor ELSE connected[s] - Window
        /\ cursor = 0 => excused' = excused \cup {a \in Alerts : a <= connected[s] - Window}
    BY <1>0, <1>2 DEF ReplayCursor, SessionOK
  <2>2. ~Lost(s)
    BY <2>1 DEF Lost
  <2>3. cursor \in Int /\ connected[s] \in Int /\ Window \in Int
    BY <1>0, ReplayNumbers DEF AckOK, SessionOK
  <2>4. ASSUME NEW a \in Inside, InStream(a), ReplayCovers(s, a)  PROVE Handled(s, a)'
    <3>0. a \in Alerts /\ a \in Int
      BY InsideAssumption DEF Alerts
    <3>1. CASE cursor # 0 /\ a <= cursor
      <4>1. Safe(a) \/ Dropped(a)
        BY <3>1 DEF AcksCovered, Covered
      <4>2. Safe(a)
        BY <2>4, <4>1 DEF Dropped
      <4>. QED  BY <4>2, SafeGrows DEF Handled
    <3>2. CASE cursor = 0 /\ a <= connected[s] - Window
      BY <2>1, <3>0, <3>2 DEF Handled, Safe
    <3>3. CASE since'[s] < a
      <4>1. a < connected[s] + Overlap \/ \E i, k \in DOMAIN queue[s] : i < k /\ queue[s][i] = a /\ queue[s][k] = Done
        BY <2>1, <2>4 DEF ReplayCovers
      <4>2. ReplayCovers(s, a)'
        BY <2>1, <3>3, <4>1 DEF ReplayCovers
      <4>. QED  BY <4>2 DEF Handled
    <3>. QED  BY <2>1, <2>3, <3>0, <3>1, <3>2, <3>3
  <2>. QED  BY <2>2, <2>4, SafeGrows DEF HandledStays, Handled
<1>3. CASE ReplayStream(s)
  <2>0. PICK n \in 0..MaxRead :
              /\ plan' = [plan EXCEPT ![s] = PlanReplay(s, n)]
              /\ excused' = excused \cup (Wanted(s, n) \ PlanReplay(s, n))
              /\ cut' = cut \cup (Wanted(s, Len(stored)) \ Wanted(s, n))
    BY <1>3 DEF ReplayStream
  <2>1. /\ replay[s] = "stream" /\ replay'[s] = "sending" /\ UNCHANGED queue
        /\ plan'[s] = PlanReplay(s, n)
    BY <1>0, <1>3, <2>0 DEF ReplayStream, SessionOK, PlanOK
  <2>2. ~Lost(s)
    BY <2>1 DEF Lost
  <2>3. ASSUME NEW a \in Inside, InStream(a), ReplayCovers(s, a)  PROVE Handled(s, a)'
    <3>1. CASE since[s] < a /\ a < connected[s] + Overlap
      <4>1. a \in Wanted(s, Len(stored))
        BY <2>3, <3>1, ReplayReadsAll
      <4>2. a \in plan'[s] \/ a \in excused' \cup cut'
        BY <2>0, <2>1, <4>1
      <4>. QED  BY <2>1, <4>2 DEF Handled, Safe, ReplayCovers
    <3>2. CASE \E i, k \in DOMAIN queue[s] : i < k /\ queue[s][i] = a /\ queue[s][k] = Done
      BY <2>1, <3>2 DEF Handled, ReplayCovers
    <3>. QED  BY <2>1, <2>3, <3>1, <3>2 DEF ReplayCovers
  <2>. QED  BY <2>2, <2>3, SafeGrows DEF HandledStays, Handled
<1>4. CASE ReplaySend(s)
  <2>1. UNCHANGED <<settled, connected, since>>
    BY <1>4 DEF ReplaySend, deviceVars
  <2>2. /\ replay[s] = "sending"
        /\ \/ \E a \in plan[s] : Pushed(s, a) /\ plan' = [plan EXCEPT ![s] = @ \ {a}] /\ replay' = replay
           \/ /\ plan[s] = {} /\ Pushed(s, Done) /\ replay' = [replay EXCEPT ![s] = "over"]
    BY <1>0, <1>4, ReplaySendFacts
  <2>3. ASSUME NEW a \in plan[s], Pushed(s, a), plan' = [plan EXCEPT ![s] = @ \ {a}], replay' = replay
        PROVE  HandledStays(s)
    <3>1. a # Done
      BY <1>0, InsideAssumption DEF PlanOK, Done
    <3>2. plan[s] \ {a} \subseteq plan'[s]
      BY <1>0, <2>3 DEF PlanOK
    <3>. QED  BY <2>1, <2>3, <3>1, <3>2, HandledPush
  <2>4. ASSUME plan[s] = {}, Pushed(s, Done), replay' = [replay EXCEPT ![s] = "over"]
        PROVE  HandledStays(s)
    <3>1. ~Lost(s)
      BY <2>2 DEF Lost
    <3>2. ASSUME NEW a, ReplayCovers(s, a)  PROVE ReplayCovers(s, a)'
      <4>1. Waits(s, a) \/ \E i, k \in DOMAIN queue[s] : i < k /\ queue[s][i] = a /\ queue[s][k] = Done
        BY <2>2, <2>4, <3>2 DEF ReplayCovers
      <4>2. PICK i \in DOMAIN queue[s] : queue[s][i] = a
        BY <4>1 DEF Waits
      <4>3. /\ i \in DOMAIN queue'[s] /\ queue'[s][i] = a
            /\ Len(queue[s]) + 1 \in DOMAIN queue'[s] /\ i < Len(queue[s]) + 1
            /\ queue'[s][Len(queue[s]) + 1] = Done
        BY <2>4, <4>2 DEF Pushed
      <4>. QED  BY <4>3 DEF ReplayCovers
    <3>. QED  BY <3>1, <3>2, SafeGrows DEF HandledStays, Handled
  <2>. QED  BY <2>2, <2>3, <2>4
<1>5. CASE ReplayFails(s)
  BY <1>0, <1>5, HandledEnd DEF ReplayFails, EndReplay, SessionOK, deviceVars
<1>6. CASE WriterSends(s)
  <2>1. /\ UNCHANGED <<replay, since, plan, connected>>
        /\ settled' = IF Head(queue[s]) = Done THEN settled \cup {s} ELSE settled
        /\ Head(queue[s]) # Done => got'[s] = got[s] \cup {Head(queue[s])}
    BY <1>0, <1>6 DEF WriterSends, replayVars, SessionOK
  <2>2. Shifted(s) /\ Head(queue[s]) = queue[s][1]
    BY <1>0, <1>6, PopFacts DEF WriterSends
  <2>3. ASSUME NEW x, x # Done, x = queue[s][1]  PROVE Safe(x)'
    BY <2>1, <2>2, <2>3 DEF Safe
  <2>4. \A x : /\ Waits(s, x)' => Waits(s, x)
               /\ Waits(s, x) => Waits(s, x)' \/ x = queue[s][1]
    BY <2>2, ShiftedWaits
  <2>5. 1 \in DOMAIN queue[s]
    BY <2>2 DEF Shifted
  <2>6. Lost(s) => Lost(s)'
    BY <2>1, <2>2, <2>4, <2>5 DEF Lost, Waits
  <2>7. ASSUME NEW a \in Inside, ReplayCovers(s, a)  PROVE Safe(a)' \/ ReplayCovers(s, a)'
    <3>0. a # Done
      BY InsideAssumption DEF Done
    <3>1. CASE Waits(s, a) /\ replay[s] = "sending"
      BY <2>1, <2>3, <2>4, <3>0, <3>1 DEF ReplayCovers
    <3>2. ASSUME NEW i \in DOMAIN queue[s], NEW k \in DOMAIN queue[s],
                 i < k, queue[s][i] = a, queue[s][k] = Done
          PROVE  Safe(a)' \/ ReplayCovers(s, a)'
      <4>1. CASE i = 1
        BY <2>3, <3>0, <3>2, <4>1
      <4>2. CASE i # 1
        <5>1. /\ i - 1 \in DOMAIN queue'[s] /\ k - 1 \in DOMAIN queue'[s] /\ i - 1 < k - 1
              /\ queue'[s][i - 1] = queue[s][i] /\ queue'[s][k - 1] = queue[s][k]
          <6>1. /\ i \in Int /\ k \in Int
                /\ i - 1 \in DOMAIN queue'[s] /\ k - 1 \in DOMAIN queue'[s] /\ i - 1 < k - 1
            BY <2>2, <3>2, <4>2 DEF Shifted
          <6>2. \A j \in DOMAIN queue'[s] : queue'[s][j] = queue[s][j + 1]
            BY <2>2 DEF Shifted
          <6>3. (i - 1) + 1 = i /\ (k - 1) + 1 = k
            BY <6>1
          <6>4. queue'[s][i - 1] = queue[s][i] /\ queue'[s][k - 1] = queue[s][k]
            BY <6>1, <6>2, <6>3
          <6>. QED  BY <6>1, <6>4
        <5>. QED  BY <3>2, <5>1 DEF ReplayCovers
      <4>. QED  BY <4>1, <4>2
    <3>. QED  BY <2>1, <2>7, <3>1, <3>2 DEF ReplayCovers
  <2>. QED  BY <2>6, <2>7, SafeGrows DEF HandledStays, Handled
<1>7. CASE SessionEnds(s)
  <2>1. replay'[s] = "over" /\ settled' = settled /\ queue'[s] = <<>>
    BY <1>0, <1>7 DEF SessionEnds, EndReplay, SessionOK, QueueOK, deviceVars
  <2>. QED  BY <1>0, <2>1, HandledEnd
<1>. QED  BY <1>1, <1>2, <1>3, <1>4, <1>5, <1>6, <1>7

LEMMA HandledEverywhere ==
  ASSUME Base, StreamInv, AcksCovered, Next, NEW r \in Sessions,
         phase[r] # "none"
  PROVE  HandledStays(r)
<1>0. /\ PublishOK /\ QueueOK /\ PlanOK /\ SessionOK /\ AckOK /\ Phases
      /\ DoneOnce /\ KnownOnly /\ Ordered
  BY TypeParts DEF Base, StreamInv
<1>1. CASE OnAlert
  <2>1. UNCHANGED <<settled, replay, connected, since, plan>>
    BY <1>1 DEF OnAlert, deviceVars, replayVars
  <2>2. CASE queue' = queue
    BY <2>1, <2>2, HandledFrame
  <2>3. CASE current \in Sessions /\ wire[1] \in Inside /\ Pushed(current, wire[1])
    <3>1. CASE r = current
      <4>1. wire[1] # Done
        BY <2>3, InsideAssumption DEF Done
      <4>. QED  BY <2>1, <2>3, <3>1, <4>1, HandledPush
    <3>2. CASE r # current
      BY <2>1, <2>3, <3>2, HandledFrame DEF Pushed, Others
    <3>. QED  BY <3>1, <3>2
  <2>. QED  BY <1>0, <1>1, <2>2, <2>3, OnAlertFacts
<1>2. ASSUME NEW s \in Sessions,
             \/ StartTasks(s) \/ ReplayCursor(s) \/ ReplayStream(s) \/ ReplaySend(s)
             \/ ReplayFails(s) \/ WriterSends(s) \/ SessionEnds(s)
      PROVE  HandledStays(r)
  <2>1. CASE r = s
    BY <1>2, <2>1, HandledHere
  <2>2. CASE r # s
    <3>1. /\ replay'[r] = replay[r] /\ connected'[r] = connected[r]
          /\ since'[r] = since[r] /\ plan'[r] = plan[r]
      BY <1>0, <1>2, <2>2 DEF StartTasks, ReplayCursor, ReplayStream, ReplaySend, ReplayFails,
           WriterSends, SessionEnds, EndReplay, replayVars, SessionOK, PlanOK
    <3>2. r \in settled' <=> r \in settled
      BY <1>2, <2>2 DEF StartTasks, ReplayCursor, ReplayStream, ReplaySend, ReplayFails,
           WriterSends, SessionEnds, deviceVars
    <3>3. queue'[r] = queue[r]
      BY <1>0, <1>2, <2>2 DEF StartTasks, ReplayCursor, ReplayStream, ReplaySend, ReplayFails,
           WriterSends, SessionEnds, QueueOK
    <3>. QED  BY <3>1, <3>2, <3>3, HandledFrame
  <2>. QED  BY <2>1, <2>2
<1>3. ASSUME NEW s \in Sessions, Connect(s)  PROVE HandledStays(r)
  <2>1. r # s /\ UNCHANGED <<settled, replay, since, plan, queue>>
        /\ connected' = [connected EXCEPT ![s] = Clock]
    BY <1>3 DEF Connect, deviceVars, replayVars
  <2>2. connected'[r] = connected[r]
    BY <1>0, <2>1 DEF SessionOK
  <2>. QED  BY <2>1, <2>2, HandledFrame
<1>4. CASE WorkerDies
  <2>1. settled' = settled /\ queue'[r] = <<>> /\ replay'[r] = "over"
    BY <1>4 DEF WorkerDies, deviceVars
  <2>. QED  BY <1>0, <2>1, HandledEnd
<1>5. CASE UNCHANGED <<settled, replay, connected, since, plan, queue>>
  BY <1>5, HandledFrame
<1>6. \/ WorkerDies \/ OnAlert \/ UNCHANGED <<settled, replay, connected, since, plan, queue>>
      \/ \E s \in Sessions :
            \/ Connect(s) \/ StartTasks(s) \/ ReplayCursor(s) \/ ReplayStream(s) \/ ReplaySend(s)
            \/ ReplayFails(s) \/ WriterSends(s) \/ SessionEnds(s)
  BY DEF Next, SessionStep, ReplayStep, Make, Publish, Unsubscribe, Subscribe, StrayWrite,
         Deregister, OnAck, LateAck, CursorWritten, CursorWriteFails, deviceVars, replayVars
<1>. QED  BY <1>1, <1>2, <1>3, <1>4, <1>5, <1>6

-----------------------------------------------------------------------------
(* Every path to the device stays covered *)

LEMMA GotKept ==
  ASSUME Base, StreamInv, DeliveryInv, Next
  PROVE  GotCovered'
<1>0. /\ PublishOK /\ QueueOK /\ PlanOK /\ SessionOK /\ AckOK /\ Phases
      /\ DoneOnce /\ KnownOnly /\ Ordered /\ GotCovered /\ QueueCovered /\ AcksCovered
  BY TypeParts DEF Base, StreamInv, DeliveryInv
<1>. SUFFICES ASSUME NEW r \in Sessions, NEW v \in got'[r], NEW a \in Inside, InStream(a)', a < v
              PROVE  Handled(r, a)'
  BY DEF GotCovered
<1>1. CASE v \in got[r]
  <2>1. InStream(v)
    BY <1>0, <1>1 DEF KnownOnly, Known
  <2>2. InStream(a)
    BY <1>0, <2>1, NothingNewBelow
  <2>3. Handled(r, a)
    BY <1>0, <1>1, <2>2 DEF GotCovered
  <2>4. phase[r] # "none"
    BY <1>0, <1>1 DEF Phases
  <2>. QED  BY <1>0, <2>2, <2>3, <2>4, HandledEverywhere DEF HandledStays
<1>2. ASSUME NEW s \in Sessions, WriterSends(s), v \notin got[r]  PROVE Handled(r, a)'
  <2>1. Shifted(s) /\ Head(queue[s]) = queue[s][1]
    BY <1>0, <1>2, PopFacts DEF WriterSends
  <2>2. r = s /\ v = queue[s][1] /\ v # Done /\ phase[s] = "open" /\ stored' = stored
    BY <1>0, <1>2, <2>1 DEF WriterSends, SessionOK, publishVars
  <2>3. 1 \in DOMAIN queue[s] /\ \A i \in DOMAIN queue[s] : ~(i < 1)
    BY <2>1 DEF Shifted
  <2>4. InStream(a)
    BY <2>2 DEF InStream
  <2>5. Handled(r, a)
    BY <1>0, <2>2, <2>3, <2>4 DEF QueueCovered
  <2>. QED  BY <1>0, <2>2, <2>4, <2>5, HandledEverywhere DEF HandledStays
<1>3. got' = got \/ \E s \in Sessions : WriterSends(s)
  BY DEF Next, SessionStep, ReplayStep, Make, Publish, Unsubscribe, Subscribe, StrayWrite, OnAlert,
         Connect, Deregister, OnAck, LateAck, CursorWritten, CursorWriteFails, StartTasks, SessionEnds,
         ReplayCursor, ReplayStream, ReplaySend, ReplayFails, WorkerDies, deviceVars
<1>. QED  BY <1>1, <1>2, <1>3

LEMMA QueuesKept ==
  ASSUME Base, StreamInv, DeliveryInv, Next
  PROVE  QueueCovered'
<1>0. /\ PublishOK /\ QueueOK /\ PlanOK /\ SessionOK /\ AckOK /\ Phases
      /\ DoneOnce /\ KnownOnly /\ Ordered /\ QueueCovered /\ PlanCovered /\ LiveCovered /\ AcksCovered
  BY TypeParts DEF Base, StreamInv, DeliveryInv
<1>. SUFFICES ASSUME NEW r \in Sessions, NEW j \in DOMAIN queue'[r], NEW a \in Inside,
                     queue'[r][j] # Done, InStream(a)', a < queue'[r][j]
              PROVE  Handled(r, a)' \/ \E i \in DOMAIN queue'[r] : i < j /\ queue'[r][i] = a
  BY DEF QueueCovered
<1>. DEFINE Goal == Handled(r, a)' \/ \E i \in DOMAIN queue'[r] : i < j /\ queue'[r][i] = a
<1>1. ASSUME j \in DOMAIN queue[r],
             \A i \in DOMAIN queue[r] : i \in DOMAIN queue'[r] /\ queue'[r][i] = queue[r][i]
      PROVE  Goal
  <2>1. InStream(queue[r][j])
    BY <1>0, <1>1 DEF KnownOnly, Known
  <2>2. InStream(a)
    BY <1>0, <1>1, <2>1, NothingNewBelow
  <2>3. Handled(r, a) \/ \E i \in DOMAIN queue[r] : i < j /\ queue[r][i] = a
    BY <1>0, <1>1, <2>2 DEF QueueCovered
  <2>4. phase[r] # "none"
    <3>1. DOMAIN <<>> = {}
      OBVIOUS
    <3>. QED  BY <1>0, <1>1, <3>1 DEF Phases
  <2>5. Handled(r, a) => Handled(r, a)'
    BY <1>0, <2>2, <2>4, HandledEverywhere DEF HandledStays
  <2>. QED  BY <1>1, <2>3, <2>5
<1>2. ASSUME NEW m, Pushed(r, m), phase[r] # "none", stored' = stored,
             \A b \in Inside : (m # Done /\ InStream(b) /\ b < m) => Handled(r, b) \/ Waits(r, b)
      PROVE  Goal
  <2>1. CASE j \in DOMAIN queue[r]
    BY <1>1, <1>2, <2>1 DEF Pushed
  <2>2. CASE j \notin DOMAIN queue[r]
    <3>1. j = Len(queue[r]) + 1 /\ queue'[r][j] = m
      BY <1>2, <2>2 DEF Pushed
    <3>2. InStream(a)
      BY <1>2 DEF InStream
    <3>3. Handled(r, a) \/ Waits(r, a)
      BY <1>2, <3>1, <3>2
    <3>4. Handled(r, a) => Handled(r, a)'
      BY <1>0, <1>2, <3>2, HandledEverywhere DEF HandledStays
    <3>5. ASSUME Waits(r, a)  PROVE Goal
      <4>1. PICK i \in DOMAIN queue[r] : queue[r][i] = a
        BY <3>5 DEF Waits
      <4>2. i \in DOMAIN queue'[r] /\ i < j /\ queue'[r][i] = a
        BY <1>2, <3>1, <4>1 DEF Pushed
      <4>. QED  BY <4>2
    <3>. QED  BY <3>3, <3>4, <3>5
  <2>. QED  BY <2>1, <2>2
<1>3. CASE queue'[r] = queue[r]
  BY <1>1, <1>3
<1>4. CASE queue'[r] = <<>>
  BY <1>4, EmptyWaits
<1>5. CASE OnAlert
  <2>1. stored' = stored /\ wire # <<>>
    BY <1>5 DEF OnAlert
  <2>2. CASE queue' = queue
    BY <1>3, <2>2
  <2>3. CASE current \in Sessions /\ wire[1] \in Inside /\ HasRoom(current) /\ Pushed(current, wire[1])
    <3>1. CASE r # current
      BY <1>3, <2>3, <3>1 DEF Pushed, Others
    <3>2. CASE r = current
      <4>1. Open(r) /\ phase[r] # "none" /\ current # 0
        BY <2>3, <3>2 DEF HasRoom, Open, Sessions
      <4>2. ASSUME NEW b \in Inside, InStream(b), b < wire[1]  PROVE Handled(r, b) \/ Waits(r, b)
        <5>1. ~OnWire(b)
          <6>1. ASSUME NEW i \in DOMAIN wire, wire[i] = b  PROVE FALSE
            <7>1. Len(wire) \in Nat /\ DOMAIN wire = 1..Len(wire) /\ b \in Int
              BY <1>0, InsideAssumption, WireIsStored
            <7>2. 1 \in DOMAIN wire /\ (i = 1 \/ 1 < i)
              BY <6>1, <7>1
            <7>3. wire[1] \in Int
              BY <1>0, <7>2, WireIsStored
            <7>. QED  BY <1>0, <4>2, <6>1, <7>1, <7>2, <7>3 DEF Ordered
          <6>. QED  BY <6>1 DEF OnWire
        <5>. QED  BY <1>0, <3>2, <4>1, <4>2, <5>1 DEF LiveCovered
      <4>. QED  BY <1>2, <2>1, <2>3, <3>2, <4>1, <4>2
    <3>. QED  BY <3>1, <3>2
  <2>. QED  BY <1>0, <1>5, <2>2, <2>3, OnAlertFacts
<1>6. ASSUME NEW s \in Sessions, ReplaySend(s)  PROVE Goal
  <2>1. stored' = stored
    BY <1>6 DEF ReplaySend, publishVars
  <2>2. /\ replay[s] = "sending" /\ phase[s] # "none"
        /\ Pushed(s, Done) \/ \E m \in plan[s] : Pushed(s, m)
    BY <1>0, <1>6, ReplaySendFacts DEF HasRoom, Open
  <2>3. CASE r # s
    BY <1>3, <2>2, <2>3 DEF Pushed, Others
  <2>4. CASE r = s /\ Pushed(s, Done)
    BY <1>2, <2>1, <2>2, <2>4
  <2>5. ASSUME NEW m \in plan[s], r = s, Pushed(s, m)  PROVE Goal
    <3>1. \A b \in Inside : (InStream(b) /\ b < m) => Handled(r, b)
      BY <1>0, <2>2, <2>5 DEF PlanCovered
    <3>. QED  BY <1>2, <2>1, <2>2, <2>5, <3>1
  <2>. QED  BY <2>2, <2>3, <2>4, <2>5
<1>7. ASSUME NEW s \in Sessions, WriterSends(s)  PROVE Goal
  <2>1. Shifted(s) /\ Head(queue[s]) = queue[s][1]
    BY <1>0, <1>7, PopFacts DEF WriterSends
  <2>2. phase[s] = "open" /\ stored' = stored
    BY <1>7 DEF WriterSends, publishVars
  <2>3. CASE r # s
    BY <1>3, <2>1, <2>3 DEF Shifted, Others
  <2>4. CASE r = s
    <3>1. j \in Int /\ j + 1 \in DOMAIN queue[r] /\ queue'[r][j] = queue[r][j + 1]
      BY <2>1, <2>4 DEF Shifted
    <3>2. InStream(a)
      BY <2>2 DEF InStream
    <3>3. Handled(r, a) \/ \E i \in DOMAIN queue[r] : i < j + 1 /\ queue[r][i] = a
      BY <1>0, <3>1, <3>2 DEF QueueCovered
    <3>4. Handled(r, a) => Handled(r, a)'
      BY <1>0, <2>2, <2>4, <3>2, HandledEverywhere DEF HandledStays
    <3>5. ASSUME NEW i \in DOMAIN queue[r], i < j + 1, queue[r][i] = a  PROVE Goal
      <4>1. CASE i = 1
        <5>1. a # Done /\ Head(queue[s]) = a
          BY <2>1, <2>4, <3>5, <4>1, InsideAssumption DEF Done
        <5>2. got'[s] = got[s] \cup {a}
          BY <1>0, <1>7, <5>1 DEF WriterSends, SessionOK
        <5>. QED  BY <5>2 DEF Handled, Safe
      <4>2. CASE i # 1
        <5>1. i \in Int /\ i - 1 \in DOMAIN queue'[r]
          BY <2>1, <2>4, <3>5, <4>2 DEF Shifted
        <5>2. queue'[r][i - 1] = queue[r][(i - 1) + 1] /\ (i - 1) + 1 = i
          BY <2>1, <2>4, <5>1 DEF Shifted
        <5>. QED  BY <3>1, <3>5, <5>1, <5>2
      <4>. QED  BY <4>1, <4>2
    <3>. QED  BY <3>3, <3>4, <3>5
  <2>. QED  BY <2>3, <2>4
<1>8. ASSUME NEW s \in Sessions, SessionEnds(s)  PROVE Goal
  BY <1>0, <1>3, <1>4, <1>8 DEF SessionEnds, QueueOK
<1>9. CASE WorkerDies
  BY <1>4, <1>9 DEF WorkerDies
<1>10. \/ OnAlert \/ WorkerDies \/ queue' = queue
       \/ \E s \in Sessions : ReplaySend(s) \/ WriterSends(s) \/ SessionEnds(s)
  BY DEF Next, SessionStep, ReplayStep, Make, Publish, Unsubscribe, Subscribe, StrayWrite,
         Connect, StartTasks, Deregister, ReplayCursor, ReplayStream, ReplayFails,
         OnAck, LateAck, CursorWritten, CursorWriteFails
<1>. QED  BY <1>3, <1>5, <1>6, <1>7, <1>8, <1>9, <1>10

LEMMA PlansKept ==
  ASSUME Base, StreamInv, DeliveryInv, Next
  PROVE  PlanCovered'
<1>0. /\ PublishOK /\ QueueOK /\ PlanOK /\ SessionOK /\ AckOK /\ Phases
      /\ DoneOnce /\ KnownOnly /\ Ordered /\ PlanCovered /\ SinceCovered /\ AcksCovered
  BY TypeParts DEF Base, StreamInv, DeliveryInv
<1>. SUFFICES ASSUME NEW r \in Sessions, NEW v \in plan'[r], NEW a \in Inside,
                     replay'[r] = "sending", InStream(a)', a < v
              PROVE  Handled(r, a)'
  BY DEF PlanCovered
<1>1. CASE v \in plan[r] /\ replay[r] = "sending"
  <2>1. InStream(v)
    BY <1>0, <1>1 DEF KnownOnly, Known
  <2>2. InStream(a)
    BY <1>0, <2>1, NothingNewBelow
  <2>3. Handled(r, a)
    BY <1>0, <1>1, <2>2 DEF PlanCovered
  <2>4. phase[r] # "none"
    BY <1>0, <1>1 DEF Phases
  <2>. QED  BY <1>0, <2>2, <2>3, <2>4, HandledEverywhere DEF HandledStays
<1>2. CASE ReplayStream(r)
  <2>0. PICK n \in 0..MaxRead :
              /\ plan' = [plan EXCEPT ![r] = PlanReplay(r, n)]
              /\ excused' = excused \cup (Wanted(r, n) \ PlanReplay(r, n))
              /\ cut' = cut \cup (Wanted(r, Len(stored)) \ Wanted(r, n))
    BY <1>2 DEF ReplayStream
  <2>1. replay[r] = "stream" /\ stored' = stored /\ plan'[r] = PlanReplay(r, n)
    BY <1>0, <1>2, <2>0 DEF ReplayStream, PlanOK, publishVars
  <2>2. InStream(a)
    BY <2>1 DEF InStream
  <2>3. v \in Wanted(r, n) /\ v \in Inside
    BY <1>0, <2>1, PlanIsShort
  <2>4. v < connected[r] + Overlap /\ a \in Int /\ v \in Int
    BY <2>3, InsideAssumption DEF Wanted
  <2>5. since[r] \in Int /\ connected[r] + Overlap \in Int
    BY <1>0, ReplayNumbers DEF SessionOK
  <2>6. CASE since[r] < a
    <3>1. a \in Wanted(r, Len(stored))
      BY <2>2, <2>4, <2>5, <2>6, ReplayReadsAll
    <3>2. a \in plan'[r] \/ a \in excused' \cup cut'
      BY <2>0, <2>1, <3>1
    <3>. QED  BY <3>2 DEF Handled, Safe, ReplayCovers
  <2>7. CASE a <= since[r]
    <3>1. Safe(a) \/ Dropped(a)
      BY <1>0, <2>1, <2>7 DEF SinceCovered, Covered
    <3>2. Safe(a)
      BY <2>2, <3>1 DEF Dropped
    <3>. QED  BY <3>2, SafeGrows DEF Handled
  <2>. QED  BY <2>4, <2>5, <2>6, <2>7
<1>3. \/ ReplayStream(r)
      \/ plan'[r] \subseteq plan[r] /\ replay[r] = "sending"
  <2>1. ASSUME NEW s \in Sessions,
               \/ ReplayStream(s) \/ StartTasks(s) \/ ReplayCursor(s) \/ ReplayFails(s)
               \/ SessionEnds(s)
        PROVE  ReplayStream(r) \/ (plan'[r] \subseteq plan[r] /\ replay[r] = "sending")
    BY <1>0, <2>1 DEF ReplayStream, StartTasks, ReplayCursor, ReplayFails, SessionEnds, EndReplay,
         PlanOK, SessionOK
  <2>2. ASSUME NEW s \in Sessions, ReplaySend(s)
        PROVE  plan'[r] \subseteq plan[r] /\ replay[r] = "sending"
    <3>1. /\ replay[s] = "sending"
          /\ \/ \E m \in plan[s] : plan' = [plan EXCEPT ![s] = @ \ {m}] /\ replay' = replay
             \/ plan' = plan /\ replay' = [replay EXCEPT ![s] = "over"]
      BY <1>0, <2>2, ReplaySendFacts
    <3>. QED  BY <1>0, <3>1 DEF PlanOK, SessionOK
  <2>3. CASE WorkerDies
    BY <2>3 DEF WorkerDies
  <2>4. CASE UNCHANGED <<plan, replay>>
    BY <2>4
  <2>5. \/ WorkerDies \/ UNCHANGED <<plan, replay>>
        \/ \E s \in Sessions :
              \/ ReplayStream(s) \/ StartTasks(s) \/ ReplayCursor(s) \/ ReplayFails(s)
              \/ SessionEnds(s) \/ ReplaySend(s)
    BY DEF Next, SessionStep, ReplayStep, Make, Publish, Unsubscribe, Subscribe, StrayWrite, OnAlert,
         Connect, Deregister, OnAck, LateAck, CursorWritten, CursorWriteFails, replayVars, WriterSends
  <2>. QED  BY <2>1, <2>2, <2>3, <2>4, <2>5
<1>. QED  BY <1>1, <1>2, <1>3

LEMMA LiveKept ==
  ASSUME Base, StreamInv, DeliveryInv, Next
  PROVE  LiveCovered'
<1>0. /\ PublishOK /\ QueueOK /\ PlanOK /\ SessionOK /\ AckOK /\ Phases
      /\ DoneOnce /\ KnownOnly /\ Ordered /\ Subscribed /\ LiveCovered /\ AcksCovered
  BY TypeParts DEF Base, StreamInv, DeliveryInv
<1>. SUFFICES ASSUME NEW c, c = current', c # 0, Open(c)', NEW a \in Inside, InStream(a)'
              PROVE  OnWire(a)' \/ Handled(c, a)' \/ Waits(c, a)'
  <2>1. ASSUME (current # 0 /\ Open(current))', NEW a \in Inside, InStream(a)',
               \A c : (c = current' /\ c # 0 /\ Open(c)') =>
                  (OnWire(a)' \/ Handled(c, a)' \/ Waits(c, a)')
        PROVE  (OnWire(a) \/ Handled(current, a) \/ Waits(current, a))'
    <3>1. PICK c : c = current'
      OBVIOUS
    <3>2. c # 0 /\ Open(c)'
      BY <2>1, <3>1 DEF Open
    <3>3. OnWire(a)' \/ Handled(c, a)' \/ Waits(c, a)'
      BY <2>1, <3>1, <3>2
    <3>. QED  BY <3>1, <3>3 DEF Handled, Lost, ReplayCovers, Waits
  <2>. QED  BY <2>1 DEF LiveCovered
<1>. DEFINE Goal == OnWire(a)' \/ Handled(c, a)' \/ Waits(c, a)'
<1>1. CASE \E s \in Sessions : Connect(s)
  <2>1. PICK s \in Sessions : Connect(s)
    BY <1>1
  <2>2. /\ c = s /\ stored' = stored /\ phase[s] = "none" /\ replay' = replay
        /\ connected'[s] = made + skew
    BY <1>0, <2>1 DEF Connect, publishVars, replayVars, SessionOK, Clock
  <2>3. replay[s] = "no"
    BY <1>0, <2>2 DEF Phases
  <2>4. a \in 1..made /\ made \in Nat
    <3>1. InStream(a)
      BY <2>2 DEF InStream
    <3>. QED  BY <1>0, <3>1, StreamIsMade DEF PublishOK
  <2>5. a < connected'[s] + Overlap
    BY <1>0, <2>2, <2>4, ReplayNumbers DEF SessionOK
  <2>. QED  BY <2>2, <2>3, <2>5 DEF Handled, ReplayCovers
<1>2. CASE ~\E s \in Sessions : Connect(s)
  <2>1. c = current /\ c \in Sessions
    <3>1. current' = current \/ current' = 0
      BY <1>2 DEF Next, SessionStep, ReplayStep, Make, Publish, Unsubscribe, Subscribe, StrayWrite, OnAlert,
         Deregister, OnAck, LateAck, CursorWritten, CursorWriteFails, StartTasks, SessionEnds, WriterSends,
         ReplayCursor, ReplayStream, ReplaySend, ReplayFails, WorkerDies
    <3>. QED  BY <1>0, <3>1, ReplayNumbers DEF SessionOK, Sessions
  <2>2. Open(c)
    <3>1. ASSUME NEW s \in Sessions, StartTasks(s) \/ SessionEnds(s) \/ Deregister(s)  PROVE Open(c)
      BY <1>0, <2>1, <3>1 DEF StartTasks, SessionEnds, Deregister, Open, SessionOK
    <3>2. CASE WorkerDies
      BY <2>1, <3>2 DEF WorkerDies
    <3>3. CASE phase' = phase
      BY <3>3 DEF Open
    <3>4. \/ WorkerDies \/ phase' = phase
          \/ \E s \in Sessions : StartTasks(s) \/ SessionEnds(s) \/ Deregister(s)
      BY <1>2 DEF Next, SessionStep, ReplayStep, Make, Publish, Unsubscribe, Subscribe, StrayWrite, OnAlert,
         OnAck, LateAck, CursorWritten, CursorWriteFails, WriterSends,
         ReplayCursor, ReplayStream, ReplaySend, ReplayFails
    <3>. QED  BY <3>1, <3>2, <3>3, <3>4
  <2>3. phase[c] # "none" /\ current # 0
    BY <2>1, <2>2 DEF Open
  <2>4. InStream(a) => OnWire(a) \/ Handled(c, a) \/ Waits(c, a)
    BY <1>0, <2>1, <2>2, <2>3 DEF LiveCovered
  <2>5. (InStream(a) /\ Handled(c, a)) => Handled(c, a)'
    BY <1>0, <2>1, <2>3, HandledEverywhere DEF HandledStays
  <2>6. ASSUME NEW b \in Alerts, NEW kept \in BOOLEAN, Publish(b, kept)  PROVE Goal
    <3>1. /\ InStream(a) \/ (kept /\ a = b)
          /\ OnWire(a) => OnWire(a)'
          /\ kept /\ up => OnWire(b)'
      BY <1>0, <2>6, PublishFacts
    <3>2. queue' = queue /\ up
      BY <1>0, <2>3, <2>6 DEF Publish, Subscribed
    <3>3. Waits(c, a) => Waits(c, a)'
      BY <3>2 DEF Waits
    <3>. QED  BY <2>4, <2>5, <3>1, <3>2, <3>3
  <2>7. CASE OnAlert
    <3>1. stored' = stored /\ wire' = Tail(wire) /\ wire # <<>> /\ wire \in Seq(ToSet(stored))
      BY <1>0, <2>7 DEF OnAlert, PublishOK
    <3>2. InStream(a)
      BY <3>1 DEF InStream
    <3>3. OnWire(a) => OnWire(a)' \/ a = wire[1]
      <4>1. ASSUME NEW q, q = Tail(wire)
            PROVE  \A i \in DOMAIN wire : i = 1 \/ (i - 1 \in DOMAIN q /\ q[i - 1] = wire[i])
        <5>1. Len(wire) \in Nat /\ DOMAIN wire = 1..Len(wire) /\ DOMAIN q = 1..(Len(wire) - 1)
          BY <3>1, <4>1, Popped
        <5>2. \A i \in DOMAIN q : q[i] = wire[i + 1]
          BY <3>1, <4>1, Popped
        <5>. QED  BY <5>1, <5>2
      <4>2. \A i \in DOMAIN wire : i = 1 \/ (i - 1 \in DOMAIN wire' /\ wire'[i - 1] = wire[i])
        BY <3>1, <4>1
      <4>. QED  BY <4>2 DEF OnWire
    <3>4. \/ Pushed(c, wire[1])
          \/ queue' = queue /\ (a = wire[1] => a \in excused')
      BY <1>0, <2>1, <2>2, <2>3, <2>7, OnAlertFacts
    <3>5. CASE Pushed(c, wire[1])
      <4>1. \A x : Waits(c, x)' <=> (Waits(c, x) \/ x = wire[1])
        BY <3>5, PushedWaits
      <4>. QED  BY <2>4, <2>5, <3>2, <3>3, <4>1
    <3>6. CASE queue' = queue /\ (a = wire[1] => a \in excused')
      <4>1. Waits(c, a) => Waits(c, a)'
        BY <3>6 DEF Waits
      <4>2. a = wire[1] => Handled(c, a)'
        BY <3>6 DEF Handled, Safe
      <4>. QED  BY <2>4, <2>5, <3>2, <3>3, <4>1, <4>2
    <3>. QED  BY <3>4, <3>5, <3>6
  <2>8. ASSUME stored' = stored, wire' = wire, Waits(c, a) => Waits(c, a)' \/ Safe(a)'  PROVE Goal
    <3>1. InStream(a) /\ (OnWire(a) => OnWire(a)')
      BY <2>8 DEF InStream, OnWire
    <3>. QED  BY <2>4, <2>5, <2>8, <3>1 DEF Handled
  <2>9. ASSUME NEW s \in Sessions, ReplaySend(s)  PROVE Goal
    <3>1. stored' = stored /\ wire' = wire
      BY <2>9 DEF ReplaySend, publishVars
    <3>2. \E m : Pushed(s, m)
      BY <1>0, <2>9, ReplaySendFacts
    <3>3. Waits(c, a) => Waits(c, a)'
      <4>1. CASE c = s
        BY <3>2, <4>1, PushedWaits
      <4>2. CASE c # s
        BY <2>1, <3>2, <4>2 DEF Pushed, Others, Waits
      <4>. QED  BY <4>1, <4>2
    <3>. QED  BY <2>8, <3>1, <3>3
  <2>10. ASSUME NEW s \in Sessions, WriterSends(s)  PROVE Goal
    <3>1. stored' = stored /\ wire' = wire
      BY <2>10 DEF WriterSends, publishVars
    <3>2. Shifted(s) /\ Head(queue[s]) = queue[s][1]
      BY <1>0, <2>10, PopFacts DEF WriterSends
    <3>3. CASE c # s
      <4>1. Waits(c, a) => Waits(c, a)'
        BY <2>1, <3>2, <3>3 DEF Shifted, Others, Waits
      <4>. QED  BY <2>8, <3>1, <4>1
    <3>4. CASE c = s
      <4>1. Waits(c, a) => Waits(c, a)' \/ a = queue[c][1]
        BY <3>2, <3>4, ShiftedWaits
      <4>2. ASSUME a = queue[c][1]  PROVE Safe(a)'
        <5>1. a # Done /\ Head(queue[s]) = a
          BY <3>2, <3>4, <4>2, InsideAssumption DEF Done
        <5>2. got'[s] = got[s] \cup {a}
          BY <1>0, <2>10, <5>1 DEF WriterSends, SessionOK
        <5>. QED  BY <5>2 DEF Safe
      <4>. QED  BY <2>8, <3>1, <4>1, <4>2
    <3>. QED  BY <3>3, <3>4
  <2>11. ASSUME NEW s \in Sessions, SessionEnds(s)  PROVE Goal
    <3>1. stored' = stored /\ wire' = wire /\ phase'[s] = "closing"
      BY <1>0, <2>11 DEF SessionEnds, publishVars, SessionOK
    <3>2. c # s
      BY <3>1 DEF Open
    <3>3. queue'[c] = queue[c]
      BY <1>0, <2>1, <2>11, <3>2 DEF SessionEnds, QueueOK
    <3>4. Waits(c, a) => Waits(c, a)'
      BY <3>3 DEF Waits
    <3>. QED  BY <2>8, <3>1, <3>4
  <2>12. CASE WorkerDies
    BY <2>1, <2>3, <2>12 DEF WorkerDies
  <2>13. CASE UNCHANGED <<stored, wire, queue>>
    <3>1. Waits(c, a) => Waits(c, a)'
      BY <2>13 DEF Waits
    <3>. QED  BY <2>8, <2>13, <3>1
  <2>14. \/ OnAlert \/ WorkerDies \/ UNCHANGED <<stored, wire, queue>>
         \/ \E b \in Alerts, kept \in BOOLEAN : Publish(b, kept)
         \/ \E s \in Sessions : ReplaySend(s) \/ WriterSends(s) \/ SessionEnds(s)
    BY <1>2 DEF Next, SessionStep, ReplayStep, Make, Unsubscribe, Subscribe, StrayWrite,
         StartTasks, Deregister, ReplayCursor, ReplayStream, ReplayFails,
         OnAck, LateAck, CursorWritten, CursorWriteFails, publishVars
  <2>. QED  BY <2>6, <2>7, <2>9, <2>10, <2>11, <2>12, <2>13, <2>14
<1>. QED  BY <1>1, <1>2

LEMMA SinceKept ==
  ASSUME Base, StreamInv, DeliveryInv, Next
  PROVE  SinceCovered'
<1>0. SessionOK /\ AckOK /\ SinceCovered /\ AcksCovered
  BY TypeParts DEF Base, DeliveryInv
<1>. SUFFICES ASSUME NEW r \in Sessions, replay'[r] = "stream"  PROVE Covered(since[r])'
  BY DEF SinceCovered
<1>. SUFFICES ASSUME NEW v, v = since'[r]  PROVE Covered(v)'
  <2>1. PICK v : v = since'[r]
    OBVIOUS
  <2>2. Covered(v)'
    BY <2>1
  <2>. QED  BY <2>1, <2>2 DEF Covered
<1>1. CASE replay[r] = "stream" /\ since'[r] = since[r]
  <2>1. Covered(v)
    BY <1>0, <1>1 DEF SinceCovered
  <2>. QED  BY <2>1, CoveredStays
<1>2. CASE ReplayCursor(r)
  <2>1. /\ v = IF cursor # 0 THEN cursor ELSE connected[r] - Window
        /\ cursor = 0 => excused' = excused \cup {a \in Alerts : a <= connected[r] - Window}
    BY <1>0, <1>2 DEF ReplayCursor, SessionOK
  <2>2. CASE cursor # 0
    BY <1>0, <2>1, <2>2, CoveredStays DEF AcksCovered
  <2>3. CASE cursor = 0
    BY <2>1, <2>3, InsideAssumption DEF Covered, Safe, Alerts
  <2>. QED  BY <2>2, <2>3
<1>3. ReplayCursor(r) \/ (replay[r] = "stream" /\ since'[r] = since[r])
  <2>1. ASSUME NEW s \in Sessions,
               \/ ReplayStream(s) \/ StartTasks(s) \/ ReplayCursor(s) \/ ReplayFails(s)
               \/ SessionEnds(s) \/ ReplaySend(s)
        PROVE  ReplayCursor(r) \/ (replay[r] = "stream" /\ since'[r] = since[r])
    <3>1. CASE ReplaySend(s)
      BY <1>0, <3>1 DEF ReplaySend, SessionOK
    <3>2. CASE ~ReplaySend(s)
      BY <1>0, <2>1, <3>2 DEF ReplayStream, StartTasks, ReplayCursor, ReplayFails, SessionEnds, EndReplay,
         SessionOK
    <3>. QED  BY <3>1, <3>2
  <2>2. CASE WorkerDies
    BY <2>2 DEF WorkerDies
  <2>3. CASE UNCHANGED <<replay, since>>
    BY <2>3
  <2>4. \/ WorkerDies \/ UNCHANGED <<replay, since>>
        \/ \E s \in Sessions :
              \/ ReplayStream(s) \/ StartTasks(s) \/ ReplayCursor(s) \/ ReplayFails(s)
              \/ SessionEnds(s) \/ ReplaySend(s)
    BY DEF Next, SessionStep, ReplayStep, Make, Publish, Unsubscribe, Subscribe, StrayWrite, OnAlert,
         Connect, Deregister, OnAck, LateAck, CursorWritten, CursorWriteFails, replayVars, WriterSends
  <2>. QED  BY <2>1, <2>2, <2>3, <2>4
<1>. QED  BY <1>1, <1>2, <1>3

(* A device that has replay_complete and acknowledges an alert has every one *)
(* before it                                                                 *)
LEMMA AckIsCovered ==
  ASSUME Base, StreamInv, DeliveryInv, NEW s \in settled, NEW v \in got[s]
  PROVE  Covered(v)
<1>0. PublishOK /\ SessionOK /\ DoneOnce /\ KnownOnly /\ Ordered /\ GotCovered /\ s \in Sessions
  BY TypeParts DEF Base, StreamInv, DeliveryInv, SessionOK
<1>1. InStream(v) /\ v \in 1..made /\ made \in Nat
  <2>1. InStream(v)
    BY <1>0 DEF KnownOnly, Known
  <2>. QED  BY <1>0, <2>1, StreamIsMade DEF PublishOK
<1>. SUFFICES ASSUME NEW a \in Inside, a <= v  PROVE Safe(a) \/ Dropped(a)
  BY DEF Covered
<1>2. CASE a = v
  BY <1>0, <1>2 DEF Safe
<1>3. CASE a # v
  <2>1. a \in Int /\ a < v
    BY <1>1, <1>3, InsideAssumption
  <2>2. CASE InStream(a)
    <3>1. Handled(s, a)
      BY <1>0, <2>1, <2>2 DEF GotCovered
    <3>2. ~Lost(s)
      BY DEF Lost
    <3>3. replay[s] = "over" /\ ~Waits(s, Done)
      BY <1>0 DEF DoneOnce
    <3>4. ~ReplayCovers(s, a)
      BY <3>3 DEF ReplayCovers, Waits
    <3>. QED  BY <3>1, <3>2, <3>4 DEF Handled
  <2>3. CASE ~InStream(a)
    <3>1. a < made
      BY <1>1, <2>1
    <3>2. a \notin unsent
      BY <1>0, <1>1, <2>1, <3>1 DEF Ordered
    <3>. QED  BY <1>1, <2>1, <2>3, <3>1, <3>2 DEF Dropped
  <2>. QED  BY <2>2, <2>3
<1>. QED  BY <1>2, <1>3

LEMMA AcksKept ==
  ASSUME Settled, Base, StreamInv, DeliveryInv, Next
  PROVE  AcksCovered'
<1>0. SessionOK /\ AckOK /\ AcksCovered
  BY TypeParts DEF Base, DeliveryInv
<1>1. Covered(0)
  BY InsideAssumption DEF Covered
<1>2. ASSUME Covered(cursor'), \A v \in stray' : Covered(v),
             \A s \in Sessions : Covered(pending'[s]) /\ Covered(writing'[s])
      PROVE  AcksCovered'
  <2>1. \A v : Covered(v) => Covered(v)'
    BY CoveredStays
  <2>2. Covered(cursor)'
    <3>1. PICK v : v = cursor'
      OBVIOUS
    <3>2. Covered(v)'
      BY <1>2, <2>1, <3>1
    <3>. QED  BY <3>1, <3>2 DEF Covered
  <2>3. ASSUME NEW s \in Sessions  PROVE Covered(pending[s])' /\ Covered(writing[s])'
    <3>1. PICK v, w : v = pending'[s] /\ w = writing'[s]
      OBVIOUS
    <3>2. Covered(v)' /\ Covered(w)'
      BY <1>2, <2>1, <3>1
    <3>. QED  BY <3>1, <3>2 DEF Covered
  <2>4. \A v \in stray' : Covered(v)'
    BY <1>2, <2>1
  <2>. QED  BY <2>2, <2>3, <2>4 DEF AcksCovered
<1>3. /\ Covered(cursor) /\ \A v \in stray : Covered(v)
      /\ \A s \in Sessions : Covered(pending[s]) /\ Covered(writing[s])
  BY <1>0 DEF AcksCovered
<1>4. ASSUME NEW s \in Sessions, NEW a \in Alerts, NEW due \in BOOLEAN, OnAck(s, a, due)
      PROVE  AcksCovered'
  <2>1. Covered(a)
    BY <1>4, AckIsCovered DEF OnAck, Acks
  <2>2. Covered(Offer(s, a))
    <3>1. Offer(s, a) = pending[s] \/ Offer(s, a) = a
      BY DEF Offer, Newer
    <3>. QED  BY <1>3, <2>1, <3>1
  <2>3. PICK o : o = Offer(s, a)
    OBVIOUS
  <2>4. \A r \in Sessions : /\ pending'[r] \in {0, o, pending[r]}
                            /\ writing'[r] \in {0, o, writing[r]}
    BY <1>0, <1>4, <2>3 DEF OnAck, AckOK
  <2>5. UNCHANGED <<stray, cursor>>
    BY <1>4 DEF OnAck
  <2>6. \A r \in Sessions : Covered(pending'[r]) /\ Covered(writing'[r])
    BY <1>1, <1>3, <2>2, <2>3, <2>4
  <2>. QED  BY <1>2, <1>3, <2>5, <2>6
<1>5. ASSUME NEW s \in Sessions, CursorWritten(s)  PROVE AcksCovered'
  <2>1. /\ cursor' = cursor \/ cursor' = writing[s]
        /\ UNCHANGED <<stray, pending>>
        /\ \A r \in Sessions : writing'[r] \in {0, writing[r]}
    BY <1>0, <1>5 DEF CursorWritten, Advance, Newer, AckOK
  <2>2. Covered(cursor')
    BY <1>3, <2>1
  <2>3. \A r \in Sessions : Covered(pending'[r]) /\ Covered(writing'[r])
    BY <1>1, <1>3, <2>1
  <2>. QED  BY <1>2, <1>3, <2>1, <2>2, <2>3
<1>6. ASSUME NEW s \in Sessions, CursorWriteFails(s)  PROVE AcksCovered'
  <2>1. /\ UNCHANGED <<cursor, pending>> /\ stray' \subseteq stray \cup {writing[s]}
        /\ \A r \in Sessions : writing'[r] \in {0, writing[r]}
    BY <1>0, <1>6 DEF CursorWriteFails, Abandon, AckOK
  <2>2. \A v \in stray' : Covered(v)
    BY <1>3, <2>1
  <2>3. \A r \in Sessions : Covered(pending'[r]) /\ Covered(writing'[r])
    BY <1>1, <1>3, <2>1
  <2>. QED  BY <1>2, <1>3, <2>1, <2>2, <2>3
<1>7. ASSUME NEW v \in Alerts, StrayWrite(v)  PROVE AcksCovered'
  <2>1. /\ cursor' = cursor \/ cursor' = v
        /\ v \in stray /\ stray' \subseteq stray /\ UNCHANGED <<pending, writing>>
    BY <1>7 DEF StrayWrite, Advance, Newer, ackVars
  <2>2. Covered(cursor')
    BY <1>3, <2>1
  <2>. QED  BY <1>2, <1>3, <2>1, <2>2
<1>8. ASSUME NEW s \in Sessions, SessionEnds(s)  PROVE AcksCovered'
  <2>1. /\ UNCHANGED cursor /\ stray' \subseteq stray \cup {writing[s]}
        /\ \A r \in Sessions : writing'[r] \in {pending[r], writing[r]} /\ pending'[r] \in {0, pending[r]}
    BY <1>0, <1>8 DEF SessionEnds, Abandon, AckOK
  <2>2. \A v \in stray' : Covered(v)
    BY <1>3, <2>1
  <2>3. \A r \in Sessions : Covered(pending'[r]) /\ Covered(writing'[r])
    BY <1>1, <1>3, <2>1
  <2>. QED  BY <1>2, <1>3, <2>1, <2>2, <2>3
<1>9. CASE WorkerDies
  <2>1. /\ UNCHANGED cursor
        /\ \A v \in stray' : v \in stray \/ \E s \in Sessions : v = writing[s]
        /\ \A r \in Sessions : writing'[r] = 0 /\ pending'[r] = 0
    BY <1>9 DEF WorkerDies
  <2>2. \A v \in stray' : Covered(v)
    BY <1>3, <2>1
  <2>3. \A r \in Sessions : Covered(pending'[r]) /\ Covered(writing'[r])
    BY <1>1, <2>1
  <2>. QED  BY <1>2, <1>3, <2>1, <2>2, <2>3
<1>10. CASE UNCHANGED <<pending, writing, stray, cursor>>
  BY <1>2, <1>3, <1>10
<1>12. ASSUME NEW s \in Sessions, NEW a \in Alerts, NEW due \in BOOLEAN, LateAck(s, a, due)
       PROVE  AcksCovered'
  <2>1. Covered(a)
    BY <1>12, AckIsCovered DEF LateAck, Acks
  <2>2. PICK o : o = Offer(s, a)
    OBVIOUS
  <2>3. Covered(o)
    <3>1. o = pending[s] \/ o = a
      BY <2>2 DEF Offer, Newer
    <3>. QED  BY <1>3, <2>1, <3>1
  <2>4. \A r \in Sessions : pending'[r] \in {0, o, pending[r]}
    BY <1>0, <1>12, <2>2 DEF LateAck, AckOK
  <2>5. stray' \subseteq stray \cup {o} /\ UNCHANGED <<writing, cursor>>
    BY <1>12, <2>2 DEF LateAck
  <2>6. \A r \in Sessions : Covered(pending'[r]) /\ Covered(writing'[r])
    BY <1>1, <1>3, <2>3, <2>4, <2>5
  <2>7. \A v \in stray' : Covered(v)
    BY <1>3, <2>3, <2>5
  <2>. QED  BY <1>2, <1>3, <2>5, <2>6, <2>7
<1>11. \/ WorkerDies \/ UNCHANGED <<pending, writing, stray, cursor>>
       \/ \E v \in Alerts : StrayWrite(v)
       \/ \E s \in Sessions :
             \/ SessionEnds(s) \/ CursorWritten(s) \/ CursorWriteFails(s)
             \/ \E a \in Alerts, due \in BOOLEAN : OnAck(s, a, due) \/ LateAck(s, a, due)
  BY DEF Next, SessionStep, ReplayStep, Make, Publish, Unsubscribe, Subscribe, OnAlert,
         ackVars, Connect, StartTasks, Deregister, WriterSends, ReplayCursor, ReplayStream,
         ReplaySend, ReplayFails
<1>. QED  BY <1>4, <1>5, <1>6, <1>7, <1>8, <1>9, <1>10, <1>11, <1>12

-----------------------------------------------------------------------------
(* No alert is lost *)

LEMMA DeliveryHolds ==
  ASSUME InOrder, ~Gaps, Settled
  PROVE  Spec => []DeliveryInv
<1>1. ASSUME Init  PROVE DeliveryInv
  <2>1. /\ current = 0 /\ cursor = 0 /\ stray = {}
        /\ \A s \in Sessions : /\ queue[s] = <<>> /\ got[s] = {} /\ plan[s] = {}
                               /\ pending[s] = 0 /\ writing[s] = 0 /\ replay[s] = "no"
    BY <1>1 DEF Init
  <2>2. DOMAIN <<>> = {}
    OBVIOUS
  <2>3. Covered(0)
    BY InsideAssumption DEF Covered
  <2>4. GotCovered /\ QueueCovered /\ PlanCovered /\ LiveCovered /\ SinceCovered
    BY <2>1, <2>2 DEF GotCovered, QueueCovered, PlanCovered, LiveCovered, SinceCovered
  <2>5. AcksCovered
    BY <2>1, <2>3 DEF AcksCovered
  <2>. QED  BY <2>4, <2>5 DEF DeliveryInv
<1>2. ASSUME Base, StreamInv, DeliveryInv, [Next]_vars  PROVE DeliveryInv'
  <2>1. CASE Next
    BY <1>2, <2>1, GotKept, QueuesKept, PlansKept, LiveKept, SinceKept, AcksKept DEF DeliveryInv
  <2>2. CASE UNCHANGED vars
    <3>1. UNCHANGED <<made, unsent, stored, wire, current, phase, connected, queue, replay, since, plan,
                      pending, writing, stray, cursor, got, settled, excused, cut>>
      BY <2>2 DEF vars
    <3>2. /\ \A a : Safe(a)' <=> Safe(a)
          /\ \A a : InStream(a)' <=> InStream(a)
          /\ \A a : OnWire(a)' <=> OnWire(a)
          /\ \A s, a : Waits(s, a)' <=> Waits(s, a)
      BY <3>1 DEF Safe, InStream, OnWire, Waits
    <3>3. \A s, a : Handled(s, a)' <=> Handled(s, a)
      BY <3>1, <3>2 DEF Handled, Lost, ReplayCovers
    <3>4. \A v : Covered(v)' <=> Covered(v)
      BY <3>1, <3>2 DEF Covered, Dropped
    <3>5. GotCovered' /\ QueueCovered' /\ PlanCovered'
      BY <1>2, <3>1, <3>2, <3>3 DEF DeliveryInv, GotCovered, QueueCovered, PlanCovered
    <3>6. LiveCovered'
      BY <1>2, <3>1, <3>2, <3>3 DEF DeliveryInv, LiveCovered, Open, Handled, Lost, ReplayCovers, Waits
    <3>7. SinceCovered' /\ AcksCovered'
      BY <1>2, <3>1, <3>2, <3>4 DEF DeliveryInv, SinceCovered, AcksCovered, Covered, Dropped
    <3>. QED  BY <3>5, <3>6, <3>7 DEF DeliveryInv
  <2>. QED  BY <1>2, <2>1, <2>2
<1>. QED  BY <1>1, <1>2, BaseHolds, StreamHolds, PTL DEF Spec

(* "A duplicate is acceptable and a lost alert is not", for any number of   *)
(* alerts and sessions and whatever crashes: the cursor never passes an     *)
(* alert of the stream that is for the device and that it has not got.      *)
(* The three conditions are needed: without one of them the code does skip  *)
(* alerts (see the README).  Alerts are published in the order of their     *)
(* creation, the worker subscribes before it takes connections, and the     *)
(* device acknowledges nothing before replay_complete (run_replay).  A      *)
(* batch of the stream may end anywhere, and what was behind its end may be *)
(* skipped (cut); the theorem says that nothing else is.                    *)
THEOREM NoAlertIsSkipped ==
  ASSUME InOrder, ~Gaps, Settled
  PROVE  Spec => []NothingSkipped
<1>1. ASSUME DeliveryInv  PROVE NothingSkipped
  <2>. SUFFICES ASSUME NEW a \in ToSet(stored) \cap Inside, a <= cursor
                PROVE  a \in Received \cup excused \cup cut
    BY DEF NothingSkipped
  <2>1. Safe(a) \/ Dropped(a)
    BY <1>1 DEF DeliveryInv, AcksCovered, Covered
  <2>2. InStream(a)
    BY DEF InStream, ToSet
  <2>. QED  BY <2>1, <2>2 DEF Dropped, Safe, Received
<1>. QED  BY <1>1, DeliveryHolds, PTL
=============================================================================
