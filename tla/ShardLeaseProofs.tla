-------------------------- MODULE ShardLeaseProofs --------------------------
(***************************************************************************)
(* Proofs about ShardLease, for every set of workers, assignment of        *)
(* prefixes, time to live and bound.                                       *)
(***************************************************************************)
EXTENDS ShardLease, TLAPS

-----------------------------------------------------------------------------
(* The inductive invariant *)

(* The loops that visit every prefix *)
Shape ==
  \A w \in Workers :
    status[w] \in Claiming \cup {"releasing"} => last[w] = Len(Prefixes[w])

(* acquire_all stops at the first claim that is not won *)
AcquireAllOk == \A w \in Workers : status[w] = "acquiring" => ok[w]

(* A lease that is younger than n ticks cannot be another worker's *)
Holds(w, s, n) == owner[s] = w /\ ttl[s] >= TTL - n

(* RenewedIsHeld with the time that is left *)
RenewedBy(w) ==
  (Running(w) /\ age[w] < TTL) => \A s \in Owned(w) : Holds(w, s, age[w])

Renewed == \A w \in Workers : RenewedBy(w)

(* The prefixes a loop of claims has already won *)
Won(w, k) == k < i[w] \/ (k = i[w] /\ call[w] = "yes")

UnderWayBy(w) ==
  (status[w] \in Claiming /\ ok[w] /\ begun[w] < TTL) =>
    \A k \in 1..last[w] : Won(w, k) => Holds(w, Prefixes[w][k], begun[w])

UnderWay == \A w \in Workers : UnderWayBy(w)

(* An abandoned claim is doubted until it ran *)
OrphansAreDoubted ==
  \A w \in Workers, s \in Shards : <<"claim", w, s>> \in orphans => <<w, s>> \in doubt

(* A lease is doubted, or its owner's loop still knows of it *)
Known(w, s) ==
  \/ <<w, s>> \in doubt
  \/ Running(w) /\ s \in Owned(w)
  \/ /\ status[w] = "acquiring"
     /\ \E k \in 1..last[w] : s = Prefixes[w][k] /\ Won(w, k)
  \/ /\ status[w] \in Releasing
     /\ \E k \in 1..last[w] : /\ s = Prefixes[w][k]
                              /\ k > i[w] \/ (k = i[w] /\ call[w] = "sent")

Accounted == \A w \in Workers, s \in Shards : owner[s] = w => Known(w, s)

IInv ==
  TypeOK /\ Shape /\ AcquireAllOk /\ Renewed /\ UnderWay /\ OrphansAreDoubted /\ Accounted

-----------------------------------------------------------------------------
(* The prefixes of a worker, as the provers need them *)
LEMMA PrefixTyped ==
  /\ \A w \in Workers : /\ Prefixes[w] \in Seq(Shards)
                        /\ Len(Prefixes[w]) \in Nat
                        /\ Len(Prefixes[w]) >= 1
                        /\ Owned(w) \subseteq Shards
                        /\ \A k \in 1..Len(Prefixes[w]) :
                             Prefixes[w][k] \in Shards /\ Prefixes[w][k] \in Owned(w)
                        /\ \A s \in Owned(w) : \E k \in 1..Len(Prefixes[w]) : s = Prefixes[w][k]
  /\ Nobody \notin Workers
BY PrefixesAssumption, NobodyAssumption DEF Owned

(* Two periods of the refresher fit into one TTL *)
LEMMA EveryBound == Every \in Nat /\ Every >= 1 /\ 2 * Every < TTL
BY TTLAssumption DEF Every

(* The prefix a loop is at *)
LEMMA CurrentTyped ==
  ASSUME TypeOK, NEW w \in Workers, status[w] \in Claiming \cup Releasing
  PROVE  /\ Current(w) \in Shards
         /\ Current(w) \in Owned(w)
         /\ i[w] \in 1..Len(Prefixes[w])
         /\ Pending(w) \in Requests
<1>1. i[w] \in 1..Len(Prefixes[w])
  BY PrefixTyped DEF TypeOK
<1>2. Current(w) \in Shards /\ Current(w) \in Owned(w)
  BY <1>1, PrefixTyped DEF Current
<1> QED
  BY <1>1, <1>2 DEF Pending, Requests

(* What an abandoned call leaves behind *)
LEMMA AbandonEffect ==
  ASSUME TypeOK, NEW w \in Workers, Abandon(w),
         call[w] = "sent" => status[w] \in Claiming \cup Releasing
  PROVE  /\ orphans' \subseteq Requests
         /\ \/ orphans' = orphans
            \/ call[w] = "sent" /\ orphans' = orphans \cup {Pending(w)}
<1>1. orphans' = orphans \/ (call[w] = "sent" /\ orphans' = orphans \cup {Pending(w)})
  BY DEF Abandon
<1> QED
  BY <1>1, CurrentTyped DEF TypeOK

(* The invariant holds initially *)
LEMMA InitEstablishes == Init => IInv
<1> SUFFICES ASSUME Init PROVE IInv
  OBVIOUS
<1> USE TTLAssumption, PrefixTyped
<1>1. TypeOK
  BY DEF Init, TypeOK, Claiming, Releasing
<1>2. Shape /\ AcquireAllOk /\ Renewed /\ UnderWay
  BY DEF Init, Shape, AcquireAllOk, Renewed, RenewedBy, UnderWay, UnderWayBy, Running, Claiming
<1>3. OrphansAreDoubted /\ Accounted
  BY DEF Init, OrphansAreDoubted, Accounted
<1> QED
  BY <1>1, <1>2, <1>3 DEF IInv

-----------------------------------------------------------------------------
(* Steps of one worker that do not touch the keys *)

Statuses == {"down", "released", "serving"} \cup Claiming \cup Releasing

(* The control state of worker w, and of no other, becomes this *)
Moved(w, what, c, from, to) ==
  /\ status' \in [Workers -> Statuses] /\ status'[w] = what
  /\ call' \in [Workers -> {"none", "sent", "yes", "no"}] /\ call'[w] = c
  /\ i' \in [Workers -> Nat] /\ i'[w] = from
  /\ last' \in [Workers -> Nat] /\ last'[w] = to
  /\ \A v \in Workers \ {w} :
       status'[v] = status[v] /\ call'[v] = call[v] /\ i'[v] = i[v] /\ last'[v] = last[v]

(* Where a loop may be: the conjunct of TypeOK about it *)
Positions ==
  \A w \in Workers :
    IF status[w] \in Claiming \cup Releasing
    THEN call[w] # "none" /\ 1 <= i[w] /\ i[w] <= last[w] /\ last[w] <= Len(Prefixes[w])
    ELSE call[w] = "none" /\ i[w] = 0 /\ last[w] = 0

(* Making the next call of a loop *)
LEMMA LoopEffect ==
  ASSUME TypeOK, NEW w \in Workers, NEW what \in Claiming \cup Releasing,
         NEW from \in Nat, NEW to \in Nat, Loop(w, what, from, to),
         1 <= from, from <= to, to <= Len(Prefixes[w])
  PROVE  Moved(w, what, "sent", from, to) /\ Positions'
<1>1. status' \in [Workers -> Statuses] /\ status'[w] = what /\ \A v \in Workers \ {w} : status'[v] = status[v]
  BY DEF Loop, TypeOK, Statuses
<1>2. call' \in [Workers -> {"none", "sent", "yes", "no"}] /\ call'[w] = "sent" /\ \A v \in Workers \ {w} : call'[v] = call[v]
  BY DEF Loop, TypeOK
<1>3. i' \in [Workers -> Nat] /\ i'[w] = from /\ \A v \in Workers \ {w} : i'[v] = i[v]
  BY DEF Loop, TypeOK
<1>4. last' \in [Workers -> Nat] /\ last'[w] = to /\ \A v \in Workers \ {w} : last'[v] = last[v]
  BY DEF Loop, TypeOK
<1>5. Positions'
  BY <1>1, <1>2, <1>3, <1>4 DEF TypeOK, Positions
<1> QED
  BY <1>1, <1>2, <1>3, <1>4, <1>5 DEF Moved

(* Ending a loop *)
LEMMA SettleEffect ==
  ASSUME TypeOK, NEW w \in Workers, NEW what \in {"down", "released", "serving"},
         Settle(w, what)
  PROVE  /\ Moved(w, what, "none", 0, 0) /\ Positions'
         /\ ok' \in [Workers -> BOOLEAN] /\ ~ok'[w]
         /\ \A v \in Workers \ {w} : ok'[v] = ok[v]
<1>1. status' \in [Workers -> Statuses] /\ status'[w] = what /\ \A v \in Workers \ {w} : status'[v] = status[v]
  BY DEF Settle, TypeOK, Statuses
<1>2. call' \in [Workers -> {"none", "sent", "yes", "no"}] /\ call'[w] = "none" /\ \A v \in Workers \ {w} : call'[v] = call[v]
  BY DEF Settle, TypeOK
<1>3. i' \in [Workers -> Nat] /\ i'[w] = 0 /\ \A v \in Workers \ {w} : i'[v] = i[v]
  BY DEF Settle, TypeOK
<1>4. last' \in [Workers -> Nat] /\ last'[w] = 0 /\ \A v \in Workers \ {w} : last'[v] = last[v]
  BY DEF Settle, TypeOK
<1>5. ok' \in [Workers -> BOOLEAN] /\ ~ok'[w] /\ \A v \in Workers \ {w} : ok'[v] = ok[v]
  BY DEF Settle, TypeOK
<1>6. Positions'
  BY <1>1, <1>2, <1>3, <1>4 DEF TypeOK, Positions, Claiming, Releasing
<1> QED
  BY <1>1, <1>2, <1>3, <1>4, <1>5, <1>6 DEF Moved

(* A step of worker w that leaves the keys alone is well typed *)
LEMMA MovedType ==
  ASSUME TypeOK, NEW w \in Workers, NEW what, NEW c, NEW from, NEW to,
         Moved(w, what, c, from, to), Positions',
         UNCHANGED <<owner, ttl>>,
         ok' \in [Workers -> BOOLEAN], healthy' \in [Workers -> BOOLEAN],
         due' \in [Workers -> Int],
         orphans' \subseteq Requests, doubt' \subseteq Workers \X Shards,
         age' \in [Workers -> 0..TTL], begun' \in [Workers -> 0..TTL],
         misses' \in [Workers -> 0..2], robbed' \subseteq Workers
  PROVE  TypeOK'
<1>2. /\ status' \in [Workers -> Statuses] /\ i' \in [Workers -> Nat] /\ last' \in [Workers -> Nat]
      /\ call' \in [Workers -> {"none", "sent", "yes", "no"}]
  BY DEF Moved
<1>3. /\ owner' \in [Shards -> Workers \cup {Nobody}]
      /\ ttl' \in [Shards -> 0..TTL]
      /\ \A s \in Shards : (ttl'[s] = 0) <=> (owner'[s] = Nobody)
  BY DEF TypeOK
<1> QED
  BY <1>2, <1>3 DEF TypeOK, Statuses, Positions

(* What is left to show of worker w after such a step *)
LEMMA LocalKeeps ==
  ASSUME IInv, TypeOK', NEW w \in Workers, NEW what, NEW c, NEW from, NEW to,
         Moved(w, what, c, from, to),
         UNCHANGED <<owner, ttl>>,
         \A v \in Workers \ {w} : ok'[v] = ok[v] /\ age'[v] = age[v] /\ begun'[v] = begun[v],
         doubt \subseteq doubt',
         what \in Claiming \cup {"releasing"} => to = Len(Prefixes[w]),
         what = "acquiring" => ok'[w],
         RenewedBy(w)', UnderWayBy(w)', OrphansAreDoubted',
         \A s \in Shards : owner[s] = w => Known(w, s)'
  PROVE  IInv'
<1> /\ status'[w] = what /\ last'[w] = to
    /\ \A v \in Workers \ {w} :
         status'[v] = status[v] /\ call'[v] = call[v] /\ i'[v] = i[v] /\ last'[v] = last[v]
  BY DEF Moved
<1>1. Shape' /\ AcquireAllOk'
  BY DEF IInv, Shape, AcquireAllOk
<1>2. Renewed'
  <2> SUFFICES ASSUME NEW v \in Workers, v # w PROVE RenewedBy(v)'
    BY DEF Renewed
  <2> RenewedBy(v)
    BY DEF IInv, Renewed
  <2> QED
    BY DEF RenewedBy, Running, Holds
<1>3. UnderWay'
  <2> SUFFICES ASSUME NEW v \in Workers, v # w PROVE UnderWayBy(v)'
    BY DEF UnderWay
  <2> UnderWayBy(v)
    BY DEF IInv, UnderWay
  <2> QED
    BY DEF UnderWayBy, Won, Holds
<1>4. Accounted'
  <2> SUFFICES ASSUME NEW v \in Workers, v # w, NEW s \in Shards, owner[s] = v PROVE Known(v, s)'
    BY DEF Accounted
  <2> Known(v, s)
    BY DEF IInv, Accounted
  <2> QED
    BY DEF Known, Won, Running
<1> QED
  BY <1>1, <1>2, <1>3, <1>4 DEF IInv

(* A voided history claims nothing *)
LEMMA VoidEffect ==
  ASSUME TypeOK, NEW w \in Workers, Void(w)
  PROVE  /\ age' \in [Workers -> 0..TTL] /\ age'[w] = TTL
         /\ begun' \in [Workers -> 0..TTL] /\ begun'[w] = TTL
         /\ misses' \in [Workers -> 0..2] /\ misses'[w] = 0
         /\ \A v \in Workers \ {w} :
              age'[v] = age[v] /\ begun'[v] = begun[v] /\ misses'[v] = misses[v]
         /\ RenewedBy(w)' /\ UnderWayBy(w)'
<1>1. /\ age' \in [Workers -> 0..TTL] /\ age'[w] = TTL
      /\ begun' \in [Workers -> 0..TTL] /\ begun'[w] = TTL
      /\ misses' \in [Workers -> 0..2] /\ misses'[w] = 0
  BY TTLAssumption DEF Void, TypeOK
<1>2. \A v \in Workers \ {w} :
        age'[v] = age[v] /\ begun'[v] = begun[v] /\ misses'[v] = misses[v]
  BY DEF Void, TypeOK
<1>3. RenewedBy(w)' /\ UnderWayBy(w)'
  BY <1>1, TTLAssumption DEF RenewedBy, UnderWayBy
<1> QED
  BY <1>1, <1>2, <1>3

(* Nor does the history of a worker that lost a lease to a late release *)
LEMMA RobEffect ==
  ASSUME TypeOK, NEW w \in Workers, Rob(w)
  PROVE  /\ age' \in [Workers -> 0..TTL] /\ age'[w] = TTL
         /\ begun' \in [Workers -> 0..TTL] /\ begun'[w] = TTL
         /\ misses' \in [Workers -> 0..2] /\ misses'[w] = 2
         /\ robbed' \subseteq Workers /\ robbed' = robbed \cup {w}
         /\ \A v \in Workers \ {w} :
              age'[v] = age[v] /\ begun'[v] = begun[v] /\ misses'[v] = misses[v]
         /\ RenewedBy(w)' /\ UnderWayBy(w)'
<1>1. /\ age' \in [Workers -> 0..TTL] /\ age'[w] = TTL
      /\ begun' \in [Workers -> 0..TTL] /\ begun'[w] = TTL
      /\ misses' \in [Workers -> 0..2] /\ misses'[w] = 2
  BY TTLAssumption DEF Rob, TypeOK
<1>2. \A v \in Workers \ {w} :
        age'[v] = age[v] /\ begun'[v] = begun[v] /\ misses'[v] = misses[v]
  BY DEF Rob, TypeOK
<1>3. RenewedBy(w)' /\ UnderWayBy(w)'
  BY <1>1, TTLAssumption DEF RenewedBy, UnderWayBy
<1>4. robbed' \subseteq Workers /\ robbed' = robbed \cup {w}
  BY DEF Rob, TypeOK
<1> QED
  BY <1>1, <1>2, <1>3, <1>4

(* Start preserves the invariant *)
LEMMA StartKeeps ==
  ASSUME IInv, NEW w \in Workers, Start(w)
  PROVE  IInv'
<1> DEFINE n == Len(Prefixes[w])
<1>0. TypeOK /\ n \in Nat /\ n >= 1
  BY PrefixTyped DEF IInv
<1>1. Moved(w, "acquiring", "sent", 1, n) /\ Positions'
  BY <1>0, LoopEffect DEF Start, Claiming
<1>2. /\ begun' \in [Workers -> 0..TTL] /\ ok' \in [Workers -> BOOLEAN] /\ ok'[w]
      /\ \A v \in Workers \ {w} : begun'[v] = begun[v] /\ ok'[v] = ok[v]
      /\ UNCHANGED <<owner, ttl, orphans, healthy, due, age, doubt>>
      /\ misses' \in [Workers -> 0..2] /\ robbed' \subseteq Workers
  BY <1>0, TTLAssumption DEF Start, TypeOK, redisVars
<1>3. TypeOK'
  <2> /\ healthy' \in [Workers -> BOOLEAN] /\ due' \in [Workers -> Int]
      /\ orphans' \subseteq Requests /\ doubt' \subseteq Workers \X Shards
      /\ age' \in [Workers -> 0..TTL]
    BY <1>0, <1>2 DEF TypeOK
  <2> QED
    BY <1>0, <1>1, <1>2, MovedType
<1>4. RenewedBy(w)' /\ UnderWayBy(w)'
  BY <1>0, <1>1 DEF Moved, RenewedBy, Running, UnderWayBy, Won
<1>5. OrphansAreDoubted'
  BY <1>2 DEF IInv, OrphansAreDoubted
<1>6. ASSUME NEW s \in Shards, owner[s] = w PROVE Known(w, s)'
  <2>1. Known(w, s) /\ status[w] \in {"down", "released"}
    BY <1>6 DEF IInv, Accounted, Start, Down
  <2>2. <<w, s>> \in doubt
    BY <2>1 DEF Known, Running, Releasing
  <2> QED
    BY <1>2, <2>2 DEF Known
<1> QED
  BY <1>0, <1>1, <1>2, <1>3, <1>4, <1>5, <1>6, LocalKeeps

(* What every step of a worker inside a loop starts from *)
LEMMA InLoop ==
  ASSUME IInv, NEW w \in Workers, status[w] \in Claiming \cup Releasing
  PROVE  /\ i[w] \in Nat /\ last[w] \in Nat
         /\ 1 <= i[w] /\ i[w] <= last[w] /\ last[w] <= Len(Prefixes[w])
         /\ status[w] \in Claiming => last[w] = Len(Prefixes[w])
         /\ RenewedBy(w) /\ UnderWayBy(w)
         /\ \A s \in Shards : owner[s] = w => Known(w, s)
         /\ <<w, Current(w)>> \in Workers \X Shards
<1>1. <<w, Current(w)>> \in Workers \X Shards
  BY CurrentTyped DEF IInv
<1> QED
  BY <1>1 DEF IInv, TypeOK, Shape, Renewed, UnderWay, Accounted

(* AcquireWon preserves the invariant *)
LEMMA AcquireWonKeeps ==
  ASSUME IInv, NEW w \in Workers, AcquireWon(w)
  PROVE  IInv'
<1>0. /\ TypeOK
      /\ status[w] = "acquiring" /\ call[w] = "yes"
      /\ i[w] \in Nat /\ last[w] \in Nat /\ 1 <= i[w] /\ i[w] <= last[w]
      /\ last[w] = Len(Prefixes[w])
      /\ UNCHANGED <<owner, ttl, orphans, misses, doubt>>
      /\ ok[w] /\ UnderWayBy(w)
      /\ \A s \in Shards : owner[s] = w => Known(w, s)
      /\ OrphansAreDoubted' /\ robbed' \subseteq Workers
  BY InLoop DEF IInv, TypeOK, AcquireWon, redisVars, Claiming, OrphansAreDoubted, AcquireAllOk
<1>1. CASE i[w] < last[w]
  <2>1. /\ Moved(w, "acquiring", "sent", i[w] + 1, last[w]) /\ Positions'
        /\ UNCHANGED <<ok, healthy, due, age, begun>>
    BY <1>0, <1>1, LoopEffect DEF AcquireWon, Claiming
  <2>2. TypeOK'
    BY <1>0, <2>1, MovedType DEF TypeOK
  <2>3. RenewedBy(w)'
    BY <2>1 DEF RenewedBy, Running, Moved
  <2>4. UnderWayBy(w)'
    BY <1>0, <2>1 DEF UnderWayBy, Won, Holds, Claiming, Moved
  <2>5. ASSUME NEW s \in Shards, owner[s] = w PROVE Known(w, s)'
    <3> Known(w, s)
      BY <1>0, <2>5
    <3> QED
      BY <1>0, <2>1 DEF Known, Won, Running, Releasing, Moved
  <2> QED
    BY <1>0, <2>1, <2>2, <2>3, <2>4, <2>5, LocalKeeps
<1>2. CASE ~(i[w] < last[w])
  <2>1. /\ age' \in [Workers -> 0..TTL] /\ age'[w] = begun[w]
        /\ begun' \in [Workers -> 0..TTL]
        /\ \A v \in Workers \ {w} : age'[v] = age[v] /\ begun'[v] = begun[v]
    <3>1. /\ age' = [age EXCEPT ![w] = begun[w]]
          /\ begun' = [begun EXCEPT ![w] = TTL]
      BY <1>2 DEF AcquireWon
    <3> QED
      BY <1>0, <3>1, TTLAssumption DEF TypeOK
  <2>2. due' \in [Workers -> Int] /\ healthy' \in [Workers -> BOOLEAN]
    <3>1. due' = [due EXCEPT ![w] = Every] /\ healthy' = [healthy EXCEPT ![w] = TRUE]
      BY <1>2 DEF AcquireWon
    <3> QED
      BY <1>0, <3>1, EveryBound DEF TypeOK
  <2>3. /\ Moved(w, "serving", "none", 0, 0) /\ Positions'
        /\ ok' \in [Workers -> BOOLEAN]
        /\ \A v \in Workers \ {w} : ok'[v] = ok[v]
    BY <1>0, <1>2, SettleEffect DEF AcquireWon
  <2>4. TypeOK'
    <3> misses' \in [Workers -> 0..2] /\ orphans' \subseteq Requests /\ doubt' \subseteq Workers \X Shards
      BY <1>0 DEF TypeOK
    <3> QED
      BY <1>0, <2>1, <2>2, <2>3, MovedType
  <2>5. RenewedBy(w)'
    <3> SUFFICES ASSUME age'[w] < TTL, NEW s \in Owned(w) PROVE Holds(w, s, age[w])'
      BY DEF RenewedBy
    <3>1. PICK k \in 1..last[w] : s = Prefixes[w][k]
      BY <1>0, PrefixTyped
    <3>2. Won(w, k)
      BY <1>0, <1>2, <3>1 DEF Won
    <3> QED
      BY <1>0, <2>1, <3>1, <3>2 DEF UnderWayBy, Holds, Claiming
  <2>6. UnderWayBy(w)'
    BY <2>3 DEF UnderWayBy, Claiming, Moved
  <2>7. ASSUME NEW s \in Shards, owner[s] = w PROVE Known(w, s)'
    <3> Known(w, s)
      BY <1>0, <2>7
    <3> QED
      BY <1>0, <2>3, PrefixTyped DEF Known, Won, Running, Releasing, Moved
  <2> QED
    BY <1>0, <2>1, <2>3, <2>4, <2>5, <2>6, <2>7, LocalKeeps DEF Claiming
<1> QED
  BY <1>1, <1>2

(* The claims before the failing one are left to the release loop *)
LEMMA BackOutEffect ==
  ASSUME IInv, NEW w \in Workers, status[w] = "acquiring", NEW clean \in BOOLEAN,
         BackOut(w, clean), Void(w),
         call[w] = "no" \/ <<w, Current(w)>> \in doubt',
         doubt \subseteq doubt', doubt' \subseteq Workers \X Shards,
         orphans' \subseteq Requests, OrphansAreDoubted',
         UNCHANGED <<owner, ttl, healthy, due, robbed>>
  PROVE  IInv'
<1>0. /\ TypeOK
      /\ i[w] \in Nat /\ last[w] \in Nat /\ 1 <= i[w] /\ i[w] <= last[w]
      /\ last[w] <= Len(Prefixes[w]) /\ Len(Prefixes[w]) \in Nat
      /\ healthy' \in [Workers -> BOOLEAN] /\ due' \in [Workers -> Int]
      /\ robbed' \subseteq Workers
      /\ \A s \in Shards : owner[s] = w => Known(w, s)
  BY InLoop, PrefixTyped DEF IInv, TypeOK, Claiming
<1>1. /\ age' \in [Workers -> 0..TTL] /\ begun' \in [Workers -> 0..TTL] /\ misses' \in [Workers -> 0..2]
      /\ \A v \in Workers \ {w} : age'[v] = age[v] /\ begun'[v] = begun[v]
      /\ RenewedBy(w)' /\ UnderWayBy(w)'
  BY <1>0, VoidEffect
<1>2. CASE i[w] = 1
  <2>1. PICK what \in {"down", "released"} : Settle(w, what)
    BY <1>2 DEF BackOut
  <2>2. /\ Moved(w, what, "none", 0, 0) /\ Positions'
        /\ ok' \in [Workers -> BOOLEAN] /\ \A v \in Workers \ {w} : ok'[v] = ok[v]
    BY <1>0, <2>1, SettleEffect
  <2>3. TypeOK'
    BY <1>0, <1>1, <2>2, MovedType
  <2>4. ASSUME NEW s \in Shards, owner[s] = w PROVE Known(w, s)'
    <3> Known(w, s)
      BY <1>0, <2>4
    <3> QED
      BY <1>0, <1>2 DEF Known, Won, Running, Releasing, Current
  <2> QED
    BY <1>0, <1>1, <2>1, <2>2, <2>3, <2>4, LocalKeeps DEF Claiming
<1>3. CASE i[w] # 1
  <2>1. PICK to \in Nat : /\ to = i[w] - 1 /\ 1 <= to /\ to <= Len(Prefixes[w])
                          /\ Loop(w, "backingOut", 1, to)
    <3>1. Loop(w, "backingOut", 1, i[w] - 1) /\ i[w] - 1 \in Nat
      BY <1>0, <1>3 DEF BackOut
    <3> QED
      BY <1>0, <1>3, <3>1
  <2>2. Moved(w, "backingOut", "sent", 1, to) /\ Positions'
    <3>1. "backingOut" \in Claiming \cup Releasing /\ 1 \in Nat /\ 1 <= 1
      BY DEF Releasing
    <3>2. TypeOK /\ 1 <= to /\ to <= Len(Prefixes[w]) /\ Loop(w, "backingOut", 1, to)
      BY <1>0, <2>1
    <3> QED
      BY <3>1, <3>2, LoopEffect
  <2>3. ok' \in [Workers -> BOOLEAN] /\ \A v \in Workers \ {w} : ok'[v] = ok[v]
    BY <1>0, <1>3 DEF BackOut, TypeOK
  <2>4. TypeOK'
    BY <1>0, <1>1, <2>2, <2>3, MovedType
  <2>5. ASSUME NEW s \in Shards, owner[s] = w PROVE Known(w, s)'
    <3>1. Known(w, s)
      BY <1>0, <2>5
    <3>2. <<w, s>> \in doubt' \/ \E k \in 1..last[w] : s = Prefixes[w][k] /\ k < i[w]
      BY <3>1, <1>0 DEF Known, Won, Running, Releasing, Current
    <3>3. CASE <<w, s>> \in doubt'
      BY <3>3 DEF Known
    <3>4. ASSUME NEW k \in 1..last[w], s = Prefixes[w][k], k < i[w] PROVE Known(w, s)'
      <4>1. k \in 1..last'[w] /\ (k > i'[w] \/ (k = i'[w] /\ call'[w] = "sent")) /\ status'[w] \in Releasing
        BY <1>0, <2>1, <2>2, <3>4 DEF Moved, Releasing
      <4> QED
        BY <3>4, <4>1 DEF Known
    <3> QED
      BY <3>2, <3>3, <3>4
  <2> QED
    BY <1>0, <1>1, <2>2, <2>3, <2>4, <2>5, LocalKeeps DEF Claiming
<1> QED
  BY <1>2, <1>3

(* AcquireConflict preserves the invariant *)
LEMMA AcquireConflictKeeps ==
  ASSUME IInv, NEW w \in Workers, AcquireConflict(w)
  PROVE  IInv'
<1>1. /\ status[w] = "acquiring" /\ call[w] = "no" /\ BackOut(w, TRUE) /\ Void(w)
      /\ UNCHANGED <<owner, ttl, orphans, healthy, due, doubt, robbed>>
  BY DEF AcquireConflict, redisVars
<1>2. OrphansAreDoubted' /\ doubt' \subseteq Workers \X Shards /\ orphans' \subseteq Requests
  BY <1>1 DEF IInv, OrphansAreDoubted, TypeOK
<1> QED
  BY <1>1, <1>2, BackOutEffect

(* An abandoned call is doubted *)
LEMMA DoubtedAbandon ==
  ASSUME IInv, NEW w \in Workers, Abandon(w),
         status[w] \in Claiming \cup Releasing,
         doubt' = doubt \cup {<<w, Current(w)>>}
  PROVE  /\ OrphansAreDoubted'
         /\ doubt \subseteq doubt' /\ doubt' \subseteq Workers \X Shards
         /\ orphans' \subseteq Requests
<1>1. /\ orphans' \subseteq Requests
      /\ \/ orphans' = orphans
         \/ orphans' = orphans \cup {Pending(w)}
  BY AbandonEffect DEF IInv
<1>2. OrphansAreDoubted'
  BY <1>1 DEF IInv, OrphansAreDoubted, Pending
<1>3. doubt' \subseteq Workers \X Shards
  BY InLoop DEF IInv, TypeOK
<1> QED
  BY <1>1, <1>2, <1>3

(* AcquireError preserves the invariant *)
LEMMA AcquireErrorKeeps ==
  ASSUME IInv, NEW w \in Workers, AcquireError(w)
  PROVE  IInv'
<1>1. /\ status[w] = "acquiring" /\ BackOut(w, FALSE) /\ Void(w) /\ Abandon(w)
      /\ doubt' = doubt \cup {<<w, Current(w)>>}
      /\ UNCHANGED <<owner, ttl, healthy, due, robbed>>
  BY DEF AcquireError
<1>2. /\ OrphansAreDoubted'
      /\ doubt \subseteq doubt' /\ doubt' \subseteq Workers \X Shards
      /\ orphans' \subseteq Requests
  BY <1>1, DoubtedAbandon DEF Claiming
<1> QED
  BY <1>1, <1>2, BackOutEffect

(* SweepBegin preserves the invariant *)
LEMMA SweepBeginKeeps ==
  ASSUME IInv, NEW w \in Workers, SweepBegin(w)
  PROVE  IInv'
<1> DEFINE n == Len(Prefixes[w])
<1>0. /\ TypeOK /\ n \in Nat /\ 1 <= n /\ status[w] = "serving"
      /\ RenewedBy(w) /\ \A s \in Shards : owner[s] = w => Known(w, s)
      /\ UNCHANGED <<owner, ttl, orphans, healthy, age, misses, doubt>>
      /\ OrphansAreDoubted' /\ robbed' \subseteq Workers
  BY PrefixTyped DEF IInv, TypeOK, SweepBegin, redisVars, Renewed, Accounted, OrphansAreDoubted
<1>1. Moved(w, "sweeping", "sent", 1, n) /\ Positions'
  BY <1>0, LoopEffect DEF SweepBegin, Claiming
<1>2. /\ begun' \in [Workers -> 0..TTL] /\ ok' \in [Workers -> BOOLEAN]
      /\ \A v \in Workers \ {w} : begun'[v] = begun[v] /\ ok'[v] = ok[v]
  BY <1>0, TTLAssumption DEF SweepBegin, TypeOK
<1>3. due' \in [Workers -> Int]
  BY <1>0, EveryBound DEF SweepBegin, TypeOK
<1>4. TypeOK'
  <2> /\ healthy' \in [Workers -> BOOLEAN]
      /\ orphans' \subseteq Requests /\ doubt' \subseteq Workers \X Shards
      /\ age' \in [Workers -> 0..TTL] /\ misses' \in [Workers -> 0..2]
    BY <1>0 DEF TypeOK
  <2> QED
    BY <1>0, <1>1, <1>2, <1>3, MovedType
<1>5. RenewedBy(w)'
  BY <1>0 DEF RenewedBy, Running, Holds
<1>6. UnderWayBy(w)'
  BY <1>0, <1>1 DEF Moved, UnderWayBy, Won
<1>7. ASSUME NEW s \in Shards, owner[s] = w PROVE Known(w, s)'
  <2> Known(w, s)
    BY <1>0, <1>7
  <2> QED
    BY <1>0, <1>1 DEF Known, Running, Releasing, Moved
<1> QED
  BY <1>0, <1>1, <1>2, <1>4, <1>5, <1>6, <1>7, LocalKeeps

(* One renewal is over; `won` says how it ended *)
LEMMA SweepGoesOnKeeps ==
  ASSUME IInv, NEW w \in Workers, status[w] = "sweeping", NEW won \in BOOLEAN,
         SweepGoesOn(w, won), won => call[w] = "yes",
         doubt \subseteq doubt', doubt' \subseteq Workers \X Shards,
         orphans' \subseteq Requests, OrphansAreDoubted',
         UNCHANGED <<owner, ttl, due>>
  PROVE  IInv'
<1>0. /\ TypeOK
      /\ i[w] \in Nat /\ last[w] \in Nat /\ 1 <= i[w] /\ i[w] <= last[w]
      /\ last[w] = Len(Prefixes[w])
      /\ due' \in [Workers -> Int] /\ ok[w] \in BOOLEAN
      /\ RenewedBy(w) /\ UnderWayBy(w)
      /\ \A s \in Shards : owner[s] = w => Known(w, s)
  BY InLoop DEF IInv, TypeOK, Claiming
<1>1. ASSUME NEW s \in Shards, owner[s] = w, status'[w] \in {"serving", "sweeping"} PROVE Known(w, s)'
  <2> Known(w, s)
    BY <1>0, <1>1
  <2> QED
    BY <1>1 DEF Known, Running, Releasing
<1>2. CASE i[w] < last[w]
  <2>1. /\ Loop(w, "sweeping", i[w] + 1, last[w])
        /\ ok' = [ok EXCEPT ![w] = ok[w] /\ won]
        /\ UNCHANGED <<healthy, age, begun, misses, robbed>>
    BY <1>2 DEF SweepGoesOn
  <2>2. Moved(w, "sweeping", "sent", i[w] + 1, last[w]) /\ Positions'
    <3>1. "sweeping" \in Claiming \cup Releasing /\ i[w] + 1 \in Nat /\ 1 <= i[w] + 1
          /\ i[w] + 1 <= last[w] /\ last[w] <= Len(Prefixes[w])
      BY <1>0, <1>2 DEF Claiming
    <3> QED
      BY <1>0, <2>1, <3>1, LoopEffect
  <2>3. /\ ok' \in [Workers -> BOOLEAN] /\ (ok'[w] => ok[w] /\ won)
        /\ \A v \in Workers \ {w} : ok'[v] = ok[v]
    BY <1>0, <2>1 DEF TypeOK
  <2>4. TypeOK'
    <3> /\ healthy' \in [Workers -> BOOLEAN] /\ age' \in [Workers -> 0..TTL]
        /\ begun' \in [Workers -> 0..TTL] /\ misses' \in [Workers -> 0..2]
        /\ robbed' \subseteq Workers
      BY <1>0, <2>1 DEF TypeOK
    <3> QED
      BY <1>0, <2>2, <2>3, MovedType
  <2>5. RenewedBy(w)'
    BY <1>0, <2>1 DEF RenewedBy, Running, Holds
  <2>6. UnderWayBy(w)'
    <3> SUFFICES ASSUME ok'[w], begun'[w] < TTL, NEW k \in 1..last'[w], Won(w, k)'
                 PROVE  Holds(w, Prefixes[w][k], begun[w])'
      BY DEF UnderWayBy
    <3>1. k \in 1..last[w] /\ Won(w, k)
      BY <1>0, <2>2, <2>3 DEF Won, Moved
    <3> QED
      BY <1>0, <2>1, <2>3, <3>1 DEF UnderWayBy, Holds, Claiming
  <2> QED
    BY <1>0, <1>1, <2>1, <2>2, <2>3, <2>4, <2>5, <2>6, LocalKeeps DEF Moved
<1>3. CASE ~(i[w] < last[w])
  <2>1. /\ Settle(w, "serving")
        /\ healthy' = [healthy EXCEPT ![w] = ok[w] /\ won]
        /\ age' = [age EXCEPT ![w] = IF ok[w] /\ won THEN begun[w] ELSE age[w]]
        /\ begun' = [begun EXCEPT ![w] = TTL]
        /\ misses' = [misses EXCEPT ![w] = IF ok[w] /\ won /\ Counts(w) THEN 0
                                          ELSE OneMore(misses[w])]
        /\ robbed' \subseteq Workers
    BY <1>0, <1>3 DEF SweepGoesOn, TypeOK
  <2>2. /\ Moved(w, "serving", "none", 0, 0) /\ Positions'
        /\ ok' \in [Workers -> BOOLEAN] /\ \A v \in Workers \ {w} : ok'[v] = ok[v]
    BY <1>0, <2>1, SettleEffect
  <2>3. /\ age' \in [Workers -> 0..TTL] /\ begun' \in [Workers -> 0..TTL]
        /\ age'[w] = IF ok[w] /\ won THEN begun[w] ELSE age[w]
        /\ \A v \in Workers \ {w} : age'[v] = age[v] /\ begun'[v] = begun[v]
    BY <1>0, <2>1, TTLAssumption DEF TypeOK
  <2>4. healthy' \in [Workers -> BOOLEAN]
    <3>1. (ok[w] /\ won) \in BOOLEAN /\ healthy \in [Workers -> BOOLEAN]
      BY <1>0 DEF TypeOK
    <3> QED
      BY <2>1, <3>1, Zenon
  <2>5. misses' \in [Workers -> 0..2]
    <3>1. misses \in [Workers -> 0..2]
      BY <1>0 DEF TypeOK
    <3>2. misses[w] \in 0..2
      BY <3>1
    <3>3. OneMore(misses[w]) \in 0..2
      BY <3>2 DEF OneMore
    <3>4. (IF ok[w] /\ won /\ Counts(w) THEN 0 ELSE OneMore(misses[w])) \in 0..2
      BY <3>3
    <3> QED
      BY <2>1, <3>1, <3>4
  <2>6. TypeOK'
    BY <1>0, <2>1, <2>2, <2>3, <2>4, <2>5, MovedType
  <2>7. RenewedBy(w)'
    <3> SUFFICES ASSUME age'[w] < TTL, NEW s \in Owned(w) PROVE Holds(w, s, age[w])'
      BY DEF RenewedBy
    <3>1. CASE ok[w] /\ won
      <4>1. PICK k \in 1..last[w] : s = Prefixes[w][k]
        BY <1>0, PrefixTyped
      <4>2. Won(w, k)
        BY <1>0, <1>3, <3>1, <4>1 DEF Won
      <4> QED
        BY <1>0, <2>3, <3>1, <4>1, <4>2 DEF UnderWayBy, Holds, Claiming
    <3>2. CASE ~(ok[w] /\ won)
      BY <1>0, <2>3, <3>2 DEF RenewedBy, Running, Holds
    <3> QED
      BY <3>1, <3>2
  <2>8. UnderWayBy(w)'
    BY <2>2 DEF UnderWayBy, Claiming, Moved
  <2> QED
    BY <1>0, <1>1, <2>2, <2>3, <2>6, <2>7, <2>8, LocalKeeps DEF Claiming, Moved
<1> QED
  BY <1>2, <1>3

(* SweepReply preserves the invariant *)
LEMMA SweepReplyKeeps ==
  ASSUME IInv, NEW w \in Workers, SweepReply(w)
  PROVE  IInv'
<1>1. PICK won \in BOOLEAN : SweepGoesOn(w, won) /\ (won => call[w] = "yes")
  BY DEF SweepReply
<1>2. status[w] = "sweeping" /\ UNCHANGED <<owner, ttl, orphans, due, doubt>>
  BY DEF SweepReply, redisVars
<1>3. OrphansAreDoubted' /\ doubt' \subseteq Workers \X Shards /\ orphans' \subseteq Requests
  BY <1>2 DEF IInv, OrphansAreDoubted, TypeOK
<1> QED
  BY <1>1, <1>2, <1>3, SweepGoesOnKeeps

(* SweepError preserves the invariant *)
LEMMA SweepErrorKeeps ==
  ASSUME IInv, NEW w \in Workers, SweepError(w)
  PROVE  IInv'
<1>1. /\ status[w] = "sweeping" /\ Abandon(w) /\ SweepGoesOn(w, FALSE)
      /\ doubt' = doubt \cup {<<w, Current(w)>>}
      /\ UNCHANGED <<owner, ttl, due>>
  BY DEF SweepError
<1>2. /\ OrphansAreDoubted'
      /\ doubt \subseteq doubt' /\ doubt' \subseteq Workers \X Shards
      /\ orphans' \subseteq Requests
  BY <1>1, DoubtedAbandon DEF Claiming
<1> QED
  BY <1>1, <1>2, SweepGoesOnKeeps

(* Shutdown preserves the invariant *)
LEMMA ShutdownKeeps ==
  ASSUME IInv, NEW w \in Workers, Shutdown(w)
  PROVE  IInv'
<1> DEFINE n == Len(Prefixes[w])
<1>0. /\ TypeOK /\ n \in Nat /\ 1 <= n /\ n <= n /\ Running(w)
      /\ \A s \in Shards : owner[s] = w => Known(w, s)
      /\ UNCHANGED <<owner, ttl>>
  BY PrefixTyped DEF IInv, Shutdown, Accounted
<1>1. Moved(w, "releasing", "sent", 1, n) /\ Positions'
  <2>1. "releasing" \in Claiming \cup Releasing /\ 1 \in Nat /\ Loop(w, "releasing", 1, n)
    BY DEF Shutdown, Releasing
  <2> QED
    BY <1>0, <2>1, LoopEffect
<1>2. /\ ok' \in [Workers -> BOOLEAN] /\ healthy' \in [Workers -> BOOLEAN]
      /\ due' \in [Workers -> Int] /\ robbed' \subseteq Workers
      /\ \A v \in Workers \ {w} : ok'[v] = ok[v]
  BY <1>0 DEF Shutdown, TypeOK
<1>3. /\ age' \in [Workers -> 0..TTL] /\ begun' \in [Workers -> 0..TTL] /\ misses' \in [Workers -> 0..2]
      /\ \A v \in Workers \ {w} : age'[v] = age[v] /\ begun'[v] = begun[v]
      /\ RenewedBy(w)' /\ UnderWayBy(w)'
  BY <1>0, VoidEffect DEF Shutdown
<1>4. /\ OrphansAreDoubted'
      /\ doubt \subseteq doubt' /\ doubt' \subseteq Workers \X Shards
      /\ orphans' \subseteq Requests
  <2>1. CASE status[w] = "sweeping"
    BY <2>1, DoubtedAbandon DEF Shutdown, Claiming
  <2>2. CASE status[w] # "sweeping"
    <3>1. status[w] = "serving" /\ doubt' = doubt
      BY <1>0, <2>2 DEF Running, Shutdown
    <3>2. call[w] # "sent"
      BY <1>0, <3>1 DEF TypeOK, Claiming, Releasing
    <3>3. orphans' = orphans
      BY <3>2 DEF Shutdown, Abandon
    <3> QED
      BY <3>1, <3>3 DEF IInv, OrphansAreDoubted, TypeOK
  <2> QED
    BY <2>1, <2>2
<1>5. TypeOK'
  BY <1>0, <1>1, <1>2, <1>3, <1>4, MovedType
<1>6. ASSUME NEW s \in Shards, owner[s] = w PROVE Known(w, s)'
  <2>1. <<w, s>> \in doubt \/ s \in Owned(w)
    BY <1>0, <1>6 DEF Known, Running, Releasing
  <2>2. CASE <<w, s>> \in doubt
    BY <1>4, <2>2 DEF Known
  <2>3. CASE s \in Owned(w)
    <3>1. PICK k \in 1..n : s = Prefixes[w][k]
      BY <2>3, PrefixTyped
    <3> QED
      BY <1>0, <1>1, <3>1 DEF Known, Releasing, Moved
  <2> QED
    BY <2>1, <2>2, <2>3
<1>7. "releasing" # "acquiring" /\ \A s \in Shards : owner[s] = w => Known(w, s)'
  BY <1>6
<1> HIDE DEF n
<1> QED
  BY <1>0, <1>1, <1>2, <1>3, <1>4, <1>5, <1>7, LocalKeeps DEF n

(* One release is over *)
LEMMA ReleaseGoesOnKeeps ==
  ASSUME IInv, NEW w \in Workers, NEW answered \in BOOLEAN,
         ReleaseGoesOn(w, answered),
         call[w] # "sent" \/ <<w, Current(w)>> \in doubt',
         doubt \subseteq doubt', doubt' \subseteq Workers \X Shards,
         orphans' \subseteq Requests, OrphansAreDoubted'
  PROVE  IInv'
<1>0. /\ TypeOK /\ status[w] \in Releasing
      /\ i[w] \in Nat /\ last[w] \in Nat /\ 1 <= i[w] /\ i[w] <= last[w]
      /\ last[w] <= Len(Prefixes[w])
      /\ status[w] = "releasing" => last[w] = Len(Prefixes[w])
      /\ UNCHANGED <<owner, ttl, healthy, due, age, begun, misses, robbed>>
  BY InLoop DEF IInv, TypeOK, Shape, ReleaseGoesOn
<1>1. /\ healthy' \in [Workers -> BOOLEAN] /\ due' \in [Workers -> Int]
      /\ age' \in [Workers -> 0..TTL]
      /\ begun' \in [Workers -> 0..TTL] /\ misses' \in [Workers -> 0..2]
      /\ robbed' \subseteq Workers
  BY <1>0 DEF TypeOK
<1>2. ASSUME NEW s \in Shards, owner[s] = w
      PROVE  <<w, s>> \in doubt' \/ \E k \in 1..last[w] : s = Prefixes[w][k] /\ k > i[w]
  <2> Known(w, s)
    BY <1>2 DEF IInv, Accounted
  <2> QED
    BY <1>0 DEF Known, Running, Releasing, Current
<1>3. CASE i[w] < last[w]
  <2>1. /\ Loop(w, status[w], i[w] + 1, last[w])
        /\ ok' = [ok EXCEPT ![w] = ok[w] /\ answered]
    BY <1>3 DEF ReleaseGoesOn
  <2>2. Moved(w, status[w], "sent", i[w] + 1, last[w]) /\ Positions'
    <3>1. status[w] \in Claiming \cup Releasing /\ i[w] + 1 \in Nat /\ 1 <= i[w] + 1 /\ i[w] + 1 <= last[w]
      BY <1>0, <1>3
    <3> QED
      BY <1>0, <2>1, <3>1, LoopEffect
  <2>3. ok' \in [Workers -> BOOLEAN] /\ \A v \in Workers \ {w} : ok'[v] = ok[v]
    BY <1>0, <2>1 DEF TypeOK
  <2>4. TypeOK'
    BY <1>0, <1>1, <2>2, <2>3, MovedType
  <2>5. RenewedBy(w)' /\ UnderWayBy(w)'
    BY <1>0, <2>2 DEF RenewedBy, UnderWayBy, Running, Claiming, Releasing, Moved
  <2>6. ASSUME NEW s \in Shards, owner[s] = w PROVE Known(w, s)'
    <3>1. <<w, s>> \in doubt' \/ \E k \in 1..last[w] : s = Prefixes[w][k] /\ k > i[w]
      BY <1>2, <2>6
    <3>2. ASSUME NEW k \in 1..last[w], s = Prefixes[w][k], k > i[w] PROVE Known(w, s)'
      <4>1. /\ k \in 1..last'[w] /\ (k > i'[w] \/ (k = i'[w] /\ call'[w] = "sent"))
            /\ status'[w] \in Releasing
        BY <1>0, <2>2, <3>2 DEF Moved
      <4> QED
        BY <3>2, <4>1 DEF Known
    <3> QED
      BY <3>1, <3>2 DEF Known
  <2> QED
    BY <1>0, <2>2, <2>3, <2>4, <2>5, <2>6, LocalKeeps DEF Claiming, Releasing
<1>4. CASE ~(i[w] < last[w])
  <2>1. PICK what \in {"down", "released"} : Settle(w, what)
    BY <1>4 DEF ReleaseGoesOn
  <2>2. /\ Moved(w, what, "none", 0, 0) /\ Positions'
        /\ ok' \in [Workers -> BOOLEAN] /\ \A v \in Workers \ {w} : ok'[v] = ok[v]
    BY <1>0, <2>1, SettleEffect
  <2>3. TypeOK'
    BY <1>0, <1>1, <2>2, MovedType
  <2>4. RenewedBy(w)' /\ UnderWayBy(w)'
    BY <2>2 DEF RenewedBy, UnderWayBy, Running, Claiming, Moved
  <2>5. ASSUME NEW s \in Shards, owner[s] = w PROVE Known(w, s)'
    BY <1>0, <1>2, <1>4, <2>5 DEF Known
  <2> QED
    BY <1>0, <2>2, <2>3, <2>4, <2>5, LocalKeeps DEF Claiming
<1> QED
  BY <1>3, <1>4

(* ReleaseReply preserves the invariant *)
LEMMA ReleaseReplyKeeps ==
  ASSUME IInv, NEW w \in Workers, ReleaseReply(w)
  PROVE  IInv'
<1>1. ReleaseGoesOn(w, TRUE) /\ call[w] # "sent" /\ UNCHANGED <<orphans, doubt>>
  BY DEF ReleaseReply, Answered
<1>2. OrphansAreDoubted' /\ doubt' \subseteq Workers \X Shards /\ orphans' \subseteq Requests
  BY <1>1 DEF IInv, OrphansAreDoubted, TypeOK
<1> QED
  BY <1>1, <1>2, ReleaseGoesOnKeeps

(* ReleaseError preserves the invariant *)
LEMMA ReleaseErrorKeeps ==
  ASSUME IInv, NEW w \in Workers, ReleaseError(w)
  PROVE  IInv'
<1>1. /\ ReleaseGoesOn(w, FALSE) /\ Abandon(w) /\ status[w] \in Releasing
      /\ doubt' = doubt \cup {<<w, Current(w)>>}
  BY DEF ReleaseError, ReleaseGoesOn
<1>2. /\ OrphansAreDoubted'
      /\ doubt \subseteq doubt' /\ doubt' \subseteq Workers \X Shards
      /\ orphans' \subseteq Requests
  BY <1>1, DoubtedAbandon
<1> QED
  BY <1>1, <1>2, ReleaseGoesOnKeeps

(* Crash preserves the invariant *)
LEMMA CrashKeeps ==
  ASSUME IInv, NEW w \in Workers, Crash(w)
  PROVE  IInv'
<1>0. /\ TypeOK /\ UNCHANGED <<owner, ttl>>
      /\ doubt' = doubt \cup ({w} \X Owned(w)) /\ Abandon(w)
      /\ \A s \in Shards : owner[s] = w => Known(w, s)
  BY DEF IInv, Crash, Accounted
<1>1. /\ Moved(w, "down", "none", 0, 0) /\ Positions'
      /\ ok' \in [Workers -> BOOLEAN] /\ \A v \in Workers \ {w} : ok'[v] = ok[v]
  BY <1>0, SettleEffect DEF Crash
<1>2. healthy' \in [Workers -> BOOLEAN] /\ due' \in [Workers -> Int] /\ robbed' \subseteq Workers
  BY <1>0 DEF Crash, TypeOK
<1>3. /\ age' \in [Workers -> 0..TTL] /\ begun' \in [Workers -> 0..TTL] /\ misses' \in [Workers -> 0..2]
      /\ \A v \in Workers \ {w} : age'[v] = age[v] /\ begun'[v] = begun[v]
      /\ RenewedBy(w)' /\ UnderWayBy(w)'
  BY <1>0, VoidEffect DEF Crash
<1>4. call[w] = "sent" => status[w] \in Claiming \cup Releasing
  BY <1>0 DEF TypeOK
<1>5. doubt' \subseteq Workers \X Shards /\ doubt \subseteq doubt'
  BY <1>0, PrefixTyped DEF TypeOK
<1>6. orphans' \subseteq Requests /\ OrphansAreDoubted'
  <2>1. /\ orphans' \subseteq Requests
        /\ orphans' = orphans \/ (call[w] = "sent" /\ orphans' = orphans \cup {Pending(w)})
    BY <1>0, <1>4, AbandonEffect
  <2>2. call[w] = "sent" => <<w, Current(w)>> \in doubt'
    BY <1>0, <1>4, CurrentTyped
  <2> QED
    BY <1>5, <2>1, <2>2 DEF IInv, OrphansAreDoubted, Pending
<1>7. TypeOK'
  BY <1>0, <1>1, <1>2, <1>3, <1>5, <1>6, MovedType
<1>8. ASSUME NEW s \in Shards, owner[s] = w PROVE Known(w, s)'
  <2>1. Known(w, s) /\ Len(Prefixes[w]) \in Nat
    BY <1>0, <1>8, PrefixTyped
  <2>2. last[w] \in Nat /\ last[w] <= Len(Prefixes[w])
    BY <1>0, <2>1 DEF TypeOK
  <2>3. <<w, s>> \in doubt \/ s \in Owned(w)
    BY <2>1, <2>2, PrefixTyped DEF Known
  <2> QED
    BY <1>0, <2>3 DEF Known
<1> QED
  BY <1>0, <1>1, <1>3, <1>5, <1>6, <1>7, <1>8, LocalKeeps DEF Claiming

(* Nothing depends on the requests that are under way *)
LEMMA FewerOrphansKeep ==
  ASSUME IInv, orphans' \subseteq orphans,
         UNCHANGED <<owner, ttl, status, call, i, last, ok, healthy, due, age, begun, misses, doubt,
                     robbed>>
  PROVE  IInv'
<1>2. TypeOK'
  BY DEF IInv, TypeOK
<1>3. Shape' /\ AcquireAllOk' /\ OrphansAreDoubted'
  BY DEF IInv, Shape, AcquireAllOk, OrphansAreDoubted
<1>4. Renewed' /\ UnderWay'
  BY DEF IInv, Renewed, RenewedBy, UnderWay, UnderWayBy, Won, Holds, Running
<1>5. Accounted'
  BY DEF IInv, Accounted, Known, Won, Running
<1> QED
  BY <1>2, <1>3, <1>4, <1>5 DEF IInv

(* OrphanLost preserves the invariant *)
LEMMA OrphanLostKeeps ==
  ASSUME IInv, NEW r \in Requests, OrphanLost(r)
  PROVE  IInv'
<1>1. orphans' \subseteq orphans
      /\ UNCHANGED <<owner, ttl, status, call, i, last, ok, healthy, due, age, begun, misses, doubt,
                     robbed>>
  BY DEF OrphanLost, callVars, historyVars
<1> QED
  BY <1>1, FewerOrphansKeep

-----------------------------------------------------------------------------
(* Steps that change the keys *)

KeysTyped ==
  /\ owner \in [Shards -> Workers \cup {Nobody}]
  /\ ttl \in [Shards -> 0..TTL]
  /\ \A s \in Shards : (ttl[s] = 0) <=> (owner[s] = Nobody)

(* A claim harms nobody's lease: it renews, takes a free key, or does nothing *)
LEMMA ClaimEffect ==
  ASSUME TypeOK, NEW v \in Workers, NEW s \in Shards, ClaimLua(v, s)
  PROVE  /\ KeysTyped'
         /\ \A w \in Workers, t \in Shards, n \in 0..TTL : Holds(w, t, n) => Holds(w, t, n)'
         /\ \A w \in Workers, t \in Shards : owner'[t] = w => owner[t] = w \/ (w = v /\ t = s)
         /\ MayClaim(v, s) => owner'[s] = v /\ ttl'[s] = TTL
         /\ ~MayClaim(v, s) => owner' = owner
<1>0. KeysTyped
  BY DEF TypeOK, KeysTyped
<1>1. CASE MayClaim(v, s)
  <2>0. owner' = [owner EXCEPT ![s] = v] /\ ttl' = [ttl EXCEPT ![s] = TTL]
    BY <1>1 DEF ClaimLua
  <2>1. /\ owner' \in [Shards -> Workers \cup {Nobody}] /\ owner'[s] = v
        /\ ttl' \in [Shards -> 0..TTL] /\ ttl'[s] = TTL
        /\ \A t \in Shards \ {s} : owner'[t] = owner[t] /\ ttl'[t] = ttl[t]
    BY <1>0, <2>0, TTLAssumption DEF KeysTyped
  <2>2. KeysTyped'
    <3>1. ASSUME NEW t \in Shards PROVE (ttl'[t] = 0) <=> (owner'[t] = Nobody)
      <4>1. CASE t = s
        BY <2>1, <4>1, TTLAssumption, NobodyAssumption
      <4>2. CASE t # s
        BY <1>0, <2>1, <4>2 DEF KeysTyped
      <4> QED
        BY <4>1, <4>2
    <3> QED
      BY <2>1, <3>1 DEF KeysTyped
  <2>3. \A w \in Workers : owner[s] = w => w = v
    BY <1>1, NobodyAssumption DEF MayClaim
  <2>4. \A w \in Workers, t \in Shards, n \in 0..TTL : Holds(w, t, n) => Holds(w, t, n)'
    BY <2>1, <2>3, TTLAssumption DEF Holds
  <2> QED
    BY <1>1, <2>1, <2>2, <2>4
<1>2. CASE ~MayClaim(v, s)
  <2>1. UNCHANGED <<owner, ttl>>
    BY <1>2 DEF ClaimLua
  <2> QED
    BY <1>0, <1>2, <2>1 DEF KeysTyped, Holds
<1> QED
  BY <1>1, <1>2

(* A release harms nobody else's lease *)
LEMMA ReleaseEffect ==
  ASSUME TypeOK, NEW v \in Workers, NEW s \in Shards, ReleaseLua(v, s)
  PROVE  /\ KeysTyped'
         /\ \A w \in Workers \ {v}, t \in Shards, n \in 0..TTL : Holds(w, t, n) => Holds(w, t, n)'
         /\ \A w \in Workers, t \in Shards : owner'[t] = w => owner[t] = w
         /\ owner'[s] # v
<1>0. KeysTyped
  BY DEF TypeOK, KeysTyped
<1>1. CASE owner[s] = v
  <2>0. owner' = [owner EXCEPT ![s] = Nobody] /\ ttl' = [ttl EXCEPT ![s] = 0]
    BY <1>1 DEF ReleaseLua
  <2>1. /\ owner' \in [Shards -> Workers \cup {Nobody}] /\ owner'[s] = Nobody
        /\ ttl' \in [Shards -> 0..TTL] /\ ttl'[s] = 0
        /\ \A t \in Shards \ {s} : owner'[t] = owner[t] /\ ttl'[t] = ttl[t]
    BY <1>0, <2>0, TTLAssumption DEF KeysTyped
  <2>2. KeysTyped'
    BY <1>0, <2>1 DEF KeysTyped
  <2>3. \A w \in Workers \ {v}, t \in Shards, n \in 0..TTL : Holds(w, t, n) => Holds(w, t, n)'
    BY <1>1, <2>1 DEF Holds
  <2> QED
    BY <2>1, <2>2, <2>3, NobodyAssumption
<1>2. CASE owner[s] # v
  <2>1. UNCHANGED <<owner, ttl>>
    BY <1>2 DEF ReleaseLua
  <2> QED
    BY <1>0, <1>2, <2>1 DEF KeysTyped, Holds
<1> QED
  BY <1>1, <1>2

(* Script preserves the invariant *)
LEMMA ScriptKeeps ==
  ASSUME IInv, NEW w \in Workers, NEW s \in Shards, Script(w, s)
  PROVE  IInv'
<1>0. /\ TypeOK /\ call[w] = "sent" /\ s = Current(w)
      /\ status[w] \in Claiming \cup Releasing
      /\ UNCHANGED <<status, i, last, ok, healthy, due, orphans, age, begun, misses, robbed>>
  BY DEF IInv, TypeOK, Script
<1>1. i[w] \in 1..last[w] /\ last[w] \in Nat /\ s = Prefixes[w][i[w]]
  <2>1. i[w] \in Nat /\ last[w] \in Nat /\ 1 <= i[w] /\ i[w] <= last[w]
    BY <1>0, InLoop
  <2> QED
    BY <1>0, <2>1 DEF Current
<1>2. ASSUME call' \in [Workers -> {"none", "sent", "yes", "no"}],
             \A v \in Workers \ {w} : call'[v] = call[v], call'[w] # "none",
             KeysTyped', doubt' \subseteq doubt
      PROVE  TypeOK'
  <2>1. Positions'
    BY <1>0, <1>2 DEF TypeOK, Positions
  <2> QED
    BY <1>0, <1>2, <2>1 DEF TypeOK, KeysTyped, Positions
<1>3. CASE status[w] \in Claiming
  <2>1. /\ ClaimLua(w, s) /\ UNCHANGED doubt
        /\ call' = [call EXCEPT ![w] = IF MayClaim(w, s) THEN "yes" ELSE "no"]
    BY <1>3 DEF Script
  <2>2. /\ call' \in [Workers -> {"none", "sent", "yes", "no"}]
        /\ \A v \in Workers \ {w} : call'[v] = call[v]
        /\ call'[w] = IF MayClaim(w, s) THEN "yes" ELSE "no"
    BY <1>0, <2>1 DEF TypeOK
  <2>3. /\ KeysTyped'
        /\ \A v \in Workers, t \in Shards, n \in 0..TTL : Holds(v, t, n) => Holds(v, t, n)'
        /\ \A v \in Workers, t \in Shards : owner'[t] = v => owner[t] = v \/ (v = w /\ t = s)
        /\ MayClaim(w, s) => owner'[s] = w /\ ttl'[s] = TTL
        /\ ~MayClaim(w, s) => owner' = owner
    BY <1>0, <2>1, ClaimEffect
  <2>4. TypeOK'
    BY <1>2, <2>1, <2>2, <2>3
  <2>5. Shape' /\ AcquireAllOk' /\ OrphansAreDoubted'
    BY <1>0, <2>1 DEF IInv, Shape, AcquireAllOk, OrphansAreDoubted
  <2>6. Renewed'
    <3> SUFFICES ASSUME NEW v \in Workers, Running(v), age[v] < TTL, NEW t \in Owned(v)
                 PROVE  Holds(v, t, age[v])'
      BY <1>0 DEF Renewed, RenewedBy, Running
    <3>1. t \in Shards /\ age[v] \in 0..TTL /\ Holds(v, t, age[v])
      BY <1>0, PrefixTyped DEF IInv, Renewed, RenewedBy, TypeOK
    <3> QED
      BY <1>0, <2>3, <3>1 DEF Holds
  <2>7. UnderWay'
    <3> SUFFICES ASSUME NEW v \in Workers, status[v] \in Claiming, ok[v], begun[v] < TTL,
                        NEW k \in 1..last[v], Won(v, k)'
                 PROVE  Holds(v, Prefixes[v][k], begun[v])'
      BY <1>0 DEF UnderWay, UnderWayBy
    <3>1. Prefixes[v][k] \in Shards /\ begun[v] \in 0..TTL
      <4>1. last[v] = Len(Prefixes[v])
        BY DEF IInv, Shape
      <4> QED
        BY <1>0, <4>1, PrefixTyped DEF TypeOK
    <3>2. CASE Won(v, k)
      <4>1. Holds(v, Prefixes[v][k], begun[v])
        BY <3>2 DEF IInv, UnderWay, UnderWayBy
      <4> QED
        BY <1>0, <2>3, <3>1, <4>1 DEF Holds
    <3>3. CASE ~Won(v, k)
      <4>1. v = w /\ k = i[w] /\ MayClaim(w, s)
        BY <1>0, <1>1, <2>2, <3>3 DEF Won
      <4> QED
        BY <1>0, <1>1, <2>3, <3>1, <4>1, TTLAssumption DEF Holds
    <3> QED
      BY <3>2, <3>3
  <2>8. Accounted'
    <3> SUFFICES ASSUME NEW v \in Workers, NEW t \in Shards, owner'[t] = v PROVE Known(v, t)'
      BY DEF Accounted
    <3>1. CASE owner[t] = v
      <4>1. Known(v, t)
        BY <3>1 DEF IInv, Accounted
      <4>2. CASE v # w
        BY <1>0, <2>1, <2>2, <4>1, <4>2 DEF Known, Won, Running
      <4>3. CASE v = w
        <5>1. \/ <<w, t>> \in doubt
              \/ Running(w) /\ t \in Owned(w)
              \/ /\ status[w] = "acquiring"
                 /\ \E k \in 1..last[w] : t = Prefixes[w][k] /\ k < i[w]
          BY <1>0, <1>3, <4>1, <4>3 DEF Known, Won, Claiming, Releasing
        <5> QED
          BY <1>0, <2>1, <4>3, <5>1 DEF Known, Won, Running
      <4> QED
        BY <4>2, <4>3
    <3>2. CASE owner[t] # v
      <4>1. v = w /\ t = s /\ call'[w] = "yes"
        BY <2>2, <2>3, <3>2
      <4>2. CASE status[w] = "acquiring"
        BY <1>0, <1>1, <4>1, <4>2 DEF Known, Won
      <4>3. CASE status[w] = "sweeping"
        BY <1>0, <4>1, <4>3, CurrentTyped DEF Known, Running
      <4> QED
        BY <1>3, <4>2, <4>3 DEF Claiming
    <3> QED
      BY <3>1, <3>2
  <2> QED
    BY <2>4, <2>5, <2>6, <2>7, <2>8 DEF IInv
<1>4. CASE status[w] \notin Claiming
  <2>0. status[w] \in Releasing
    BY <1>0, <1>4
  <2>1. /\ ReleaseLua(w, s)
        /\ call' = [call EXCEPT ![w] = "yes"]
        /\ doubt' = IF <<"claim", w, s>> \in orphans THEN doubt ELSE doubt \ {<<w, s>>}
    BY <1>4 DEF Script
  <2>2. /\ call' \in [Workers -> {"none", "sent", "yes", "no"}]
        /\ \A v \in Workers \ {w} : call'[v] = call[v]
        /\ call'[w] = "yes"
    BY <1>0, <2>1 DEF TypeOK
  <2>3. /\ KeysTyped'
        /\ \A v \in Workers \ {w}, t \in Shards, n \in 0..TTL : Holds(v, t, n) => Holds(v, t, n)'
        /\ \A v \in Workers, t \in Shards : owner'[t] = v => owner[t] = v
        /\ owner'[s] # w
    BY <1>0, <2>1, ReleaseEffect
  <2>4. TypeOK'
    BY <1>2, <2>1, <2>2, <2>3
  <2>5. Shape' /\ AcquireAllOk' /\ OrphansAreDoubted'
    BY <1>0, <2>1 DEF IInv, Shape, AcquireAllOk, OrphansAreDoubted
  <2>6. Renewed'
    <3> SUFFICES ASSUME NEW v \in Workers, Running(v), age[v] < TTL, NEW t \in Owned(v)
                 PROVE  Holds(v, t, age[v])'
      BY <1>0 DEF Renewed, RenewedBy, Running
    <3>1. t \in Shards /\ age[v] \in 0..TTL /\ Holds(v, t, age[v])
      BY <1>0, PrefixTyped DEF IInv, Renewed, RenewedBy, TypeOK
    <3>2. v # w
      BY <2>0 DEF Running, Releasing
    <3> QED
      BY <1>0, <2>3, <3>1, <3>2 DEF Holds
  <2>7. UnderWay'
    <3> SUFFICES ASSUME NEW v \in Workers, status[v] \in Claiming, ok[v], begun[v] < TTL,
                        NEW k \in 1..last[v], Won(v, k)'
                 PROVE  Holds(v, Prefixes[v][k], begun[v])'
      BY <1>0 DEF UnderWay, UnderWayBy
    <3>1. Prefixes[v][k] \in Shards /\ begun[v] \in 0..TTL
      <4>1. last[v] = Len(Prefixes[v])
        BY DEF IInv, Shape
      <4> QED
        BY <1>0, <4>1, PrefixTyped DEF TypeOK
    <3>2. v # w
      BY <1>4
    <3>3. Holds(v, Prefixes[v][k], begun[v])
      <4>1. Won(v, k)
        BY <1>0, <2>2, <3>2 DEF Won
      <4> QED
        BY <4>1 DEF IInv, UnderWay, UnderWayBy
    <3> QED
      BY <1>0, <2>3, <3>1, <3>2, <3>3 DEF Holds
  <2>8. Accounted'
    <3> SUFFICES ASSUME NEW v \in Workers, NEW t \in Shards, owner'[t] = v PROVE Known(v, t)'
      BY DEF Accounted
    <3>1. Known(v, t)
      BY <2>3 DEF IInv, Accounted
    <3>2. CASE v # w
      <4>1. <<v, t>> \in doubt => <<v, t>> \in doubt'
        BY <2>1, <3>2
      <4> QED
        BY <1>0, <2>2, <3>1, <3>2, <4>1 DEF Known, Won, Running
    <3>3. CASE v = w
      <4>1. t # s
        BY <2>3, <3>3
      <4>2. \/ <<w, t>> \in doubt
            \/ \E k \in 1..last[w] : t = Prefixes[w][k] /\ k > i[w]
        BY <1>0, <1>1, <2>0, <3>1, <3>3, <4>1 DEF Known, Running, Releasing
      <4>3. <<w, t>> \in doubt => <<w, t>> \in doubt'
        BY <2>1, <4>1
      <4> QED
        BY <1>0, <2>0, <3>3, <4>2, <4>3 DEF Known
    <3> QED
      BY <3>2, <3>3
  <2> QED
    BY <2>4, <2>5, <2>6, <2>7, <2>8 DEF IInv
<1> QED
  BY <1>3, <1>4

(* OrphanRuns preserves the invariant *)
LEMMA OrphanRunsKeeps ==
  ASSUME IInv, NEW r \in Requests, OrphanRuns(r)
  PROVE  IInv'
<1>0. /\ TypeOK /\ r \in orphans /\ orphans' \subseteq orphans
      /\ UNCHANGED <<status, call, i, last, ok, healthy, due, doubt>>
  BY DEF IInv, OrphanRuns, callVars
<1>1. PICK v \in Workers, s \in Shards : r[2] = v /\ r[3] = s /\ (r[1] = "claim" => r = <<"claim", v, s>>)
  BY DEF Requests
<1>2. /\ Shape' /\ AcquireAllOk' /\ OrphansAreDoubted'
  BY <1>0 DEF IInv, Shape, AcquireAllOk, OrphansAreDoubted
<1>3. ASSUME NEW k, NEW w \in Workers, status[w] \in Claiming, k \in 1..last[w]
      PROVE  Prefixes[w][k] \in Shards
  <2>1. last[w] = Len(Prefixes[w])
    BY <1>3 DEF IInv, Shape
  <2> QED
    BY <1>3, <2>1, PrefixTyped
<1>4. CASE r[1] = "claim"
  <2>1. ClaimLua(v, s) /\ UNCHANGED <<age, begun, misses, robbed>> /\ <<v, s>> \in doubt
    BY <1>0, <1>1, <1>4 DEF OrphanRuns, IInv, OrphansAreDoubted
  <2>2. /\ KeysTyped'
        /\ \A w \in Workers, t \in Shards, n \in 0..TTL : Holds(w, t, n) => Holds(w, t, n)'
        /\ \A w \in Workers, t \in Shards : owner'[t] = w => owner[t] = w \/ (w = v /\ t = s)
    BY <1>0, <2>1, ClaimEffect
  <2>3. TypeOK'
    BY <1>0, <2>1, <2>2 DEF TypeOK, KeysTyped
  <2>4. Renewed'
    <3> SUFFICES ASSUME NEW w \in Workers, Running(w), age[w] < TTL, NEW t \in Owned(w)
                 PROVE  Holds(w, t, age[w])'
      BY <1>0, <2>1 DEF Renewed, RenewedBy, Running
    <3>1. t \in Shards /\ age[w] \in 0..TTL /\ Holds(w, t, age[w])
      BY <1>0, PrefixTyped DEF IInv, Renewed, RenewedBy, TypeOK
    <3> QED
      BY <2>1, <2>2, <3>1 DEF Holds
  <2>5. UnderWay'
    <3> SUFFICES ASSUME NEW w \in Workers, status[w] \in Claiming, ok[w], begun[w] < TTL,
                        NEW k \in 1..last[w], Won(w, k)
                 PROVE  Holds(w, Prefixes[w][k], begun[w])'
      BY <1>0, <2>1 DEF UnderWay, UnderWayBy, Won
    <3>1. Prefixes[w][k] \in Shards /\ begun[w] \in 0..TTL /\ Holds(w, Prefixes[w][k], begun[w])
      BY <1>0, <1>3 DEF IInv, UnderWay, UnderWayBy, TypeOK
    <3> QED
      BY <2>1, <2>2, <3>1 DEF Holds
  <2>6. Accounted'
    <3> SUFFICES ASSUME NEW w \in Workers, NEW t \in Shards, owner'[t] = w PROVE Known(w, t)'
      BY DEF Accounted
    <3>1. Known(w, t)
      BY <2>1, <2>2 DEF IInv, Accounted, Known
    <3> QED
      BY <1>0, <3>1 DEF Known, Won, Running
  <2> QED
    BY <1>2, <2>3, <2>4, <2>5, <2>6 DEF IInv
<1>6. CASE r[1] # "claim" /\ owner[s] # v
  <2>1. UNCHANGED <<owner, ttl, age, begun, misses, robbed>>
    BY <1>1, <1>6 DEF OrphanRuns, ReleaseLua
  <2> QED
    BY <1>0, <2>1, FewerOrphansKeep
<1>5. CASE r[1] # "claim" /\ owner[s] = v
  <2>1. ReleaseLua(v, s) /\ Rob(v)
    BY <1>1, <1>5 DEF OrphanRuns
  <2>2. /\ KeysTyped'
        /\ \A w \in Workers \ {v}, t \in Shards, n \in 0..TTL : Holds(w, t, n) => Holds(w, t, n)'
        /\ \A w \in Workers, t \in Shards : owner'[t] = w => owner[t] = w
    BY <1>0, <2>1, ReleaseEffect
  <2>3. /\ age' \in [Workers -> 0..TTL] /\ begun' \in [Workers -> 0..TTL] /\ misses' \in [Workers -> 0..2]
        /\ \A w \in Workers \ {v} : age'[w] = age[w] /\ begun'[w] = begun[w]
        /\ RenewedBy(v)' /\ UnderWayBy(v)' /\ robbed' \subseteq Workers
    BY <1>0, <2>1, RobEffect
  <2>4. TypeOK'
    BY <1>0, <2>2, <2>3 DEF TypeOK, KeysTyped
  <2>5. Renewed'
    <3> SUFFICES ASSUME NEW w \in Workers \ {v}, Running(w), age[w] < TTL, NEW t \in Owned(w)
                 PROVE  Holds(w, t, age[w])'
      BY <1>0, <2>3 DEF Renewed, RenewedBy, Running
    <3>1. t \in Shards /\ age[w] \in 0..TTL /\ Holds(w, t, age[w])
      BY <1>0, PrefixTyped DEF IInv, Renewed, RenewedBy, TypeOK
    <3> QED
      BY <2>2, <2>3, <3>1 DEF Holds
  <2>6. UnderWay'
    <3> SUFFICES ASSUME NEW w \in Workers \ {v}, status[w] \in Claiming, ok[w], begun[w] < TTL,
                        NEW k \in 1..last[w], Won(w, k)
                 PROVE  Holds(w, Prefixes[w][k], begun[w])'
      BY <1>0, <2>3 DEF UnderWay, UnderWayBy, Won
    <3>1. Prefixes[w][k] \in Shards /\ begun[w] \in 0..TTL /\ Holds(w, Prefixes[w][k], begun[w])
      BY <1>0, <1>3 DEF IInv, UnderWay, UnderWayBy, TypeOK
    <3> QED
      BY <2>2, <2>3, <3>1 DEF Holds
  <2>7. Accounted'
    BY <1>0, <2>2 DEF IInv, Accounted, Known, Won, Running
  <2> QED
    BY <1>2, <2>4, <2>5, <2>6, <2>7 DEF IInv
<1> QED
  BY <1>4, <1>5, <1>6

(* Tick preserves the invariant *)
LEMMA TickKeeps ==
  ASSUME IInv, Tick
  PROVE  IInv'
<1>0. /\ TypeOK
      /\ UNCHANGED <<status, call, i, last, ok, healthy, orphans, misses, robbed>>
      /\ ttl' = [s \in Shards |-> Left(ttl[s])]
      /\ owner' = [s \in Shards |-> IF Left(ttl[s]) > 0 THEN owner[s] ELSE Nobody]
      /\ age' = [w \in Workers |-> Older(age[w])]
      /\ begun' = [w \in Workers |-> Older(begun[w])]
      /\ doubt' = {p \in doubt : \/ owner'[p[2]] = p[1]
                                  \/ <<"claim", p[1], p[2]>> \in orphans}
  BY DEF IInv, Tick, callVars
<1>1. KeysTyped'
  <2>1. ASSUME NEW s \in Shards
        PROVE  /\ ttl'[s] \in 0..TTL /\ owner'[s] \in Workers \cup {Nobody}
               /\ (ttl'[s] = 0) <=> (owner'[s] = Nobody)
    <3>1. ttl[s] \in 0..TTL /\ owner[s] \in Workers \cup {Nobody} /\ ((ttl[s] = 0) <=> (owner[s] = Nobody))
      BY <1>0 DEF TypeOK
    <3> QED
      BY <1>0, <3>1, TTLAssumption DEF Left
  <2> QED
    BY <1>0, <2>1 DEF KeysTyped
<1>2. \A w \in Workers : Older(age[w]) \in 0..TTL /\ Older(begun[w]) \in 0..TTL
  BY <1>0, TTLAssumption DEF Older, TypeOK
<1>3. due' \in [Workers -> Int]
  BY <1>0 DEF Tick, TypeOK
<1>4. TypeOK'
  <2>1. age' \in [Workers -> 0..TTL] /\ begun' \in [Workers -> 0..TTL] /\ doubt' \subseteq Workers \X Shards
    BY <1>0, <1>2 DEF TypeOK
  <2> QED
    BY <1>0, <1>1, <1>3, <2>1 DEF TypeOK, KeysTyped
<1>5. ASSUME NEW w \in Workers, NEW s \in Shards, NEW n \in 0..TTL, Older(n) < TTL, Holds(w, s, n)
      PROVE  n < TTL /\ owner'[s] = w /\ ttl'[s] >= TTL - Older(n)
  <2>1. ttl[s] \in 0..TTL /\ ttl[s] > 1 /\ n < TTL /\ Older(n) = n + 1
    BY <1>0, <1>5, TTLAssumption DEF TypeOK, Older, Holds
  <2> QED
    BY <1>0, <1>5, <2>1, TTLAssumption DEF Holds, Left
<1>6. Shape' /\ AcquireAllOk' /\ OrphansAreDoubted'
  BY <1>0 DEF IInv, Shape, AcquireAllOk, OrphansAreDoubted
<1>7. \A n \in 0..TTL : Older(n) < TTL => n < TTL
  BY TTLAssumption DEF Older
<1>8. Renewed'
  <2> SUFFICES ASSUME NEW w \in Workers, Running(w), age'[w] < TTL, NEW t \in Owned(w)
               PROVE  Holds(w, t, age[w])'
    BY <1>0 DEF Renewed, RenewedBy, Running
  <2>1. t \in Shards /\ age[w] \in 0..TTL /\ age'[w] = Older(age[w])
    BY <1>0, PrefixTyped DEF TypeOK
  <2>2. Holds(w, t, age[w])
    BY <1>7, <2>1 DEF IInv, Renewed, RenewedBy
  <2> QED
    BY <1>5, <2>1, <2>2 DEF Holds
<1>9. UnderWay'
  <2> SUFFICES ASSUME NEW w \in Workers, status[w] \in Claiming, ok[w], begun'[w] < TTL,
                      NEW k \in 1..last[w], Won(w, k)
               PROVE  Holds(w, Prefixes[w][k], begun[w])'
    BY <1>0 DEF UnderWay, UnderWayBy, Won
  <2>1. last[w] = Len(Prefixes[w])
    BY DEF IInv, Shape
  <2>2. Prefixes[w][k] \in Shards /\ begun[w] \in 0..TTL /\ begun'[w] = Older(begun[w])
    BY <1>0, <2>1, PrefixTyped DEF TypeOK
  <2>3. Holds(w, Prefixes[w][k], begun[w])
    BY <1>7, <2>2 DEF IInv, UnderWay, UnderWayBy
  <2> QED
    BY <1>5, <2>2, <2>3 DEF Holds
<1>10. Accounted'
  <2> SUFFICES ASSUME NEW w \in Workers, NEW s \in Shards, owner'[s] = w PROVE Known(w, s)'
    BY DEF Accounted
  <2>1. owner[s] = w
    BY <1>0, NobodyAssumption
  <2>2. Known(w, s)
    BY <2>1 DEF IInv, Accounted
  <2>3. <<w, s>> \in doubt => <<w, s>> \in doubt'
    BY <1>0
  <2> QED
    BY <1>0, <2>2, <2>3 DEF Known, Won, Running
<1> QED
  BY <1>4, <1>6, <1>8, <1>9, <1>10 DEF IInv

(* RedisLosesData preserves the invariant *)
LEMMA RedisLosesDataKeeps ==
  ASSUME IInv, RedisLosesData
  PROVE  IInv'
<1>0. /\ TypeOK
      /\ UNCHANGED <<status, call, i, last, ok, healthy, due, orphans, misses, doubt, robbed>>
      /\ owner' = [s \in Shards |-> Nobody] /\ ttl' = [s \in Shards |-> 0]
      /\ age' = [w \in Workers |-> TTL] /\ begun' = [w \in Workers |-> TTL]
  BY DEF IInv, RedisLosesData, callVars
<1>1. TypeOK'
  <2>1. /\ owner' \in [Shards -> Workers \cup {Nobody}] /\ ttl' \in [Shards -> 0..TTL]
        /\ \A s \in Shards : (ttl'[s] = 0) <=> (owner'[s] = Nobody)
        /\ age' \in [Workers -> 0..TTL] /\ begun' \in [Workers -> 0..TTL]
    BY <1>0, TTLAssumption
  <2> QED
    BY <1>0, <2>1 DEF TypeOK
<1>2. Shape' /\ AcquireAllOk' /\ OrphansAreDoubted'
  BY <1>0 DEF IInv, Shape, AcquireAllOk, OrphansAreDoubted
<1>3. Renewed' /\ UnderWay'
  BY <1>0, TTLAssumption DEF Renewed, RenewedBy, UnderWay, UnderWayBy
<1>4. Accounted'
  BY <1>0, NobodyAssumption DEF Accounted
<1> QED
  BY <1>1, <1>2, <1>3, <1>4 DEF IInv

(* Stuttering preserves the invariant *)
LEMMA LeaseStutterKeeps ==
  ASSUME IInv, UNCHANGED vars
  PROVE  IInv'
<1>0. /\ UNCHANGED <<owner, ttl, status, call, i, last, ok, healthy, due, orphans>>
      /\ UNCHANGED <<age, begun, misses, doubt, robbed>>
  BY DEF vars
<1>1. TypeOK'
  BY <1>0 DEF IInv, TypeOK
<1>2. Shape' /\ AcquireAllOk' /\ OrphansAreDoubted'
  BY <1>0 DEF IInv, Shape, AcquireAllOk, OrphansAreDoubted
<1>3. Renewed' /\ UnderWay'
  BY <1>0 DEF IInv, Renewed, RenewedBy, UnderWay, UnderWayBy, Won, Holds, Running
<1>4. Accounted'
  BY <1>0 DEF IInv, Accounted, Known, Won, Running
<1> QED
  BY <1>1, <1>2, <1>3, <1>4 DEF IInv

-----------------------------------------------------------------------------
(* The invariant holds in every reachable state, whatever the workers, the  *)
(* time to live and the order of calls, answers and failures.               *)
THEOREM LeaseInductive == Spec => []IInv
<1>1. Init => IInv
  BY InitEstablishes
<1>2. IInv /\ [Next]_vars => IInv'
  <2> SUFFICES ASSUME IInv, [Next]_vars PROVE IInv'
    OBVIOUS
  <2>1. CASE UNCHANGED vars
    BY <2>1, LeaseStutterKeeps
  <2>2. CASE Tick
    BY <2>2, TickKeeps
  <2>3. CASE RedisLosesData
    BY <2>3, RedisLosesDataKeeps
  <2>4. ASSUME NEW r \in Requests, OrphanRuns(r) \/ OrphanLost(r) PROVE IInv'
    BY <2>4, OrphanRunsKeeps, OrphanLostKeeps
  <2>5. ASSUME NEW w \in Workers, NEW s \in Shards, Script(w, s) PROVE IInv'
    BY <2>5, ScriptKeeps
  <2>6. ASSUME NEW w \in Workers, Start(w) \/ SweepBegin(w) \/ Shutdown(w) \/ Crash(w) PROVE IInv'
    BY <2>6, StartKeeps, SweepBeginKeeps, ShutdownKeeps, CrashKeeps
  <2>7. ASSUME NEW w \in Workers, WorkerStep(w) PROVE IInv'
    BY <2>7, AcquireWonKeeps, AcquireConflictKeeps, SweepReplyKeeps, ReleaseReplyKeeps DEF WorkerStep
  <2>8. ASSUME NEW w \in Workers, ErrorStep(w) PROVE IInv'
    BY <2>8, AcquireErrorKeeps, SweepErrorKeeps, ReleaseErrorKeeps DEF ErrorStep
  <2> QED
    BY <2>1, <2>2, <2>3, <2>4, <2>5, <2>6, <2>7, <2>8 DEF Next
<1> QED
  BY <1>1, <1>2, PTL DEF Spec

(* Every reachable state is well typed; in particular no loop of lease.rs  *)
(* runs past the worker's list of prefixes, and a key has a time to live.  *)
THEOREM LeaseTypeCorrect == Spec => []TypeOK
<1>1. IInv => TypeOK
  BY DEF IInv
<1> QED
  BY <1>1, LeaseInductive, PTL

(* A worker whose last complete sweep started less than one TTL ago holds   *)
(* all its shards: CLAIM_LUA and RELEASE_LUA of the others leave them alone.*)
THEOREM RenewedLeasesAreHeld == Spec => []RenewedIsHeld
<1>1. IInv => RenewedIsHeld
  BY DEF IInv, Renewed, RenewedBy, RenewedIsHeld, Holds
<1> QED
  BY <1>1, LeaseInductive, PTL

(* A process that ended holds only shards about which a call of acquire_all, *)
(* refresh_once or release went without an answer, or that it was killed with.*)
THEOREM NothingIsLeftBehind == Spec => []EndsWithNothing
<1>1. IInv => EndsWithNothing
  BY DEF IInv, Accounted, Known, EndsWithNothing, Down, Running, Releasing
<1> QED
  BY <1>1, LeaseInductive, PTL

-----------------------------------------------------------------------------
(* The refresher's pace, when sweeps run on time and Redis keeps its data *)

(* A robbed worker counts as one that missed two sweeps; a sweep that was   *)
(* under way when it was robbed does not count                              *)
PaceOf(w) ==
  /\ w \in robbed => misses[w] \in {0, 2} /\ (misses[w] = 0 => ~Running(w) /\ status[w] # "acquiring")
  /\ status[w] \in Claiming => begun[w] = 0 \/ (begun[w] = TTL /\ w \in robbed)
  /\ status[w] = "acquiring" => misses[w] = 0 \/ (begun[w] = TTL /\ w \in robbed)
  /\ Running(w) => 0 <= due[w] /\ due[w] <= Every
  /\ status[w] = "sweeping" => due[w] = Every
  /\ ~Running(w) => ~healthy[w]
  /\ healthy[w] => misses[w] = 0 \/ w \in robbed
  /\ (status[w] = "serving" /\ misses[w] = 0) => age[w] <= Every - due[w]
  /\ (status[w] = "serving" /\ misses[w] = 1) => age[w] <= 2 * Every - due[w]
  /\ (status[w] = "sweeping" /\ misses[w] = 0) => age[w] <= Every
  /\ (status[w] = "sweeping" /\ misses[w] = 1) => age[w] <= 2 * Every

OnTime == \A w \in Workers : PaceOf(w)

(* What is left to show of worker w after a step of its own *)
LEMMA PaceFrame ==
  ASSUME OnTime, NEW w \in Workers,
         \A v \in Workers \ {w} :
           /\ status'[v] = status[v] /\ begun'[v] = begun[v] /\ due'[v] = due[v]
           /\ misses'[v] = misses[v] /\ healthy'[v] = healthy[v] /\ age'[v] = age[v]
           /\ (v \in robbed') <=> (v \in robbed),
         PaceOf(w)'
  PROVE  OnTime'
<1> SUFFICES ASSUME NEW v \in Workers, v # w PROVE PaceOf(v)'
  BY DEF OnTime
<1>1. PaceOf(v)
  BY DEF OnTime
<1> QED
  BY <1>1 DEF PaceOf, Running

(* Making the next call, for the pace *)
LEMMA LoopPace ==
  ASSUME TypeOK, NEW w \in Workers, NEW what, NEW from, NEW to, Loop(w, what, from, to)
  PROVE  status'[w] = what /\ \A v \in Workers \ {w} : status'[v] = status[v]
BY DEF Loop, TypeOK

(* Ending a loop, for the pace *)
LEMMA SettlePace ==
  ASSUME TypeOK, NEW w \in Workers, NEW what, Settle(w, what)
  PROVE  status'[w] = what /\ \A v \in Workers \ {w} : status'[v] = status[v]
BY DEF Settle, TypeOK

(* A worker that is not running has the pace of one that is down *)
LEMMA IdlePace ==
  ASSUME NEW w \in Workers, status'[w] \notin {"serving", "sweeping", "acquiring"},
         misses'[w] \in {0, 2}, ~healthy'[w]
  PROVE  PaceOf(w)'
BY DEF PaceOf, Running, Claiming

(* Start keeps the pace *)
LEMMA StartPace ==
  ASSUME TypeOK, OnTime, NEW w \in Workers, Start(w)
  PROVE  OnTime'
<1>1. status'[w] = "acquiring" /\ \A v \in Workers \ {w} : status'[v] = status[v]
  BY LoopPace DEF Start
<1>2. /\ begun'[w] = 0 /\ misses'[w] = 0 /\ w \notin robbed'
      /\ \A v \in Workers \ {w} : /\ begun'[v] = begun[v] /\ misses'[v] = misses[v]
                                  /\ (v \in robbed') <=> (v \in robbed)
  BY TTLAssumption DEF Start, TypeOK
<1>3. UNCHANGED <<healthy, due, age>>
  BY DEF Start
<1>4. PaceOf(w)'
  <2>1. PaceOf(w) /\ ~Running(w)
    BY DEF OnTime, Start, Down, Running
  <2> QED
    BY <1>1, <1>2, <1>3, <2>1 DEF PaceOf, Running
<1> QED
  BY <1>1, <1>2, <1>3, <1>4, PaceFrame

(* AcquireWon keeps the pace *)
LEMMA AcquireWonPace ==
  ASSUME TypeOK, OnTime, NEW w \in Workers, AcquireWon(w)
  PROVE  OnTime'
<1>0. /\ status[w] = "acquiring" /\ UNCHANGED <<misses, robbed>>
      /\ PaceOf(w) /\ ~healthy[w]
      /\ misses[w] = 0 \/ w \in robbed
      /\ misses[w] = 0 => begun[w] = 0 /\ w \notin robbed
      /\ w \in robbed => misses[w] = 2
      /\ misses[w] \in 0..2
  BY DEF AcquireWon, OnTime, PaceOf, Claiming, Running, TypeOK
<1>1. CASE i[w] < last[w]
  <2>1. /\ status'[w] = "acquiring" /\ \A v \in Workers \ {w} : status'[v] = status[v]
        /\ UNCHANGED <<healthy, due, age, begun>>
    BY <1>1, LoopPace DEF AcquireWon
  <2>2. PaceOf(w)'
    BY <1>0, <2>1 DEF PaceOf, Running, Claiming
  <2> QED
    BY <1>0, <2>1, <2>2, PaceFrame
<1>2. CASE ~(i[w] < last[w])
  <2>1. status'[w] = "serving" /\ \A v \in Workers \ {w} : status'[v] = status[v]
    BY <1>2, SettlePace DEF AcquireWon
  <2>2. /\ due'[w] = Every /\ age'[w] = begun[w]
        /\ \A v \in Workers \ {w} :
             /\ healthy'[v] = healthy[v] /\ due'[v] = due[v]
             /\ age'[v] = age[v] /\ begun'[v] = begun[v]
    BY <1>2 DEF AcquireWon, TypeOK
  <2>3. PaceOf(w)'
    BY <1>0, <2>1, <2>2, EveryBound DEF PaceOf, Running, Claiming
  <2> QED
    BY <1>0, <2>1, <2>2, <2>3, PaceFrame
<1> QED
  BY <1>1, <1>2

(* Backing out of acquire_all ends the pace *)
LEMMA BackOutPace ==
  ASSUME TypeOK, OnTime, NEW w \in Workers, status[w] = "acquiring", NEW clean \in BOOLEAN,
         BackOut(w, clean), Void(w), UNCHANGED <<healthy, due, robbed>>
  PROVE  OnTime'
<1>1. /\ status'[w] \in {"down", "released", "backingOut"}
      /\ \A v \in Workers \ {w} : status'[v] = status[v]
  <2>1. CASE i[w] = 1
    <3>1. PICK what \in {"down", "released"} : Settle(w, what)
      BY <2>1 DEF BackOut
    <3> QED
      BY <3>1, SettlePace
  <2>2. CASE i[w] # 1
    <3>1. Loop(w, "backingOut", 1, i[w] - 1)
      BY <2>2 DEF BackOut
    <3> QED
      BY <3>1, LoopPace
  <2> QED
    BY <2>1, <2>2
<1>2. misses'[w] = 0 /\ \A v \in Workers \ {w} :
        age'[v] = age[v] /\ begun'[v] = begun[v] /\ misses'[v] = misses[v]
  BY VoidEffect
<1>3. ~healthy'[w]
  BY DEF OnTime, PaceOf, Running
<1>4. PaceOf(w)'
  BY <1>1, <1>2, <1>3, IdlePace
<1> QED
  BY <1>1, <1>2, <1>4, PaceFrame

(* AcquireConflict keeps the pace *)
LEMMA AcquireConflictPace ==
  ASSUME TypeOK, OnTime, NEW w \in Workers, AcquireConflict(w)
  PROVE  OnTime'
<1>1. /\ status[w] = "acquiring" /\ BackOut(w, TRUE) /\ Void(w)
      /\ UNCHANGED <<healthy, due, robbed>>
  BY DEF AcquireConflict
<1> QED
  BY <1>1, BackOutPace

(* AcquireError keeps the pace *)
LEMMA AcquireErrorPace ==
  ASSUME TypeOK, OnTime, NEW w \in Workers, AcquireError(w)
  PROVE  OnTime'
<1>1. /\ status[w] = "acquiring" /\ BackOut(w, FALSE) /\ Void(w)
      /\ UNCHANGED <<healthy, due, robbed>>
  BY DEF AcquireError
<1> QED
  BY <1>1, BackOutPace

(* SweepBegin keeps the pace *)
LEMMA SweepBeginPace ==
  ASSUME TypeOK, OnTime, NEW w \in Workers, SweepBegin(w)
  PROVE  OnTime'
<1>0. /\ status[w] = "serving" /\ due[w] <= 0 /\ due[w] \in Int /\ PaceOf(w)
      /\ UNCHANGED <<healthy, age, misses, robbed>>
  BY DEF SweepBegin, TypeOK, OnTime
<1>1. status'[w] = "sweeping" /\ \A v \in Workers \ {w} : status'[v] = status[v]
  BY LoopPace DEF SweepBegin
<1>2. /\ due'[w] = due[w] + Every /\ begun'[w] = 0
      /\ \A v \in Workers \ {w} : due'[v] = due[v] /\ begun'[v] = begun[v]
  BY DEF SweepBegin, TypeOK
<1>3. PaceOf(w)'
  BY <1>0, <1>1, <1>2, EveryBound DEF PaceOf, Running
<1> QED
  BY <1>0, <1>1, <1>2, <1>3, PaceFrame

(* A renewal that is over keeps the pace *)
LEMMA SweepGoesOnPace ==
  ASSUME TypeOK, OnTime, NEW w \in Workers, status[w] = "sweeping", NEW won \in BOOLEAN,
         SweepGoesOn(w, won), UNCHANGED due
  PROVE  OnTime'
<1>0. PaceOf(w) /\ Running(w) /\ status[w] \in Claiming
  BY DEF OnTime, Running, Claiming
<1>1. CASE i[w] < last[w]
  <2>1. /\ status'[w] = "sweeping" /\ \A v \in Workers \ {w} : status'[v] = status[v]
        /\ UNCHANGED <<healthy, age, begun, misses, robbed>>
    BY <1>1, LoopPace DEF SweepGoesOn
  <2>2. PaceOf(w)'
    BY <1>0, <2>1 DEF PaceOf, Running
  <2> QED
    BY <1>0, <2>1, <2>2, PaceFrame
<1>2. CASE ~(i[w] < last[w])
  <2>1. status'[w] = "serving" /\ \A v \in Workers \ {w} : status'[v] = status[v]
    BY <1>2, SettlePace DEF SweepGoesOn
  <2>2. /\ age'[w] = IF ok[w] /\ won THEN begun[w] ELSE age[w]
        /\ misses'[w] = IF ok[w] /\ won /\ begun[w] < TTL THEN 0 ELSE OneMore(misses[w])
        /\ robbed' = IF begun[w] < TTL THEN robbed \ {w} ELSE robbed
        /\ \A v \in Workers \ {w} :
             age'[v] = age[v] /\ begun'[v] = begun[v] /\ misses'[v] = misses[v]
    BY <1>2 DEF SweepGoesOn, Counts, TypeOK
  <2>3. /\ healthy'[w] => ok[w] /\ won
        /\ \A v \in Workers \ {w} : healthy'[v] = healthy[v]
    <3>1. healthy' = [healthy EXCEPT ![w] = ok[w] /\ won]
      BY <1>2 DEF SweepGoesOn
    <3> QED
      BY <3>1 DEF TypeOK
  <2>4. /\ misses[w] \in 0..2 /\ age[w] \in 0..TTL /\ due[w] = Every
        /\ begun[w] = 0 \/ (begun[w] = TTL /\ w \in robbed /\ misses[w] = 2)
    BY <1>0 DEF TypeOK, PaceOf
  <2>5. PaceOf(w)'
    <3>1. CASE ok[w] /\ won /\ begun[w] = 0
      <4>1. age'[w] = 0 /\ misses'[w] = 0 /\ w \notin robbed'
        BY <2>2, <3>1, TTLAssumption
      <4> QED
        BY <2>1, <2>4, <4>1, EveryBound DEF PaceOf, Running, Claiming
    <3>3. CASE begun[w] # 0
      <4>1. misses'[w] = 2 /\ w \in robbed'
        BY <2>2, <2>4, <3>3, TTLAssumption DEF OneMore
      <4> QED
        BY <2>1, <2>4, <4>1, EveryBound DEF PaceOf, Running, Claiming
    <3>2. CASE ~(ok[w] /\ won) /\ begun[w] = 0
      <4>5. w \notin robbed'
        BY <2>2, <3>2, TTLAssumption
      <4>1. age'[w] = age[w] /\ ~healthy'[w] /\ misses'[w] = OneMore(misses[w])
        BY <2>2, <2>3, <3>2
      <4>2. misses'[w] = 1 => misses[w] = 0
        BY <2>4, <4>1 DEF OneMore
      <4>3. misses'[w] # 0
        BY <2>4, <4>1 DEF OneMore
      <4>4. misses[w] = 0 => age[w] <= Every
        BY <1>0 DEF PaceOf
      <4> QED
        BY <2>1, <2>4, <4>1, <4>2, <4>3, <4>4, <4>5, EveryBound, TTLAssumption
           DEF PaceOf, Running, Claiming
    <3> QED
      BY <3>1, <3>2, <3>3
  <2> QED
    BY <1>0, <2>1, <2>2, <2>3, <2>5, PaceFrame
<1> QED
  BY <1>1, <1>2

(* SweepReply keeps the pace *)
LEMMA SweepReplyPace ==
  ASSUME TypeOK, OnTime, NEW w \in Workers, SweepReply(w)
  PROVE  OnTime'
<1>1. PICK won \in BOOLEAN : SweepGoesOn(w, won)
  BY DEF SweepReply
<1>2. status[w] = "sweeping" /\ UNCHANGED due
  BY DEF SweepReply
<1> QED
  BY <1>1, <1>2, SweepGoesOnPace

(* SweepError keeps the pace *)
LEMMA SweepErrorPace ==
  ASSUME TypeOK, OnTime, NEW w \in Workers, SweepError(w)
  PROVE  OnTime'
<1>1. status[w] = "sweeping" /\ SweepGoesOn(w, FALSE) /\ UNCHANGED due
  BY DEF SweepError
<1> QED
  BY <1>1, SweepGoesOnPace

(* Shutdown and Crash *)
LEMMA LeavePace ==
  ASSUME TypeOK, OnTime, NEW w \in Workers, Shutdown(w) \/ Crash(w)
  PROVE  OnTime'
<1>1. /\ status'[w] \in {"releasing", "down"}
      /\ \A v \in Workers \ {w} : status'[v] = status[v]
  BY LoopPace, SettlePace DEF Shutdown, Crash
<1>2. misses'[w] = 0 /\ \A v \in Workers \ {w} :
        age'[v] = age[v] /\ begun'[v] = begun[v] /\ misses'[v] = misses[v]
  BY VoidEffect DEF Shutdown, Crash
<1>3. ~healthy'[w] /\ \A v \in Workers \ {w} : healthy'[v] = healthy[v] /\ due'[v] = due[v]
  BY DEF Shutdown, Crash, TypeOK
<1>4. UNCHANGED robbed
  BY DEF Shutdown, Crash
<1>5. PaceOf(w)'
  BY <1>1, <1>2, <1>3, IdlePace
<1> QED
  BY <1>1, <1>2, <1>3, <1>4, <1>5, PaceFrame

(* ReleaseReply and ReleaseError *)
LEMMA ReleasePace ==
  ASSUME TypeOK, OnTime, NEW w \in Workers, ReleaseReply(w) \/ ReleaseError(w)
  PROVE  OnTime'
<1>0. /\ status[w] \in Releasing /\ UNCHANGED <<healthy, due, age, begun, misses, robbed>>
      /\ PaceOf(w) /\ ~Running(w)
  BY DEF ReleaseReply, ReleaseError, ReleaseGoesOn, OnTime, Releasing, Running
<1>1. /\ status'[w] \in {"down", "released"} \cup Releasing
      /\ \A v \in Workers \ {w} : status'[v] = status[v]
  <2>1. CASE i[w] < last[w]
    <3>1. Loop(w, status[w], i[w] + 1, last[w])
      BY <2>1 DEF ReleaseReply, ReleaseError, ReleaseGoesOn
    <3> QED
      BY <1>0, <3>1, LoopPace
  <2>2. CASE ~(i[w] < last[w])
    <3>1. PICK what \in {"down", "released"} : Settle(w, what)
      BY <2>2 DEF ReleaseReply, ReleaseError, ReleaseGoesOn
    <3> QED
      BY <3>1, SettlePace
  <2> QED
    BY <2>1, <2>2
<1>3. PaceOf(w)'
  BY <1>0, <1>1 DEF PaceOf, Running, Claiming, Releasing
<1> QED
  BY <1>0, <1>1, <1>3, PaceFrame

(* OrphanRuns keeps the pace *)
LEMMA OrphanRunsPace ==
  ASSUME TypeOK, OnTime, NEW r \in Requests, OrphanRuns(r)
  PROVE  OnTime'
<1>0. UNCHANGED <<status, healthy, due>>
  BY DEF OrphanRuns
<1>1. PICK v \in Workers : r[2] = v
  BY DEF Requests
<1>2. CASE UNCHANGED <<age, begun, misses, robbed>>
  BY <1>0, <1>2 DEF OnTime, PaceOf, Running
<1>3. CASE Rob(v)
  <2>1. /\ age'[v] = TTL /\ begun'[v] = TTL /\ misses'[v] = 2 /\ robbed' = robbed \cup {v}
        /\ \A w \in Workers \ {v} :
             age'[w] = age[w] /\ begun'[w] = begun[w] /\ misses'[w] = misses[w]
    BY <1>3, RobEffect
  <2>2. PaceOf(v)
    BY DEF OnTime
  <2>3. PaceOf(v)'
    BY <1>0, <2>1, <2>2 DEF PaceOf, Running
  <2> QED
    BY <1>0, <2>1, <2>3, PaceFrame
<1> QED
  BY <1>1, <1>2, <1>3 DEF OrphanRuns

(* Script and OrphanLost leave the pace alone *)
LEMMA OtherPace ==
  ASSUME OnTime, UNCHANGED <<status, healthy, due, age, begun, misses, robbed>>
  PROVE  OnTime'
BY DEF OnTime, PaceOf, Running

(* Tick keeps the pace *)
LEMMA TickPace ==
  ASSUME TypeOK, OnTime, Punctual, Tick
  PROVE  OnTime'
<1>0. UNCHANGED <<status, healthy, misses, robbed>>
  BY DEF Tick
<1>1. ASSUME NEW w \in Workers PROVE PaceOf(w)'
  <2>0. /\ PaceOf(w) /\ status[w] \notin Claiming
        /\ due[w] \in Int /\ age[w] \in 0..TTL
        /\ status[w] = "serving" => due[w] > 0
    BY DEF OnTime, Tick, TypeOK
  <2>1. CASE ~Running(w)
    BY <1>0, <2>0, <2>1 DEF PaceOf, Running, Claiming
  <2>2. CASE Running(w)
    <3>1. status[w] = "serving" /\ due[w] > 0
      BY <2>0, <2>2 DEF Running, Claiming
    <3>2. due'[w] = due[w] - 1
      BY <2>0, <2>2, <3>1, LeaseConstants DEF Tick
    <3>3. age'[w] \in Int /\ age'[w] <= age[w] + 1
      BY <2>0, TTLAssumption DEF Tick, Older
    <3> QED
      BY <1>0, <2>0, <2>2, <3>1, <3>2, <3>3, EveryBound DEF PaceOf, Running, Claiming
  <2> QED
    BY <2>1, <2>2
<1> QED
  BY <1>1 DEF OnTime

(* The pace is kept in every reachable state *)
LEMMA PaceHolds ==
  ASSUME Punctual, ~DataLoss
  PROVE  Spec => []OnTime
<1>1. Init => OnTime
  BY EveryBound DEF Init, OnTime, PaceOf, Running, Claiming
<1>2. TypeOK /\ OnTime /\ [Next]_vars => OnTime'
  <2> SUFFICES ASSUME TypeOK, OnTime, [Next]_vars PROVE OnTime'
    OBVIOUS
  <2>1. CASE UNCHANGED vars
    BY <2>1, OtherPace DEF vars
  <2>2. CASE Tick
    BY <2>2, TickPace
  <2>3. ~RedisLosesData
    BY DEF RedisLosesData
  <2>4. ASSUME NEW r \in Requests, OrphanRuns(r) PROVE OnTime'
    BY <2>4, OrphanRunsPace
  <2>5. ASSUME NEW r \in Requests, OrphanLost(r) PROVE OnTime'
    BY <2>5, OtherPace DEF OrphanLost, historyVars
  <2>6. ASSUME NEW w \in Workers, NEW s \in Shards, Script(w, s) PROVE OnTime'
    BY <2>6, OtherPace DEF Script
  <2>7. ASSUME NEW w \in Workers, Start(w) \/ SweepBegin(w) \/ Shutdown(w) \/ Crash(w) PROVE OnTime'
    BY <2>7, StartPace, SweepBeginPace, LeavePace
  <2>8. ASSUME NEW w \in Workers, WorkerStep(w) PROVE OnTime'
    BY <2>8, AcquireWonPace, AcquireConflictPace, SweepReplyPace, ReleasePace DEF WorkerStep
  <2>9. ASSUME NEW w \in Workers, ErrorStep(w) PROVE OnTime'
    BY <2>9, AcquireErrorPace, SweepErrorPace, ReleasePace DEF ErrorStep
  <2> QED
    BY <2>1, <2>2, <2>3, <2>4, <2>5, <2>6, <2>7, <2>8, <2>9 DEF Next
<1> QED
  BY <1>1, <1>2, LeaseTypeCorrect, PTL DEF Spec

(* A worker that keeps the pace holds its leases *)
LEMMA PaceMeansHeld ==
  ASSUME IInv, OnTime
  PROVE  HealthyIsHeld
<1> SUFFICES ASSUME NEW w \in Workers,
                    (healthy[w] /\ w \notin robbed) \/ (Running(w) /\ misses[w] <= 1),
                    NEW s \in Owned(w)
             PROVE  owner[s] = w
  BY DEF HealthyIsHeld
<1>1. /\ PaceOf(w) /\ misses[w] \in 0..2 /\ age[w] \in 0..TTL /\ due[w] \in Int
  BY DEF IInv, TypeOK, OnTime
<1>2. Running(w) /\ misses[w] \in {0, 1}
  BY <1>1 DEF PaceOf
<1>3. age[w] < TTL
  BY <1>1, <1>2, EveryBound, TTLAssumption DEF PaceOf, Running
<1> QED
  BY <1>2, <1>3 DEF IInv, Renewed, RenewedBy, Holds

(* With sweeps on time and a Redis that keeps its data, a worker that       *)
(* reports its leases as healthy, or whose last sweep was the first to fail,*)
(* holds every one of them, for every TTL that config.rs accepts.  Nothing  *)
(* is assumed of when a process is started again: one that lost a lease to  *)
(* a late release of its predecessor may say healthy until its next sweep   *)
(* is over, and no longer.                                                  *)
THEOREM HealthyWorkersHold ==
  ASSUME Punctual, ~DataLoss
  PROVE  Spec => []HealthyIsHeld
<1>1. IInv /\ OnTime => HealthyIsHeld
  BY PaceMeansHeld
<1> QED
  BY <1>1, PaceHolds, LeaseInductive, PTL

(* Under the same conditions and with the same exception no two workers     *)
(* believe that they own the same shard.                                    *)
THEOREM HealthyWorkersAreApart ==
  ASSUME Punctual, ~DataLoss
  PROVE  Spec => []BelieveApart
<1>1. HealthyIsHeld => BelieveApart
  BY DEF HealthyIsHeld, BelieveApart
<1> QED
  BY <1>1, HealthyWorkersHold, PTL
-----------------------------------------------------------------------------
(* The refinement *)

(* A script is one step of the registry, or none *)
LEMMA ScriptsAreSteps ==
  ASSUME NEW w \in Workers, NEW s \in Shards, ClaimLua(w, s) \/ ReleaseLua(w, s)
  PROVE  [Registry!Next]_<<owner, ttl>>
<1>1. CASE ClaimLua(w, s) /\ MayClaim(w, s)
  BY <1>1 DEF ClaimLua, MayClaim, Registry!Next, Registry!Grant
<1>2. CASE ClaimLua(w, s) /\ ~MayClaim(w, s)
  BY <1>2 DEF ClaimLua
<1>3. CASE ReleaseLua(w, s) /\ owner[s] = w
  BY <1>3 DEF ReleaseLua, Registry!Next, Registry!GiveUp
<1>4. CASE ReleaseLua(w, s) /\ owner[s] # w
  BY <1>4 DEF ReleaseLua
<1> QED
  BY <1>1, <1>2, <1>3, <1>4

(* So is a tick *)
LEMMA TicksAreSteps ==
  ASSUME TypeOK, Tick
  PROVE  Registry!Pass
<1>1. \A s \in Shards : ttl[s] \in 0..TTL
  BY DEF TypeOK
<1>2. ttl' = [s \in Shards |-> IF ttl[s] > 0 THEN ttl[s] - 1 ELSE 0]
  BY DEF Tick, Left
<1>3. \A s \in Shards : Left(ttl[s]) > 0 <=> ttl[s] > 1
  BY <1>1, TTLAssumption DEF Left
<1>4. owner' = [s \in Shards |-> IF ttl[s] > 1 THEN owner[s] ELSE Nobody]
  BY <1>3 DEF Tick
<1> QED
  BY <1>2, <1>4 DEF Registry!Pass

(* A worker's own steps leave Redis alone *)
LEMMA WorkersLeaveRedis ==
  ASSUME NEW w \in Workers,
         \/ Start(w) \/ SweepBegin(w) \/ Shutdown(w) \/ Crash(w)
         \/ WorkerStep(w) \/ ErrorStep(w)
  PROVE  UNCHANGED <<owner, ttl>>
<1>1. CASE Start(w) \/ SweepBegin(w) \/ Shutdown(w) \/ Crash(w)
  BY <1>1 DEF Start, SweepBegin, Shutdown, Crash, redisVars
<1>2. CASE WorkerStep(w)
  BY <1>2 DEF WorkerStep, AcquireWon, AcquireConflict, SweepReply, SweepGoesOn, ReleaseReply,
              ReleaseGoesOn, redisVars
<1>3. CASE ErrorStep(w)
  BY <1>3 DEF ErrorStep, AcquireError, SweepError, SweepGoesOn, ReleaseError, ReleaseGoesOn, redisVars
<1> QED
  BY <1>1, <1>2, <1>3

(* The leases with their callers, lost answers, crashes and late requests   *)
(* implement what Leases says of them: no shard ever passes from one worker *)
(* straight to another, and none is taken before its time.                  *)
THEOREM LeasesAreImplemented == Spec => RegistryKeepsItsPromise
<1>1. Init => Registry!Init
  BY DEF Init, Registry!Init
<1>2. TypeOK /\ [Next]_vars => [Registry!Next]_Registry!vars
  <2> SUFFICES ASSUME TypeOK, [Next]_vars PROVE [Registry!Next]_<<owner, ttl>>
    BY DEF Registry!vars
  <2>1. CASE UNCHANGED vars
    BY <2>1 DEF vars
  <2>2. CASE Tick
    BY <2>2, TicksAreSteps DEF Registry!Next
  <2>3. CASE RedisLosesData
    BY <2>3 DEF RedisLosesData, Registry!Next, Registry!Lose
  <2>4. ASSUME NEW r \in Requests, OrphanRuns(r) PROVE [Registry!Next]_<<owner, ttl>>
    <3>1. r[2] \in Workers /\ r[3] \in Shards
      BY DEF Requests
    <3> QED
      BY <2>4, <3>1, ScriptsAreSteps DEF OrphanRuns
  <2>5. ASSUME NEW r \in Requests, OrphanLost(r) PROVE UNCHANGED <<owner, ttl>>
    BY <2>5 DEF OrphanLost
  <2>6. ASSUME NEW w \in Workers, NEW s \in Shards, Script(w, s)
        PROVE  [Registry!Next]_<<owner, ttl>>
    BY <2>6, ScriptsAreSteps DEF Script
  <2>7. ASSUME NEW w \in Workers,
               \/ Start(w) \/ SweepBegin(w) \/ Shutdown(w) \/ Crash(w)
               \/ WorkerStep(w) \/ ErrorStep(w)
        PROVE  UNCHANGED <<owner, ttl>>
    BY <2>7, WorkersLeaveRedis
  <2> QED
    BY <2>1, <2>2, <2>3, <2>4, <2>5, <2>6, <2>7 DEF Next
<1> QED
  BY <1>1, <1>2, LeaseTypeCorrect, PTL DEF Spec, RegistryKeepsItsPromise, Registry!Spec
=============================================================================
