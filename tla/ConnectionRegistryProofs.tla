---------------------- MODULE ConnectionRegistryProofs ----------------------
(* Proofs about ConnectionRegistry, for every value of its constants *)
EXTENDS ConnectionRegistry, TLAPS

(* The conjuncts of the inductive invariant *)

(* Ids are handed out in order, and the maps hold connections under their *)
(* own device and shard; by_shard holds only what register finished.      *)
Allocated == \A c \in Conns : phase[c] = "none" <=> c > next_id

MapsWellFormed ==
  /\ \A d \in Devices : by_device[d] # None =>
       by_device[d] <= next_id /\ device[by_device[d]] = d
  /\ \A s \in Shards, d \in Devices : by_shard[s][d] # None =>
       /\ by_shard[s][d] <= next_id
       /\ device[by_shard[s][d]] = d
       /\ shard[by_shard[s][d]] = s
       /\ phase[by_shard[s][d]] \notin {"none", "registering"}

(* What a thread works on *)
WithConn == {"insertDevice", "deregDevice", "deregShard", "control",
             "controlClose"} \cup Registering
Replacing == {"closePrevious", "unindexPrevious"}

ThreadOK(t) ==
  /\ pc[t] \in WithConn => cur[t] \in 1..next_id
  /\ pc[t] \notin WithConn => cur[t] = None
  /\ pc[t] \in {"insertDevice"} \cup Registering => phase[cur[t]] = "registering"
  /\ pc[t] \in Replacing => /\ prev[t] \in 1..next_id
                            /\ device[prev[t]] = device[cur[t]]
  /\ pc[t] \notin Replacing => prev[t] = None

ThreadsWellFormed == \A t \in Threads : ThreadOK(t)

RegistersDiffer ==
  \A t, u \in Threads :
    (t # u /\ pc[t] \in Registering /\ pc[u] \in Registering) => cur[t] # cur[u]

(* A connection being registered has a thread that registers it *)
RegisteringHasThread ==
  \A c \in Conns : phase[c] = "registering" =>
    \E t \in Threads : pc[t] \in {"insertDevice"} \cup Registering /\ cur[t] = c

(* A connection that is not in by_device yet is known to its thread only *)
NotYetInserted ==
  \A t \in Threads : pc[t] = "insertDevice" =>
    /\ by_device[device[cur[t]]] # cur[t]
    /\ \A u \in Threads : u # t => cur[u] # cur[t] /\ prev[u] # cur[t]

(* What a thread is about to take out of by_shard has left by_device *)
RemovalsAreStale ==
  \A t \in Threads :
    /\ pc[t] = "deregShard" => by_device[device[cur[t]]] # cur[t]
    /\ pc[t] \in Replacing => by_device[device[prev[t]]] # prev[t]

(* close_all: there is one, and what it cleared stays clear *)
CloseAllClears ==
  /\ \A t \in Threads : pc[t] \in ClosingAll => closing
  /\ \A t, u \in Threads :
       pc[t] \in ClosingAll /\ pc[u] \in ClosingAll => t = u
  /\ \A t, u \in Threads :
       pc[t] \in ClosingAll /\ pc[u] \in Registering => device[cur[u]] \in overlap
  /\ \A t \in Threads, d \in Devices \ overlap :
       /\ pc[t] = "closeDevices" /\ d \notin left => by_device[d] = None
       /\ pc[t] = "closeShards" => by_device[d] = None

(* Between its two inserts an unoverlapped register owns the device's entry *)
WindowIsOwn ==
  \A t \in Threads :
    (pc[t] \in Registering /\ device[cur[t]] \notin overlap)
      => by_device[device[cur[t]]] = cur[t]

(* A registered connection is in both maps ... *)
CurrentIsIndexed ==
  \A d \in Devices \ overlap :
    (by_device[d] # None /\ phase[by_device[d]] # "registering")
      => by_shard[shard[by_device[d]]][d] = by_device[d]

(* ... and some thread is about to remove whatever else is in by_shard *)
Removes(t, s, c) ==
  \/ pc[t] \in Replacing /\ prev[t] = c
  \/ pc[t] = "deregShard" /\ cur[t] = c
  \/ pc[t] \in {"closeSend", "closeDevices"}
  \/ pc[t] = "closeShards" /\ s \in left

StaleIsPending ==
  \A s \in Shards, d \in Devices \ overlap :
    (by_shard[s][d] # None /\ by_device[d] # by_shard[s][d])
      => \E t \in Threads : Removes(t, s, by_shard[s][d])

FreshIteration ==
  \A t \in Threads : pc[t] # "broadcast" => \A d \in Devices : seen[t][d] = "unseen"

IInv ==
  /\ TypeOK
  /\ Allocated
  /\ MapsWellFormed
  /\ ThreadsWellFormed
  /\ RegistersDiffer
  /\ RegisteringHasThread
  /\ NotYetInserted
  /\ RemovalsAreStale
  /\ CloseAllClears
  /\ WindowIsOwn
  /\ CurrentIsIndexed
  /\ StaleIsPending
  /\ FreshIteration
  /\ BroadcastMissesNobody

(* A try_send leaves every queue well-typed and within its capacity. *)
LEMMA TrySendType ==
  ASSUME TypeOK, NEW c \in Conns, NEW m \in Outbound, TrySend(c, m)
  PROVE  /\ queue' \in [Conns -> Seq(Outbound)]
         /\ \A x \in Conns : Len(queue'[x]) <= Capacity
<1>1. CASE Accepts(c)
  <2>1. queue' = [queue EXCEPT ![c] = Append(queue[c], m)]
    BY <1>1 DEF TrySend
  <2>2. /\ Append(queue[c], m) \in Seq(Outbound)
        /\ Len(Append(queue[c], m)) <= Capacity
    BY <1>1, CapacityAssumption DEF TypeOK, Accepts
  <2> QED
    BY <2>1, <2>2 DEF TypeOK
<1>2. CASE ~Accepts(c)
  BY <1>2 DEF TrySend, TypeOK
<1> QED
  BY <1>1, <1>2

(* Which connections the threads and the maps can name: ids that were
   handed out, never None where the code has a connection in hand. *)
LEMMA Ranges ==
  ASSUME IInv
  PROVE  /\ \A c \in Conns : c # None /\ device[c] \in Devices /\ shard[c] \in Shards
         /\ \A u \in Threads : pc[u] \in WithConn =>
              cur[u] \in Conns /\ cur[u] <= next_id
         /\ \A u \in Threads : pc[u] \in Replacing =>
              prev[u] \in Conns /\ prev[u] <= next_id
         /\ \A d \in Devices : by_device[d] # None =>
              by_device[d] \in Conns /\ by_device[d] <= next_id
         /\ \A s \in Shards, d \in Devices : by_shard[s][d] # None =>
              by_shard[s][d] \in Conns /\ by_shard[s][d] <= next_id
         /\ next_id \in Nat
<1>1. \A c \in Conns : c # None /\ device[c] \in Devices /\ shard[c] \in Shards
  BY DEF IInv, TypeOK, Conns, None
<1>2. \A u \in Threads : pc[u] \in WithConn => cur[u] \in Conns /\ cur[u] <= next_id
  BY MaxConnAssumption DEF IInv, TypeOK, ThreadsWellFormed, ThreadOK, Conns, ConnOrNone
<1>3. \A u \in Threads : pc[u] \in Replacing => prev[u] \in Conns /\ prev[u] <= next_id
  BY MaxConnAssumption DEF IInv, TypeOK, ThreadsWellFormed, ThreadOK, Conns, ConnOrNone
<1>4. \A d \in Devices : by_device[d] # None =>
        by_device[d] \in Conns /\ by_device[d] <= next_id
  BY MaxConnAssumption DEF IInv, TypeOK, MapsWellFormed, Conns, ConnOrNone, None
<1>5. \A s \in Shards, d \in Devices : by_shard[s][d] # None =>
        by_shard[s][d] \in Conns /\ by_shard[s][d] <= next_id
  <2> SUFFICES ASSUME NEW s \in Shards, NEW d \in Devices, by_shard[s][d] # None
               PROVE  by_shard[s][d] \in Conns /\ by_shard[s][d] <= next_id
    OBVIOUS
  <2>1. by_shard[s][d] \in ConnOrNone
    BY DEF IInv, TypeOK
  <2> QED
    BY <2>1, MaxConnAssumption DEF IInv, MapsWellFormed, Conns, ConnOrNone, None
<1>6. next_id \in Nat
  BY MaxConnAssumption DEF IInv, TypeOK, ConnOrNone
<1> QED
  BY <1>1, <1>2, <1>3, <1>4, <1>5, <1>6


(* RegisterBegin preserves the invariant *)
LEMMA RegisterBeginKeeps ==
  ASSUME NEW t \in Threads, NEW d \in Devices, NEW s \in Shards,
         NEW l \in Locations, IInv, RegisterBegin(t, d, s, l)
  PROVE  IInv'
<1> DEFINE c == next_id + 1
<1>1. c \in Conns /\ next_id \in Nat
  BY MaxConnAssumption DEF IInv, TypeOK, RegisterBegin, ConnOrNone, Conns
<1>2. pc[t] = "idle" /\ phase[c] = "none"
  BY <1>1 DEF IInv, Allocated, RegisterBegin
<1>3. /\ pc' \in [Threads -> PCs]
      /\ pc'[t] = "insertDevice"
      /\ \A u \in Threads \ {t} : pc'[u] = pc[u]
  BY DEF IInv, TypeOK, RegisterBegin, Goto, PCs
<1>4. /\ cur' \in [Threads -> ConnOrNone]
      /\ cur'[t] = c
      /\ \A u \in Threads \ {t} : cur'[u] = cur[u]
  BY <1>1 DEF IInv, TypeOK, RegisterBegin, Conns, ConnOrNone
<1>5. /\ device' \in [Conns -> Devices]
      /\ device'[c] = d
      /\ \A x \in Conns \ {c} : device'[x] = device[x]
  BY <1>1 DEF IInv, TypeOK, RegisterBegin
<1>6. /\ shard' \in [Conns -> Shards]
      /\ \A x \in Conns \ {c} : shard'[x] = shard[x]
  BY <1>1 DEF IInv, TypeOK, RegisterBegin
<1>7. /\ phase' \in [Conns -> {"none", "registering", "live", "stopping", "leaving", "gone"}]
      /\ phase'[c] = "registering"
      /\ \A x \in Conns \ {c} : phase'[x] = phase[x]
  BY <1>1 DEF IInv, TypeOK, RegisterBegin
<1>8. next_id' = c /\ c \in ConnOrNone /\ location' \in [Conns -> Locations]
  BY <1>1 DEF IInv, TypeOK, RegisterBegin, Conns, ConnOrNone
<1>9. UNCHANGED <<by_device, by_shard, queue, replay, prev, scope, seen, left,
                  closing, overlap>>
  BY DEF RegisterBegin, broadcastVars
<1>10. \* nothing refers to the new id yet
       /\ \A u \in Threads : cur[u] # c /\ prev[u] # c
       /\ \A e \in Devices : by_device[e] # c
       /\ \A z \in Shards, e \in Devices : by_shard[z][e] # c
  BY <1>1, Ranges DEF IInv, ThreadsWellFormed, ThreadOK, None
<1>11. TypeOK'
  BY <1>3, <1>4, <1>5, <1>6, <1>7, <1>8, <1>9 DEF IInv, TypeOK
<1>12. Allocated'
  BY <1>1, <1>7, <1>8 DEF IInv, Allocated, Conns
<1>13. MapsWellFormed'
  <2>1. ASSUME NEW e \in Devices, by_device'[e] # None
        PROVE  by_device'[e] <= next_id' /\ device'[by_device'[e]] = e
    BY <2>1, <1>1, <1>5, <1>8, <1>9, <1>10, Ranges DEF IInv, MapsWellFormed, Conns
  <2>2. ASSUME NEW z \in Shards, NEW e \in Devices, by_shard'[z][e] # None
        PROVE  /\ by_shard'[z][e] <= next_id'
               /\ device'[by_shard'[z][e]] = e
               /\ shard'[by_shard'[z][e]] = z
               /\ phase'[by_shard'[z][e]] \notin {"none", "registering"}
    <3> DEFINE x == by_shard[z][e]
    <3>1. x \in Conns \ {c} /\ x <= next_id
      BY <2>2, <1>9, <1>10, Ranges
    <3>2. device[x] = e /\ shard[x] = z /\ phase[x] \notin {"none", "registering"}
      BY <2>2, <1>9 DEF IInv, MapsWellFormed
    <3> QED
      BY <3>1, <3>2, <1>1, <1>5, <1>6, <1>7, <1>8, <1>9 DEF Conns
  <2> QED
    BY <2>1, <2>2 DEF MapsWellFormed
<1>14. ThreadsWellFormed'
  <2>1. ThreadOK(t)'
    <3>1. prev[t] = None
      BY <1>2 DEF IInv, ThreadsWellFormed, ThreadOK, Replacing
    <3> QED
      BY <1>1, <1>3, <1>4, <1>7, <1>8, <1>9, <3>1 
      DEF ThreadOK, WithConn, Replacing, Registering
  <2>2. ASSUME NEW u \in Threads \ {t} PROVE ThreadOK(u)'
    <3>1. pc'[u] = pc[u] /\ cur'[u] = cur[u] /\ prev'[u] = prev[u] /\ ThreadOK(u)
      BY <1>3, <1>4, <1>9 DEF IInv, ThreadsWellFormed
    <3>2. /\ pc[u] \in WithConn => device'[cur[u]] = device[cur[u]] /\ phase'[cur[u]] = phase[cur[u]]
          /\ pc[u] \in Replacing => device'[prev[u]] = device[prev[u]]
      BY <1>5, <1>7, <1>10, Ranges
    <3> QED
      BY <1>1, <1>8, <3>1, <3>2, Ranges DEF ThreadOK, WithConn, Replacing, Registering
  <2> QED
    BY <2>1, <2>2 DEF ThreadsWellFormed
<1>15. RegistersDiffer'
  BY <1>3, <1>4 DEF IInv, RegistersDiffer, Registering
<1>16. NotYetInserted'
  BY <1>1, <1>3, <1>4, <1>5, <1>9, <1>10, Ranges DEF IInv, NotYetInserted, WithConn
<1>17. RemovalsAreStale'
  BY <1>3, <1>4, <1>5, <1>9, <1>10, Ranges DEF IInv, RemovalsAreStale, Replacing, WithConn
<1>18. CloseAllClears'
  BY <1>2, <1>3, <1>4, <1>5, <1>9, <1>10, Ranges DEF IInv, CloseAllClears, ClosingAll, Registering, WithConn
<1>19. WindowIsOwn'
  BY <1>3, <1>4, <1>5, <1>9, <1>10, Ranges DEF IInv, WindowIsOwn, Registering, WithConn
<1>20. CurrentIsIndexed'
  BY <1>6, <1>7, <1>9, <1>10, Ranges DEF IInv, CurrentIsIndexed
<1>21. StaleIsPending'
  BY <1>2, <1>3, <1>4, <1>9 DEF IInv, StaleIsPending, Removes, Replacing
<1>22. FreshIteration'
  BY <1>2, <1>3, <1>9 DEF IInv, FreshIteration
<1>23. BroadcastMissesNobody'
  BY <1>2, <1>3, <1>6, <1>7, <1>9, <1>10, Ranges DEF IInv, BroadcastMissesNobody, Connected
<1>24. RegisteringHasThread'
  BY <1>1, <1>2, <1>3, <1>4, <1>7, <1>10 DEF IInv, RegisteringHasThread, Registering
<1> QED
  BY <1>11, <1>12, <1>13, <1>14, <1>15, <1>16, <1>17, <1>18, <1>19, <1>20,
     <1>21, <1>22, <1>23, <1>24 DEF IInv


(* RegisterInsertDevice preserves the invariant *)
LEMMA RegisterInsertDeviceKeeps ==
  ASSUME NEW t \in Threads, IInv, RegisterInsertDevice(t)
  PROVE  IInv'
<1> DEFINE c == cur[t]
           d == device[c]
           p == by_device[d]
<1>1. /\ pc[t] = "insertDevice"
      /\ c \in Conns /\ c <= next_id /\ d \in Devices
  BY Ranges DEF RegisterInsertDevice, WithConn
<1>2. /\ phase[c] = "registering"
      /\ p # c
      /\ \A u \in Threads \ {t} : cur[u] # c /\ prev[u] # c
  BY <1>1 DEF IInv, ThreadsWellFormed, ThreadOK, NotYetInserted
<1>3. /\ p \in ConnOrNone
      /\ p # None => p \in Conns /\ p \in 1..next_id /\ device[p] = d
  BY <1>1, Ranges DEF IInv, TypeOK, MapsWellFormed, Conns
<1>4. /\ pc' \in [Threads -> PCs]
      /\ pc'[t] = IF p # None THEN "closePrevious" ELSE "insertShard"
      /\ \A u \in Threads \ {t} : pc'[u] = pc[u]
  BY <1>1 DEF IInv, TypeOK, RegisterInsertDevice, Goto, PCs, Registering
<1>5. /\ by_device' \in [Devices -> ConnOrNone]
      /\ by_device'[d] = c
      /\ \A e \in Devices \ {d} : by_device'[e] = by_device[e]
  BY <1>1 DEF IInv, TypeOK, RegisterInsertDevice, Conns, ConnOrNone
<1>6. /\ prev' \in [Threads -> ConnOrNone]
      /\ prev'[t] = p
      /\ \A u \in Threads \ {t} : prev'[u] = prev[u]
  BY <1>3 DEF IInv, TypeOK, RegisterInsertDevice
<1>7. /\ overlap' \subseteq Devices
      /\ overlap \subseteq overlap'
      /\ InRegister(d) \/ InCloseAll => d \in overlap'
  BY <1>1 DEF IInv, TypeOK, RegisterInsertDevice
<1>8. UNCHANGED <<next_id, device, shard, location, by_shard, queue, phase,
                  replay, cur, scope, seen, left, closing>>
  BY DEF RegisterInsertDevice, connVars, sessionVars, broadcastVars
<1>11. TypeOK'
  BY <1>4, <1>5, <1>6, <1>7, <1>8 DEF IInv, TypeOK
<1>12. Allocated'
  BY <1>8 DEF IInv, Allocated
<1>13. MapsWellFormed'
  BY <1>1, <1>5, <1>8 DEF IInv, MapsWellFormed
<1>14. ThreadsWellFormed'
  <2>1. ThreadOK(t)'
    BY <1>1, <1>2, <1>3, <1>4, <1>6, <1>8, Ranges
    DEF IInv, ThreadsWellFormed, ThreadOK, WithConn, Replacing, Registering
  <2>2. ASSUME NEW u \in Threads \ {t} PROVE ThreadOK(u)'
    BY <1>4, <1>6, <1>8 DEF IInv, ThreadsWellFormed, ThreadOK
  <2> QED
    BY <2>1, <2>2 DEF ThreadsWellFormed
<1>15. RegistersDiffer'
  BY <1>2, <1>4, <1>8 DEF IInv, RegistersDiffer
<1>16. NotYetInserted'
  <2> SUFFICES ASSUME NEW u \in Threads, pc'[u] = "insertDevice"
               PROVE  /\ by_device'[device[cur[u]]] # cur[u]
                      /\ \A w \in Threads : w # u => cur[w] # cur[u] /\ prev'[w] # cur[u]
    BY <1>8 DEF NotYetInserted
  <2>1. u # t /\ pc[u] = "insertDevice"
    BY <1>4
  <2>2. /\ by_device[device[cur[u]]] # cur[u]
        /\ cur[u] \in Conns /\ device[cur[u]] \in Devices
        /\ \A w \in Threads : w # u => cur[w] # cur[u] /\ prev[w] # cur[u]
    BY <2>1, Ranges DEF IInv, NotYetInserted, WithConn
  <2>3. p # cur[u]
    BY <1>1, <1>3, <2>2, Ranges
  <2> QED
    BY <1>2, <1>5, <1>6, <2>1, <2>2, <2>3
<1>17. RemovalsAreStale'
  <2> SUFFICES ASSUME NEW u \in Threads
               PROVE  /\ pc'[u] = "deregShard" => by_device'[device[cur[u]]] # cur[u]
                      /\ pc'[u] \in Replacing => by_device'[device[prev'[u]]] # prev'[u]
    BY <1>8 DEF RemovalsAreStale
  <2>1. CASE u = t
    BY <2>1, <1>2, <1>3, <1>4, <1>5, <1>6 DEF Replacing
  <2>2. CASE u # t
    BY <2>2, <1>2, <1>4, <1>5, <1>6, Ranges DEF IInv, RemovalsAreStale, WithConn
  <2> QED
    BY <2>1, <2>2
<1>18. CloseAllClears'
  <2>1. \A u \in Threads : pc'[u] \in ClosingAll => u # t /\ pc[u] \in ClosingAll /\ InCloseAll
    BY <1>4 DEF ClosingAll, InCloseAll
  <2>2. \A u, w \in Threads :
          pc'[u] \in ClosingAll /\ pc'[w] \in Registering => device[cur[w]] \in overlap'
    BY <2>1, <1>4, <1>7 DEF IInv, CloseAllClears
  <2>3. ASSUME NEW u \in Threads, pc'[u] \in ClosingAll, NEW e \in Devices \ overlap'
        PROVE  by_device'[e] = by_device[e]
    BY <2>1, <2>3, <1>5, <1>7
  <2> QED
    BY <2>1, <2>2, <2>3, <1>4, <1>7, <1>8 DEF IInv, CloseAllClears, ClosingAll
<1>19. WindowIsOwn'
  <2> SUFFICES ASSUME NEW u \in Threads, pc'[u] \in Registering,
                      device[cur[u]] \notin overlap'
               PROVE  by_device'[device[cur[u]]] = cur[u]
    BY <1>8 DEF WindowIsOwn
  <2>1. CASE u = t
    BY <2>1, <1>5
  <2>2. CASE u # t
    <3>1. pc[u] \in Registering
      BY <2>2, <1>4
    <3>2. device[cur[u]] # d
      BY <3>1, <1>7 DEF InRegister
    <3> QED
      BY <3>1, <3>2, <1>5, <1>7, Ranges DEF IInv, WindowIsOwn, WithConn
  <2> QED
    BY <2>1, <2>2
<1>20. CurrentIsIndexed'
  BY <1>2, <1>5, <1>7, <1>8 DEF IInv, CurrentIsIndexed
<1>21. StaleIsPending'
  <2> SUFFICES ASSUME NEW s \in Shards, NEW e \in Devices \ overlap',
                      by_shard[s][e] # None, by_device'[e] # by_shard[s][e]
               PROVE  \E u \in Threads : Removes(u, s, by_shard[s][e])'
    BY <1>8 DEF StaleIsPending, Removes
  <2>1. CASE by_device[e] = by_shard[s][e]
    <3>1. e = d /\ by_shard[s][e] = p /\ p # None
      BY <2>1, <1>5
    <3> QED
      BY <3>1, <1>4, <1>6, <1>8 DEF Removes, Replacing
  <2>2. CASE by_device[e] # by_shard[s][e]
    <3>1. PICK u \in Threads : Removes(u, s, by_shard[s][e])
      BY <2>2, <1>7 DEF IInv, StaleIsPending
    <3>2. u # t
      BY <3>1, <1>1 DEF Removes, Replacing
    <3> QED
      BY <3>1, <3>2, <1>4, <1>6, <1>8 DEF Removes
  <2> QED
    BY <2>1, <2>2
<1>22. FreshIteration'
  BY <1>1, <1>4, <1>8 DEF IInv, FreshIteration
<1>23. BroadcastMissesNobody'
  BY <1>2, <1>4, <1>5, <1>7, <1>8 DEF IInv, BroadcastMissesNobody, Connected
<1>24. RegisteringHasThread'
  BY <1>1, <1>4, <1>8 DEF IInv, RegisteringHasThread, Registering
<1> QED
  BY <1>11, <1>12, <1>13, <1>14, <1>15, <1>16, <1>17, <1>18, <1>19, <1>20,
     <1>21, <1>22, <1>23, <1>24 DEF IInv


(* RegisterClosePrevious preserves the invariant *)
LEMMA RegisterClosePreviousKeeps ==
  ASSUME NEW t \in Threads, IInv, RegisterClosePrevious(t)
  PROVE  IInv'
<1>1. pc[t] = "closePrevious" /\ prev[t] \in Conns
  BY Ranges DEF RegisterClosePrevious, Replacing
<1>2. /\ pc' \in [Threads -> PCs]
      /\ pc'[t] = "unindexPrevious"
      /\ \A u \in Threads \ {t} : pc'[u] = pc[u]
  BY DEF IInv, TypeOK, RegisterClosePrevious, Goto, PCs, Registering
<1>3. \A u \in Threads :
        /\ pc'[u] \in Registering <=> pc[u] \in Registering
        /\ pc'[u] \in Replacing <=> pc[u] \in Replacing
        /\ pc'[u] \in WithConn <=> pc[u] \in WithConn
        /\ u # t => pc'[u] = pc[u]
  BY <1>1, <1>2 DEF Registering, Replacing, WithConn
<1>4. /\ queue' \in [Conns -> Seq(Outbound)]
      /\ \A x \in Conns : Len(queue'[x]) <= Capacity
  BY <1>1, TrySendType DEF RegisterClosePrevious, IInv, Outbound
<1>5. UNCHANGED <<next_id, device, shard, location, by_device, by_shard, phase,
                  replay, cur, prev, scope, seen, left, closing, overlap>>
  BY DEF RegisterClosePrevious, connVars, sessionVars, broadcastVars
<1>11. TypeOK'
  BY <1>2, <1>4, <1>5 DEF IInv, TypeOK
<1>12. Allocated'
  BY <1>5 DEF IInv, Allocated
<1>13. MapsWellFormed'
  BY <1>5 DEF IInv, MapsWellFormed
<1>14. ThreadsWellFormed'
  BY <1>1, <1>2, <1>3, <1>5 DEF IInv, ThreadsWellFormed, ThreadOK
<1>15. RegistersDiffer'
  BY <1>3, <1>5 DEF IInv, RegistersDiffer
<1>16. NotYetInserted'
  BY <1>2, <1>3, <1>5 DEF IInv, NotYetInserted
<1>17. RemovalsAreStale'
  BY <1>2, <1>3, <1>5 DEF IInv, RemovalsAreStale
<1>18. CloseAllClears'
  BY <1>2, <1>3, <1>5 DEF IInv, CloseAllClears, ClosingAll
<1>19. WindowIsOwn'
  BY <1>3, <1>5 DEF IInv, WindowIsOwn
<1>20. CurrentIsIndexed'
  BY <1>5 DEF IInv, CurrentIsIndexed
<1>21. StaleIsPending'
  <2> SUFFICES ASSUME NEW s \in Shards, NEW e \in Devices \ overlap,
                      by_shard[s][e] # None, by_device[e] # by_shard[s][e]
               PROVE  \E u \in Threads : Removes(u, s, by_shard[s][e])'
    BY <1>5 DEF StaleIsPending, Removes
  <2>1. PICK u \in Threads : Removes(u, s, by_shard[s][e])
    BY DEF IInv, StaleIsPending
  <2> QED
    BY <2>1, <1>1, <1>2, <1>3, <1>5 DEF Removes, Replacing
<1>22. FreshIteration'
  BY <1>1, <1>2, <1>5 DEF IInv, FreshIteration
<1>23. BroadcastMissesNobody'
  BY <1>2, <1>5 DEF IInv, BroadcastMissesNobody, Connected
<1>24. RegisteringHasThread'
  BY <1>1, <1>2, <1>3, <1>5 DEF IInv, RegisteringHasThread, Registering
<1> QED
  BY <1>11, <1>12, <1>13, <1>14, <1>15, <1>16, <1>17, <1>18, <1>19, <1>20,
     <1>21, <1>22, <1>23, <1>24 DEF IInv

(* What Unindex changes: the entry of the connection goes if it is the
   connection's own, and every other entry stays. *)
LEMMA UnindexEffect ==
  ASSUME IInv, NEW c \in Conns, Unindex(c)
  PROVE  /\ by_shard' \in [Shards -> [Devices -> ConnOrNone]]
         /\ by_shard'[shard[c]][device[c]] # c
         /\ \A s \in Shards, d \in Devices :
              by_shard[s][d] # c => by_shard'[s][d] = by_shard[s][d]
         /\ \A s \in Shards, d \in Devices :
              by_shard[s][d] = c => by_shard'[s][d] = None
<1>1. c # None /\ device[c] \in Devices /\ shard[c] \in Shards
  BY Ranges
<1>2. \A s \in Shards, d \in Devices :
        by_shard[s][d] = c => s = shard[c] /\ d = device[c]
  BY <1>1 DEF IInv, MapsWellFormed
<1>3. CASE by_shard[shard[c]][device[c]] = c
  <2>1. by_shard' = [by_shard EXCEPT ![shard[c]][device[c]] = None]
    BY <1>3 DEF Unindex
  <2>2. by_shard' \in [Shards -> [Devices -> ConnOrNone]]
    BY <1>1, <2>1, MaxConnAssumption DEF IInv, TypeOK, ConnOrNone, None
  <2>3. /\ by_shard'[shard[c]][device[c]] = None
        /\ \A s \in Shards, d \in Devices :
             <<s, d>> # <<shard[c], device[c]>> => by_shard'[s][d] = by_shard[s][d]
    BY <1>1, <2>1 DEF IInv, TypeOK
  <2> QED
    BY <1>1, <1>2, <1>3, <2>2, <2>3
<1>4. CASE by_shard[shard[c]][device[c]] # c
  <2>1. by_shard' = by_shard
    BY <1>4 DEF Unindex
  <2> QED
    BY <1>1, <1>2, <1>4, <2>1 DEF IInv, TypeOK
<1> QED
  BY <1>3, <1>4

(* RegisterUnindexPrevious preserves the invariant *)
LEMMA RegisterUnindexPreviousKeeps ==
  ASSUME NEW t \in Threads, IInv, RegisterUnindexPrevious(t)
  PROVE  IInv'
<1> DEFINE p == prev[t]
<1>1. pc[t] = "unindexPrevious" /\ p \in Conns /\ p # None
  BY Ranges DEF RegisterUnindexPrevious, Replacing
<1>2. /\ pc' \in [Threads -> PCs]
      /\ pc'[t] = "insertShard"
      /\ \A u \in Threads \ {t} : pc'[u] = pc[u]
  BY DEF IInv, TypeOK, RegisterUnindexPrevious, Goto, PCs, Registering
<1>3. /\ prev' \in [Threads -> ConnOrNone]
      /\ prev'[t] = None
      /\ \A u \in Threads \ {t} : prev'[u] = prev[u]
  BY MaxConnAssumption DEF IInv, TypeOK, RegisterUnindexPrevious, ConnOrNone, None
<1>4. /\ by_shard' \in [Shards -> [Devices -> ConnOrNone]]
      /\ \A s \in Shards, d \in Devices :
           /\ by_shard[s][d] # p => by_shard'[s][d] = by_shard[s][d]
           /\ by_shard[s][d] = p => by_shard'[s][d] = None
  BY <1>1, UnindexEffect DEF RegisterUnindexPrevious
<1>5. UNCHANGED <<next_id, device, shard, location, by_device, queue, phase,
                  replay, cur, scope, seen, left, closing, overlap>>
  BY DEF RegisterUnindexPrevious, connVars, sessionVars, broadcastVars
<1>6. \A u \in Threads :
        /\ pc'[u] \in Registering <=> pc[u] \in Registering
        /\ pc'[u] \in WithConn <=> pc[u] \in WithConn
        /\ pc'[u] \in Replacing <=> u # t /\ pc[u] \in Replacing
  BY <1>1, <1>2 DEF Registering, Replacing, WithConn
<1>7. \A d \in Devices : by_device[d] # p
  BY <1>1 DEF IInv, RemovalsAreStale, MapsWellFormed, Replacing
<1>11. TypeOK'
  BY <1>2, <1>3, <1>4, <1>5 DEF IInv, TypeOK
<1>12. Allocated'
  BY <1>5 DEF IInv, Allocated
<1>13. MapsWellFormed'
  BY <1>4, <1>5 DEF IInv, MapsWellFormed
<1>14. ThreadsWellFormed'
  BY <1>1, <1>2, <1>3, <1>5, <1>6
  DEF IInv, ThreadsWellFormed, ThreadOK, Replacing, Registering
<1>15. RegistersDiffer'
  BY <1>5, <1>6 DEF IInv, RegistersDiffer
<1>16. NotYetInserted'
  BY <1>2, <1>3, <1>5, Ranges DEF IInv, NotYetInserted, WithConn
<1>17. RemovalsAreStale'
  BY <1>2, <1>3, <1>5, <1>6 DEF IInv, RemovalsAreStale
<1>18. CloseAllClears'
  BY <1>2, <1>5, <1>6 DEF IInv, CloseAllClears, ClosingAll
<1>19. WindowIsOwn'
  BY <1>5, <1>6 DEF IInv, WindowIsOwn
<1>20. CurrentIsIndexed'
  BY <1>4, <1>5, <1>7, Ranges DEF IInv, CurrentIsIndexed
<1>21. StaleIsPending'
  <2> SUFFICES ASSUME NEW s \in Shards, NEW e \in Devices \ overlap,
                      by_shard'[s][e] # None, by_device[e] # by_shard'[s][e]
               PROVE  \E u \in Threads : Removes(u, s, by_shard[s][e])'
    BY <1>4, <1>5 DEF StaleIsPending, Removes
  <2>1. by_shard'[s][e] = by_shard[s][e] /\ by_shard[s][e] # p
    BY <1>4
  <2>2. PICK u \in Threads : Removes(u, s, by_shard[s][e])
    BY <2>1 DEF IInv, StaleIsPending
  <2>3. u # t
    BY <2>1, <2>2, <1>1 DEF Removes
  <2> QED
    BY <2>1, <2>2, <2>3, <1>2, <1>3, <1>5 DEF Removes
<1>22. FreshIteration'
  BY <1>1, <1>2, <1>5 DEF IInv, FreshIteration
<1>23. BroadcastMissesNobody'
  BY <1>2, <1>5 DEF IInv, BroadcastMissesNobody, Connected
<1>24. RegisteringHasThread'
  BY <1>1, <1>2, <1>5, <1>6 DEF IInv, RegisteringHasThread, Registering
<1> QED
  BY <1>11, <1>12, <1>13, <1>14, <1>15, <1>16, <1>17, <1>18, <1>19, <1>20,
     <1>21, <1>22, <1>23, <1>24 DEF IInv

(* RegisterInsertShard preserves the invariant *)
LEMMA RegisterInsertShardKeeps ==
  ASSUME NEW t \in Threads, IInv, RegisterInsertShard(t)
  PROVE  IInv'
<1> DEFINE c == cur[t]
           d == device[c]
           z == shard[c]
<1>1. /\ pc[t] = "insertShard"
      /\ c \in Conns /\ c <= next_id /\ c # None /\ d \in Devices /\ z \in Shards
  BY Ranges DEF RegisterInsertShard, WithConn, Registering
<1>2. /\ phase[c] = "registering"
      /\ d \notin overlap => by_device[d] = c
      /\ ~Guarded(z)
  BY <1>1 DEF IInv, ThreadsWellFormed, ThreadOK, WindowIsOwn, Registering, RegisterInsertShard
<1>3. /\ pc' \in [Threads -> PCs]
      /\ pc'[t] = "idle"
      /\ \A u \in Threads \ {t} : pc'[u] = pc[u]
  BY DEF IInv, TypeOK, RegisterInsertShard, Return, Goto, PCs
<1>4. /\ cur' \in [Threads -> ConnOrNone] /\ prev' \in [Threads -> ConnOrNone]
      /\ cur'[t] = None /\ prev'[t] = None
      /\ \A u \in Threads \ {t} : cur'[u] = cur[u] /\ prev'[u] = prev[u]
  BY MaxConnAssumption DEF IInv, TypeOK, RegisterInsertShard, Return, ConnOrNone, None
<1>5. /\ by_shard' \in [Shards -> [Devices -> ConnOrNone]]
      /\ by_shard'[z][d] = c
      /\ \A s \in Shards, e \in Devices :
           <<s, e>> # <<z, d>> => by_shard'[s][e] = by_shard[s][e]
  BY <1>1 DEF IInv, TypeOK, RegisterInsertShard, Conns, ConnOrNone
<1>6. /\ phase' \in [Conns -> {"none", "registering", "live", "stopping", "leaving", "gone"}]
      /\ phase'[c] = "live"
      /\ \A x \in Conns \ {c} : phase'[x] = phase[x]
  BY <1>1 DEF IInv, TypeOK, RegisterInsertShard
<1>7. UNCHANGED <<next_id, device, shard, location, by_device, queue, replay,
                  scope, seen, left, closing, overlap>>
  BY DEF RegisterInsertShard, connVars, broadcastVars
<1>8. pc'[t] \notin WithConn \cup Replacing \cup Registering \cup ClosingAll
  BY <1>3 DEF WithConn, Replacing, Registering, ClosingAll
<1>9. \A u \in Threads \ {t} :
        pc[u] \in {"insertDevice"} \cup Registering => cur[u] \in Conns \ {c}
  BY <1>1, Ranges DEF IInv, RegistersDiffer, NotYetInserted, Registering, WithConn
<1>11. TypeOK'
  BY <1>3, <1>4, <1>5, <1>6, <1>7 DEF IInv, TypeOK
<1>12. Allocated'
  BY <1>1, <1>2, <1>6, <1>7 DEF IInv, Allocated
<1>13. MapsWellFormed'
  <2>1. ASSUME NEW s \in Shards, NEW e \in Devices, by_shard'[s][e] # None
        PROVE  /\ by_shard'[s][e] <= next_id
               /\ device[by_shard'[s][e]] = e
               /\ shard[by_shard'[s][e]] = s
               /\ phase'[by_shard'[s][e]] \notin {"none", "registering"}
    <3>1. CASE <<s, e>> = <<z, d>>
      BY <3>1, <1>1, <1>5, <1>6
    <3>2. CASE <<s, e>> # <<z, d>>
      BY <3>2, <2>1, <1>5, <1>6, Ranges DEF IInv, MapsWellFormed
    <3> QED
      BY <3>1, <3>2
  <2> QED
    BY <2>1, <1>7 DEF IInv, MapsWellFormed
<1>14. ThreadsWellFormed'
  <2>1. ThreadOK(t)'
    BY <1>3, <1>4, <1>8 DEF ThreadOK
  <2>2. ASSUME NEW u \in Threads \ {t} PROVE ThreadOK(u)'
    BY <1>3, <1>4, <1>6, <1>7, <1>9, <2>2 DEF IInv, ThreadsWellFormed, ThreadOK
  <2> QED
    BY <2>1, <2>2 DEF ThreadsWellFormed
<1>15. RegistersDiffer'
  BY <1>3, <1>4, <1>8 DEF IInv, RegistersDiffer
<1>16. NotYetInserted'
  BY <1>3, <1>4, <1>7, Ranges DEF IInv, NotYetInserted, WithConn
<1>17. RemovalsAreStale'
  BY <1>3, <1>4, <1>7, <1>8 DEF IInv, RemovalsAreStale
<1>18. CloseAllClears'
  BY <1>3, <1>4, <1>7, <1>8 DEF IInv, CloseAllClears, ClosingAll
<1>19. WindowIsOwn'
  BY <1>3, <1>4, <1>7, <1>8 DEF IInv, WindowIsOwn
<1>20. CurrentIsIndexed'
  BY <1>1, <1>2, <1>5, <1>6, <1>7, Ranges DEF IInv, CurrentIsIndexed, MapsWellFormed
<1>21. StaleIsPending'
  <2> SUFFICES ASSUME NEW s \in Shards, NEW e \in Devices \ overlap,
                      by_shard'[s][e] # None, by_device[e] # by_shard'[s][e]
               PROVE  \E u \in Threads : Removes(u, s, by_shard[s][e])'
    BY <1>5, <1>7 DEF StaleIsPending, Removes
  <2>1. by_shard'[s][e] = by_shard[s][e]
    BY <1>2, <1>5
  <2>2. PICK u \in Threads : Removes(u, s, by_shard[s][e])
    BY <2>1 DEF IInv, StaleIsPending
  <2>3. u # t
    BY <2>2, <1>1 DEF Removes, Replacing
  <2> QED
    BY <2>1, <2>2, <2>3, <1>3, <1>4, <1>7 DEF Removes
<1>22. FreshIteration'
  BY <1>1, <1>3, <1>7 DEF IInv, FreshIteration
<1>23. BroadcastMissesNobody'
  BY <1>2, <1>3, <1>6, <1>7 DEF IInv, BroadcastMissesNobody, Connected, Guarded
<1>24. RegisteringHasThread'
  BY <1>1, <1>3, <1>4, <1>6, <1>7 DEF IInv, RegisteringHasThread, Registering
<1> QED
  BY <1>11, <1>12, <1>13, <1>14, <1>15, <1>16, <1>17, <1>18, <1>19, <1>20,
     <1>21, <1>22, <1>23, <1>24 DEF IInv


(* SessionDeregister preserves the invariant *)
LEMMA SessionDeregisterKeeps ==
  ASSUME NEW t \in Threads, NEW c \in Conns, IInv, SessionDeregister(t, c)
  PROVE  IInv'
<1>1. pc[t] = "idle" /\ phase[c] = "leaving"
  BY DEF SessionDeregister
<1>2. /\ pc' \in [Threads -> PCs]
      /\ pc'[t] = "deregDevice"
      /\ \A u \in Threads \ {t} : pc'[u] = pc[u]
  BY DEF IInv, TypeOK, SessionDeregister, Goto, PCs
<1>3. /\ cur' \in [Threads -> ConnOrNone]
      /\ cur'[t] = c
      /\ \A u \in Threads \ {t} : cur'[u] = cur[u]
  BY DEF IInv, TypeOK, SessionDeregister, Conns, ConnOrNone
<1>4. /\ phase' \in [Conns -> {"none", "registering", "live", "stopping", "leaving", "gone"}]
      /\ phase'[c] = "gone"
      /\ \A x \in Conns \ {c} : phase'[x] = phase[x]
  BY DEF IInv, TypeOK, SessionDeregister
<1>5. UNCHANGED <<next_id, device, shard, location, by_device, by_shard, queue,
                  replay, prev, scope, seen, left, closing, overlap>>
  BY DEF SessionDeregister, connVars, broadcastVars
<1>6. c \in 1..next_id
  BY <1>1, Ranges DEF IInv, Allocated, Conns
<1>11. TypeOK'
  BY <1>2, <1>3, <1>4, <1>5 DEF IInv, TypeOK
<1>12. Allocated'
  BY <1>1, <1>4, <1>5 DEF IInv, Allocated
<1>13. MapsWellFormed'
  BY <1>4, <1>5, Ranges DEF IInv, MapsWellFormed
<1>14. ThreadsWellFormed'
  <2>1. ThreadOK(t)'
    BY <1>1, <1>2, <1>3, <1>5, <1>6
    DEF IInv, ThreadsWellFormed, ThreadOK, WithConn, Replacing, Registering
  <2>2. ASSUME NEW u \in Threads \ {t} PROVE ThreadOK(u)'
    BY <1>1, <1>2, <1>3, <1>4, <1>5, Ranges
    DEF IInv, ThreadsWellFormed, ThreadOK, WithConn
  <2> QED
    BY <2>1, <2>2 DEF ThreadsWellFormed
<1>15. RegistersDiffer'
  BY <1>2, <1>3 DEF IInv, RegistersDiffer, Registering
<1>16. NotYetInserted'
  BY <1>1, <1>2, <1>3, <1>5 DEF IInv, NotYetInserted, ThreadsWellFormed, ThreadOK
<1>17. RemovalsAreStale'
  BY <1>2, <1>3, <1>5 DEF IInv, RemovalsAreStale, Replacing
<1>18. CloseAllClears'
  BY <1>2, <1>3, <1>5 DEF IInv, CloseAllClears, ClosingAll, Registering
<1>19. WindowIsOwn'
  BY <1>2, <1>3, <1>5 DEF IInv, WindowIsOwn, Registering
<1>20. CurrentIsIndexed'
  BY <1>1, <1>4, <1>5, Ranges DEF IInv, CurrentIsIndexed
<1>21. StaleIsPending'
  <2> SUFFICES ASSUME NEW s \in Shards, NEW e \in Devices \ overlap,
                      by_shard[s][e] # None, by_device[e] # by_shard[s][e]
               PROVE  \E u \in Threads : Removes(u, s, by_shard[s][e])'
    BY <1>5 DEF StaleIsPending, Removes
  <2>1. PICK u \in Threads : Removes(u, s, by_shard[s][e])
    BY DEF IInv, StaleIsPending
  <2> QED
    BY <2>1, <1>1, <1>2, <1>3, <1>5 DEF Removes, Replacing
<1>22. FreshIteration'
  BY <1>1, <1>2, <1>5 DEF IInv, FreshIteration
<1>23. BroadcastMissesNobody'
  BY <1>1, <1>2, <1>4, <1>5 DEF IInv, BroadcastMissesNobody, Connected
<1>24. RegisteringHasThread'
  BY <1>1, <1>2, <1>3, <1>4 DEF IInv, RegisteringHasThread, Registering
<1> QED
  BY <1>11, <1>12, <1>13, <1>14, <1>15, <1>16, <1>17, <1>18, <1>19, <1>20,
     <1>21, <1>22, <1>23, <1>24 DEF IInv

(* A thread that returns is idle and holds no connection; the other
   threads are untouched. *)
LEMMA ReturnEffect ==
  ASSUME NEW t \in Threads, TypeOK, Return(t)
  PROVE  /\ pc' \in [Threads -> PCs]
         /\ pc'[t] = "idle"
         /\ cur' \in [Threads -> ConnOrNone] /\ prev' \in [Threads -> ConnOrNone]
         /\ cur'[t] = None /\ prev'[t] = None
         /\ \A u \in Threads \ {t} :
              pc'[u] = pc[u] /\ cur'[u] = cur[u] /\ prev'[u] = prev[u]
<1>1. None \in ConnOrNone /\ "idle" \in PCs
  BY MaxConnAssumption DEF ConnOrNone, None, PCs
<1> QED
  BY <1>1 DEF TypeOK, Return, Goto

(* Returning from a function that is not about to remove anything from *)
(* by_shard, with everything else unchanged.                           *)
LEMMA ReturnKeeps ==
  ASSUME NEW t \in Threads, IInv, Return(t),
         pc[t] \notin Registering \cup ClosingAll
                     \cup {"insertDevice", "deregShard", "broadcast"},
         UNCHANGED <<next_id, device, shard, by_device, by_shard, phase,
                     scope, seen, left, closing, overlap>>
  PROVE  /\ Allocated' /\ MapsWellFormed' /\ ThreadsWellFormed'
         /\ RegistersDiffer' /\ NotYetInserted' /\ RemovalsAreStale'
         /\ RegisteringHasThread'
         /\ CloseAllClears' /\ WindowIsOwn' /\ CurrentIsIndexed'
         /\ StaleIsPending' /\ FreshIteration' /\ BroadcastMissesNobody'
<1>1. /\ pc'[t] = "idle" /\ cur'[t] = None /\ prev'[t] = None
      /\ \A u \in Threads \ {t} :
           pc'[u] = pc[u] /\ cur'[u] = cur[u] /\ prev'[u] = prev[u]
  BY ReturnEffect DEF IInv
<1>2. pc'[t] \notin WithConn \cup Replacing \cup Registering \cup ClosingAll
  BY <1>1 DEF WithConn, Replacing, Registering, ClosingAll
<1>12. Allocated' /\ MapsWellFormed' /\ CurrentIsIndexed'
  BY DEF IInv, Allocated, MapsWellFormed, CurrentIsIndexed
<1>14. ThreadsWellFormed'
  <2>1. ThreadOK(t)'
    BY <1>1, <1>2 DEF ThreadOK, Registering, WithConn
  <2>2. ASSUME NEW u \in Threads \ {t} PROVE ThreadOK(u)'
    BY <1>1 DEF IInv, ThreadsWellFormed, ThreadOK
  <2> QED
    BY <2>1, <2>2 DEF ThreadsWellFormed
<1>15. RegistersDiffer'
  BY <1>1, <1>2 DEF IInv, RegistersDiffer
<1>16. NotYetInserted'
  BY <1>1, Ranges DEF IInv, NotYetInserted, WithConn
<1>17. RemovalsAreStale'
  BY <1>1, <1>2 DEF IInv, RemovalsAreStale
<1>18. CloseAllClears'
  BY <1>1, <1>2 DEF IInv, CloseAllClears, ClosingAll
<1>19. WindowIsOwn'
  BY <1>1, <1>2 DEF IInv, WindowIsOwn
<1>21. StaleIsPending'
  <2> SUFFICES ASSUME NEW s \in Shards, NEW e \in Devices \ overlap,
                      by_shard[s][e] # None, by_device[e] # by_shard[s][e]
               PROVE  \E u \in Threads : Removes(u, s, by_shard[s][e])'
    BY DEF StaleIsPending, Removes
  <2>1. PICK u \in Threads : Removes(u, s, by_shard[s][e])
    BY DEF IInv, StaleIsPending
  <2>2. u # t
    BY <2>1 DEF Removes, ClosingAll, Replacing, Registering
  <2> QED
    BY <2>1, <2>2, <1>1 DEF Removes
<1>22. FreshIteration'
  BY <1>1 DEF IInv, FreshIteration
<1>23. BroadcastMissesNobody'
  BY <1>1 DEF IInv, BroadcastMissesNobody, Connected
<1>24. RegisteringHasThread'
  BY <1>1 DEF IInv, RegisteringHasThread
<1> QED
  BY <1>12, <1>14, <1>15, <1>16, <1>17, <1>18, <1>19, <1>21, <1>22, <1>23, <1>24

(* DeregisterDevice preserves the invariant *)
LEMMA DeregisterDeviceKeeps ==
  ASSUME NEW t \in Threads, IInv, DeregisterDevice(t)
  PROVE  IInv'
<1> DEFINE c == cur[t]
           d == device[c]
<1>1. pc[t] = "deregDevice" /\ c \in Conns /\ c # None /\ d \in Devices
  BY Ranges DEF DeregisterDevice, WithConn
<1>2. UNCHANGED <<next_id, device, shard, location, by_shard, queue, phase,
                  replay, scope, seen, left, closing>>
  BY DEF DeregisterDevice, connVars, sessionVars, broadcastVars
<1>3. CASE by_device[d] # c
  <2>1. Return(t) /\ UNCHANGED <<by_device, overlap>>
    BY <1>3 DEF DeregisterDevice
  <2>2. TypeOK'
    BY <1>2, <2>1, ReturnEffect DEF IInv, TypeOK
  <2> QED
    BY <1>1, <1>2, <2>1, <2>2, ReturnKeeps DEF IInv, Registering, ClosingAll
<1>4. CASE by_device[d] = c
  <2>1. /\ pc' \in [Threads -> PCs]
        /\ pc'[t] = "deregShard"
        /\ \A u \in Threads \ {t} : pc'[u] = pc[u]
    BY <1>4 DEF IInv, TypeOK, DeregisterDevice, Goto, PCs
  <2>2. /\ by_device' \in [Devices -> ConnOrNone]
        /\ by_device'[d] = None
        /\ \A e \in Devices \ {d} : by_device'[e] = by_device[e]
    <3>1. by_device' = [by_device EXCEPT ![d] = None] /\ None \in ConnOrNone
      BY <1>4, MaxConnAssumption DEF DeregisterDevice, ConnOrNone, None
    <3> QED
      BY <3>1, <1>1 DEF IInv, TypeOK
  <2>3. /\ overlap' \subseteq Devices
        /\ overlap \subseteq overlap'
        /\ phase[c] = "registering" => d \in overlap'
    BY <1>1, <1>4 DEF IInv, TypeOK, DeregisterDevice
  <2>4. UNCHANGED <<cur, prev>>
    BY <1>4 DEF DeregisterDevice
  <2>11. TypeOK'
    BY <2>1, <2>2, <2>3, <2>4, <1>2 DEF IInv, TypeOK
  <2>12. Allocated'
    BY <1>2 DEF IInv, Allocated
  <2>13. MapsWellFormed'
    BY <2>2, <1>2 DEF IInv, MapsWellFormed
  <2>14. ThreadsWellFormed'
    <3>1. ThreadOK(t)'
      BY <1>1, <1>2, <2>1, <2>4
      DEF IInv, ThreadsWellFormed, ThreadOK, WithConn, Replacing, Registering
    <3>2. ASSUME NEW u \in Threads \ {t} PROVE ThreadOK(u)'
      BY <1>2, <2>1, <2>4 DEF IInv, ThreadsWellFormed, ThreadOK
    <3> QED
      BY <3>1, <3>2 DEF ThreadsWellFormed
  <2>15. RegistersDiffer'
    BY <2>1, <2>4 DEF IInv, RegistersDiffer, Registering
  <2>16. NotYetInserted'
    BY <1>2, <2>1, <2>2, <2>4, Ranges DEF IInv, NotYetInserted, WithConn
  <2>17. RemovalsAreStale'
    <3> SUFFICES ASSUME NEW u \in Threads
                 PROVE  /\ pc'[u] = "deregShard" => by_device'[device[cur[u]]] # cur[u]
                        /\ pc'[u] \in Replacing => by_device'[device[prev[u]]] # prev[u]
      BY <1>2, <2>4 DEF RemovalsAreStale
    <3>1. CASE u = t
      BY <3>1, <1>1, <2>1, <2>2 DEF Replacing
    <3>2. CASE u # t
      BY <3>2, <2>1, <2>2, Ranges DEF IInv, RemovalsAreStale, WithConn
    <3> QED
      BY <3>1, <3>2
  <2>18. CloseAllClears'
    BY <1>2, <2>1, <2>2, <2>3, <2>4 DEF IInv, CloseAllClears, ClosingAll, Registering
  <2>19. WindowIsOwn'
    <3> SUFFICES ASSUME NEW u \in Threads, pc'[u] \in Registering,
                        device[cur[u]] \notin overlap'
                 PROVE  by_device'[device[cur[u]]] = cur[u]
      BY <1>2, <2>4 DEF WindowIsOwn
    <3>1. /\ pc[u] \in Registering /\ u # t
          /\ phase[cur[u]] = "registering" /\ by_device[device[cur[u]]] = cur[u]
      BY <2>1, <2>3 DEF IInv, WindowIsOwn, ThreadsWellFormed, ThreadOK, Registering
    <3>2. device[cur[u]] # d
      BY <3>1, <1>4, <2>3
    <3> QED
      BY <3>1, <3>2, <2>2, Ranges DEF WithConn
  <2>20. CurrentIsIndexed'
    BY <1>2, <2>2, <2>3 DEF IInv, CurrentIsIndexed
  <2>21. StaleIsPending'
    <3> SUFFICES ASSUME NEW s \in Shards, NEW e \in Devices \ overlap',
                        by_shard[s][e] # None, by_device'[e] # by_shard[s][e]
                 PROVE  \E u \in Threads : Removes(u, s, by_shard[s][e])'
      BY <1>2 DEF StaleIsPending, Removes
    <3>1. CASE by_device[e] = by_shard[s][e]
      <4>1. e = d /\ by_shard[s][e] = c
        BY <3>1, <1>4, <2>2
      <4> QED
        BY <4>1, <1>2, <2>1, <2>4 DEF Removes
    <3>2. CASE by_device[e] # by_shard[s][e]
      <4>1. PICK u \in Threads : Removes(u, s, by_shard[s][e])
        BY <3>2, <2>3 DEF IInv, StaleIsPending
      <4>2. u # t
        BY <4>1, <1>1 DEF Removes, Replacing
      <4> QED
        BY <4>1, <4>2, <1>2, <2>1, <2>4 DEF Removes
    <3> QED
      BY <3>1, <3>2
  <2>22. FreshIteration'
    BY <1>1, <1>2, <2>1 DEF IInv, FreshIteration
  <2>23. BroadcastMissesNobody'
    BY <1>2, <2>1, <2>2, <2>3, Ranges DEF IInv, BroadcastMissesNobody, Connected
  <2>24. RegisteringHasThread'
    BY <1>1, <1>2, <2>1, <2>4 DEF IInv, RegisteringHasThread, Registering
  <2> QED
    BY <2>11, <2>12, <2>13, <2>14, <2>15, <2>16, <2>17, <2>18, <2>19, <2>20,
       <2>21, <2>22, <2>23, <2>24 DEF IInv
<1> QED
  BY <1>3, <1>4

(* DeregisterShard preserves the invariant *)
LEMMA DeregisterShardKeeps ==
  ASSUME NEW t \in Threads, IInv, DeregisterShard(t)
  PROVE  IInv'
<1> DEFINE c == cur[t]
<1>1. pc[t] = "deregShard" /\ c \in Conns /\ c # None
  BY Ranges DEF DeregisterShard, WithConn
<1>2. /\ pc' \in [Threads -> PCs]
      /\ cur' \in [Threads -> ConnOrNone] /\ prev' \in [Threads -> ConnOrNone]
      /\ pc'[t] = "idle" /\ cur'[t] = None /\ prev'[t] = None
      /\ \A u \in Threads \ {t} :
           pc'[u] = pc[u] /\ cur'[u] = cur[u] /\ prev'[u] = prev[u]
  BY ReturnEffect DEF IInv, DeregisterShard
<1>3. /\ by_shard' \in [Shards -> [Devices -> ConnOrNone]]
      /\ \A s \in Shards, d \in Devices :
           /\ by_shard[s][d] # c => by_shard'[s][d] = by_shard[s][d]
           /\ by_shard[s][d] = c => by_shard'[s][d] = None
  BY <1>1, UnindexEffect DEF DeregisterShard
<1>4. UNCHANGED <<next_id, device, shard, location, by_device, queue, phase,
                  replay, scope, seen, left, closing, overlap>>
  BY DEF DeregisterShard, connVars, sessionVars, broadcastVars
<1>5. pc'[t] \notin WithConn \cup Replacing \cup Registering \cup ClosingAll
  BY <1>2 DEF WithConn, Replacing, Registering, ClosingAll
<1>6. \A d \in Devices : by_device[d] # c
  BY <1>1 DEF IInv, RemovalsAreStale, MapsWellFormed
<1>11. TypeOK'
  BY <1>2, <1>3, <1>4 DEF IInv, TypeOK
<1>12. Allocated'
  BY <1>4 DEF IInv, Allocated
<1>13. MapsWellFormed'
  BY <1>3, <1>4 DEF IInv, MapsWellFormed
<1>14. ThreadsWellFormed'
  <2>1. ThreadOK(t)'
    BY <1>2, <1>5 DEF ThreadOK, Registering, WithConn
  <2>2. ASSUME NEW u \in Threads \ {t} PROVE ThreadOK(u)'
    BY <1>2, <1>4 DEF IInv, ThreadsWellFormed, ThreadOK
  <2> QED
    BY <2>1, <2>2 DEF ThreadsWellFormed
<1>15. RegistersDiffer'
  BY <1>2, <1>5 DEF IInv, RegistersDiffer
<1>16. NotYetInserted'
  BY <1>2, <1>4, Ranges DEF IInv, NotYetInserted, WithConn
<1>17. RemovalsAreStale'
  BY <1>2, <1>4, <1>5 DEF IInv, RemovalsAreStale
<1>18. CloseAllClears'
  BY <1>2, <1>4, <1>5 DEF IInv, CloseAllClears, ClosingAll
<1>19. WindowIsOwn'
  BY <1>2, <1>4, <1>5 DEF IInv, WindowIsOwn
<1>20. CurrentIsIndexed'
  BY <1>3, <1>4, <1>6, Ranges DEF IInv, CurrentIsIndexed
<1>21. StaleIsPending'
  <2> SUFFICES ASSUME NEW s \in Shards, NEW e \in Devices \ overlap,
                      by_shard'[s][e] # None, by_device[e] # by_shard'[s][e]
               PROVE  \E u \in Threads : Removes(u, s, by_shard[s][e])'
    BY <1>3, <1>4 DEF StaleIsPending, Removes
  <2>1. by_shard'[s][e] = by_shard[s][e] /\ by_shard[s][e] # c
    BY <1>3
  <2>2. PICK u \in Threads : Removes(u, s, by_shard[s][e])
    BY <2>1 DEF IInv, StaleIsPending
  <2>3. u # t
    BY <2>1, <2>2, <1>1 DEF Removes, Replacing
  <2> QED
    BY <2>1, <2>2, <2>3, <1>2, <1>4 DEF Removes
<1>22. FreshIteration'
  BY <1>1, <1>2, <1>4 DEF IInv, FreshIteration
<1>23. BroadcastMissesNobody'
  BY <1>2, <1>4 DEF IInv, BroadcastMissesNobody, Connected
<1>24. RegisteringHasThread'
  BY <1>1, <1>2, <1>4 DEF IInv, RegisteringHasThread, Registering
<1> QED
  BY <1>11, <1>12, <1>13, <1>14, <1>15, <1>16, <1>17, <1>18, <1>19, <1>20,
     <1>21, <1>22, <1>23, <1>24 DEF IInv


(* Steps that touch neither the maps nor the threads *)
LEMMA FrameKeeps ==
  ASSUME IInv,
         UNCHANGED <<next_id, device, shard, by_device, by_shard, phase, pc, cur,
                     prev, scope, seen, left, closing, overlap>>
  PROVE  /\ Allocated' /\ MapsWellFormed' /\ ThreadsWellFormed'
         /\ RegistersDiffer' /\ NotYetInserted' /\ RemovalsAreStale'
         /\ RegisteringHasThread'
         /\ CloseAllClears' /\ WindowIsOwn' /\ CurrentIsIndexed'
         /\ StaleIsPending' /\ FreshIteration' /\ BroadcastMissesNobody'
<1>1. Allocated' /\ MapsWellFormed' /\ CurrentIsIndexed'
  BY DEF IInv, Allocated, MapsWellFormed, CurrentIsIndexed
<1>2. ThreadsWellFormed' /\ RegistersDiffer' /\ NotYetInserted' /\ RemovalsAreStale'
  BY DEF IInv, ThreadsWellFormed, ThreadOK, RegistersDiffer, NotYetInserted,
         RemovalsAreStale
<1>3. CloseAllClears' /\ WindowIsOwn'
  BY DEF IInv, CloseAllClears, WindowIsOwn
<1>4. StaleIsPending'
  BY DEF IInv, StaleIsPending, Removes
<1>5. FreshIteration' /\ BroadcastMissesNobody'
  BY DEF IInv, FreshIteration, BroadcastMissesNobody, Connected
<1>6. RegisteringHasThread'
  BY DEF IInv, RegisteringHasThread
<1> QED
  BY <1>1, <1>2, <1>3, <1>4, <1>5, <1>6

(* UpdateLocation preserves the invariant *)
LEMMA UpdateLocationKeeps ==
  ASSUME NEW t \in Threads, NEW d \in Devices, NEW l \in Locations, IInv,
         UpdateLocation(t, d, l)
  PROVE  IInv'
<1>1. UNCHANGED <<next_id, device, shard, by_device, by_shard, queue, phase,
                  replay, pc, cur, prev, scope, seen, left, closing, overlap>>
  BY DEF UpdateLocation, connVars, sessionVars, threadVars, broadcastVars
<1>2. location' \in [Conns -> Locations]
  BY DEF IInv, TypeOK, UpdateLocation
<1>3. TypeOK'
  BY <1>1, <1>2 DEF IInv, TypeOK
<1> QED
  BY <1>1, <1>3, FrameKeeps DEF IInv

(* SenderFor preserves the invariant *)
LEMMA SenderForKeeps ==
  ASSUME NEW t \in Threads, NEW c \in Conns, IInv, SenderFor(t, c)
  PROVE  IInv'
<1>1. UNCHANGED <<next_id, device, shard, location, by_device, by_shard, queue,
                  phase, pc, cur, prev, scope, seen, left, closing, overlap>>
  BY DEF SenderFor, connVars, threadVars, broadcastVars
<1>2. replay' \in [Conns -> {"no", "running", "over"}]
  BY DEF IInv, TypeOK, SenderFor
<1>3. TypeOK'
  BY <1>1, <1>2 DEF IInv, TypeOK
<1> QED
  BY <1>1, <1>3, FrameKeeps DEF IInv

(* ReplaySend preserves the invariant *)
LEMMA ReplaySendKeeps ==
  ASSUME NEW c \in Conns, IInv, ReplaySend(c)
  PROVE  IInv'
<1>1. UNCHANGED <<next_id, device, shard, location, by_device, by_shard, phase,
                  replay, pc, cur, prev, scope, seen, left, closing, overlap>>
  BY DEF ReplaySend, connVars, sessionVars, threadVars, broadcastVars
<1>2. /\ queue' \in [Conns -> Seq(Outbound)]
      /\ \A x \in Conns : Len(queue'[x]) <= Capacity
  BY TrySendType DEF ReplaySend, IInv, Outbound
<1>3. TypeOK'
  BY <1>1, <1>2 DEF IInv, TypeOK
<1> QED
  BY <1>1, <1>3, FrameKeeps DEF IInv

(* ReplayEnd preserves the invariant *)
LEMMA ReplayEndKeeps ==
  ASSUME NEW c \in Conns, IInv, ReplayEnd(c)
  PROVE  IInv'
<1>1. UNCHANGED <<next_id, device, shard, location, by_device, by_shard, queue,
                  phase, pc, cur, prev, scope, seen, left, closing, overlap>>
  BY DEF ReplayEnd, connVars, threadVars, broadcastVars
<1>2. replay' \in [Conns -> {"no", "running", "over"}]
  BY DEF IInv, TypeOK, ReplayEnd
<1>3. TypeOK'
  BY <1>1, <1>2 DEF IInv, TypeOK
<1> QED
  BY <1>1, <1>3, FrameKeeps DEF IInv

(* A session that stops or ends leaves the maps and the threads alone *)
LEMMA PhaseKeeps ==
  ASSUME NEW c \in Conns, IInv, Connected(c),
         NEW p \in {"stopping", "leaving"}, phase' = [phase EXCEPT ![c] = p],
         queue' \in [Conns -> Seq(Outbound)],
         \A x \in Conns : Len(queue'[x]) <= Capacity,
         UNCHANGED <<next_id, device, shard, location, by_device, by_shard,
                     replay, pc, cur, prev, scope, seen, left, closing, overlap>>
  PROVE  IInv'
<1>1. /\ phase' \in [Conns -> {"none", "registering", "live", "stopping", "leaving", "gone"}]
      /\ phase'[c] = p
      /\ \A x \in Conns \ {c} : phase'[x] = phase[x]
  BY DEF IInv, TypeOK
<1>3. \A x \in Conns :
        phase'[x] \in {"none", "registering"} => phase'[x] = phase[x]
  BY <1>1
<1>4. \A x \in Conns :
        phase[x] \in {"none", "registering"} => phase'[x] = phase[x]
  BY <1>1 DEF Connected
<1>11. TypeOK'
  BY <1>1 DEF IInv, TypeOK
<1>12. Allocated'
  BY <1>3, <1>4 DEF IInv, Allocated
<1>13. MapsWellFormed'
  BY <1>3, Ranges DEF IInv, MapsWellFormed
<1>14. ThreadsWellFormed'
  BY <1>4, Ranges DEF IInv, ThreadsWellFormed, ThreadOK, WithConn
<1>15. RegistersDiffer' /\ NotYetInserted' /\ RemovalsAreStale'
  BY DEF IInv, RegistersDiffer, NotYetInserted, RemovalsAreStale
<1>16. CloseAllClears' /\ WindowIsOwn'
  BY DEF IInv, CloseAllClears, WindowIsOwn
<1>20. CurrentIsIndexed'
  BY <1>4, Ranges DEF IInv, CurrentIsIndexed
<1>21. StaleIsPending'
  BY DEF IInv, StaleIsPending, Removes
<1>22. FreshIteration'
  BY DEF IInv, FreshIteration
<1>23. BroadcastMissesNobody'
  <2>1. \A x \in Conns : Connected(x)' => Connected(x)
    BY <1>1 DEF Connected
  <2> QED
    BY <2>1 DEF IInv, BroadcastMissesNobody
<1>24. RegisteringHasThread'
  BY <1>3 DEF IInv, RegisteringHasThread
<1> QED
  BY <1>11, <1>12, <1>13, <1>14, <1>15, <1>16, <1>20, <1>21, <1>22, <1>23, <1>24
  DEF IInv

(* A session that ends drops its queue *)
LEMMA LeaveKeeps ==
  ASSUME NEW c \in Conns, IInv, Connected(c), Leave(c),
         UNCHANGED <<next_id, device, shard, location, by_device, by_shard,
                     replay, pc, cur, prev, scope, seen, left, closing, overlap>>
  PROVE  IInv'
<1>1. /\ queue' \in [Conns -> Seq(Outbound)]
      /\ \A x \in Conns : Len(queue'[x]) <= Capacity
  <2>1. <<>> \in Seq(Outbound) /\ Len(<<>>) <= Capacity
    BY CapacityAssumption
  <2> QED
    BY <2>1 DEF IInv, TypeOK, Leave
<1>2. phase' = [phase EXCEPT ![c] = "leaving"]
  BY DEF Leave
<1> QED
  BY <1>1, <1>2, PhaseKeeps

(* WriterClosed preserves the invariant *)
LEMMA WriterClosedKeeps ==
  ASSUME NEW c \in Conns, IInv, WriterClosed(c)
  PROVE  IInv'
BY LeaveKeeps DEF WriterClosed, Connected, connVars, threadVars, broadcastVars

(* WriterPingFails preserves the invariant *)
LEMMA WriterPingFailsKeeps ==
  ASSUME NEW c \in Conns, IInv, WriterPingFails(c)
  PROVE  IInv'
<1>1. /\ Connected(c)
      /\ phase' = [phase EXCEPT ![c] = "stopping"]
      /\ UNCHANGED <<next_id, device, shard, location, by_device, by_shard, queue,
                     replay, pc, cur, prev, scope, seen, left, closing, overlap>>
  BY DEF WriterPingFails, WriterStops, Started, connVars, threadVars, broadcastVars
<1>2. /\ queue' \in [Conns -> Seq(Outbound)]
      /\ \A x \in Conns : Len(queue'[x]) <= Capacity
  BY <1>1 DEF IInv, TypeOK
<1> QED
  BY <1>1, <1>2, PhaseKeeps

(* SessionEnds preserves the invariant *)
LEMMA SessionEndsKeeps ==
  ASSUME NEW c \in Conns, IInv, SessionEnds(c)
  PROVE  IInv'
BY LeaveKeeps DEF SessionEnds, Started, connVars, threadVars, broadcastVars

(* WriterRecv preserves the invariant *)
LEMMA WriterRecvKeeps ==
  ASSUME NEW c \in Conns, IInv, WriterRecv(c)
  PROVE  IInv'
<1>1. /\ Connected(c)
      /\ UNCHANGED <<next_id, device, shard, location, by_device, by_shard,
                     replay, pc, cur, prev, scope, seen, left, closing, overlap>>
  BY DEF WriterRecv, Started, connVars, threadVars, broadcastVars
<1>2. /\ queue' \in [Conns -> Seq(Outbound)]
      /\ \A x \in Conns : Len(queue'[x]) <= Capacity
  <2>1. queue[c] \in Seq(Outbound) /\ Len(queue[c]) <= Capacity
    BY DEF IInv, TypeOK
  <2>2. CASE queue[c] # <<>> /\ queue' = [queue EXCEPT ![c] = Tail(@)]
    <3>1. Tail(queue[c]) \in Seq(Outbound) /\ Len(Tail(queue[c])) <= Capacity
      BY <2>1, <2>2, CapacityAssumption
    <3> QED
      BY <2>2, <3>1 DEF IInv, TypeOK
  <2>3. CASE UNCHANGED queue
    BY <2>3 DEF IInv, TypeOK
  <2> QED
    BY <2>2, <2>3 DEF WriterRecv
<1>3. CASE WriterStops(c)
  BY <1>1, <1>2, <1>3, PhaseKeeps DEF WriterStops
<1>4. CASE UNCHANGED phase
  <2>1. TypeOK'
    BY <1>1, <1>2, <1>4 DEF IInv, TypeOK
  <2> QED
    BY <1>1, <1>4, <2>1, FrameKeeps DEF IInv
<1> QED
  BY <1>3, <1>4 DEF WriterRecv

(* BroadcastBegin preserves the invariant *)
LEMMA BroadcastBeginKeeps ==
  ASSUME NEW t \in Threads, NEW s \in Shards, NEW a \in Areas, IInv,
         BroadcastBegin(t, s, a)
  PROVE  IInv'
<1>1. /\ pc[t] = "idle"
      /\ \A d \in Devices : seen[t][d] = "unseen"
  BY DEF IInv, FreshIteration, BroadcastBegin
<1>2. /\ pc' \in [Threads -> PCs]
      /\ pc'[t] = "broadcast"
      /\ \A u \in Threads \ {t} : pc'[u] = pc[u]
  BY DEF IInv, TypeOK, BroadcastBegin, Goto, PCs
<1>3. /\ scope' \in [Threads -> Shards \X Areas]
      /\ \A u \in Threads \ {t} : scope'[u] = scope[u]
  BY DEF IInv, TypeOK, BroadcastBegin
<1>4. UNCHANGED <<next_id, device, shard, location, by_device, by_shard, queue,
                  phase, replay, cur, prev, seen, left, closing, overlap>>
  BY DEF BroadcastBegin, connVars, sessionVars
<1>5. \A u \in Threads :
        /\ pc'[u] \in WithConn <=> pc[u] \in WithConn
        /\ pc'[u] \in Replacing <=> pc[u] \in Replacing
        /\ pc'[u] \in Registering <=> pc[u] \in Registering
        /\ pc'[u] \in ClosingAll <=> pc[u] \in ClosingAll
        /\ \A x \in {"insertDevice", "deregShard"} \cup ClosingAll : pc'[u] = x <=> pc[u] = x
  BY <1>1, <1>2 DEF WithConn, Replacing, Registering, ClosingAll
<1>11. TypeOK'
  BY <1>2, <1>3, <1>4 DEF IInv, TypeOK
<1>12. Allocated' /\ MapsWellFormed' /\ CurrentIsIndexed'
  BY <1>4 DEF IInv, Allocated, MapsWellFormed, CurrentIsIndexed
<1>14. ThreadsWellFormed'
  BY <1>4, <1>5 DEF IInv, ThreadsWellFormed, ThreadOK
<1>15. RegistersDiffer' /\ NotYetInserted' /\ RemovalsAreStale'
  BY <1>4, <1>5 DEF IInv, RegistersDiffer, NotYetInserted, RemovalsAreStale
<1>18. CloseAllClears' /\ WindowIsOwn'
  BY <1>4, <1>5 DEF IInv, CloseAllClears, WindowIsOwn, ClosingAll
<1>21. StaleIsPending'
  BY <1>4, <1>5 DEF IInv, StaleIsPending, Removes, ClosingAll
<1>22. FreshIteration'
  BY <1>2, <1>4 DEF IInv, FreshIteration
<1>23. BroadcastMissesNobody'
  BY <1>1, <1>2, <1>3, <1>4 DEF IInv, BroadcastMissesNobody, Connected
<1>24. RegisteringHasThread'
  BY <1>4, <1>5 DEF IInv, RegisteringHasThread
<1> QED
  BY <1>11, <1>12, <1>14, <1>15, <1>18, <1>21, <1>22, <1>23, <1>24 DEF IInv

(* BroadcastVisit preserves the invariant *)
LEMMA BroadcastVisitKeeps ==
  ASSUME NEW t \in Threads, NEW d \in Devices, IInv, BroadcastVisit(t, d)
  PROVE  IInv'
<1> DEFINE z == scope[t][1]
           c == by_shard[z][d]
<1>1. pc[t] = "broadcast" /\ z \in Shards /\ c \in ConnOrNone
  BY DEF IInv, TypeOK, BroadcastVisit
<1>2. PICK o \in Outcome :
        /\ seen' = [seen EXCEPT ![t][d] = o]
        /\ o = "absent" => c = None
        /\ o = "delivered" => c # None
        /\ IF o = "delivered" THEN TrySend(c, "frame") ELSE UNCHANGED queue
  BY DEF BroadcastVisit, Outcome
<1>3. /\ seen' \in [Threads -> [Devices -> Outcome]]
      /\ seen'[t][d] = o
      /\ \A u \in Threads, e \in Devices :
           <<u, e>> # <<t, d>> => seen'[u][e] = seen[u][e]
  BY <1>2 DEF IInv, TypeOK
<1>4. UNCHANGED <<next_id, device, shard, location, by_device, by_shard, phase,
                  replay, pc, cur, prev, scope, left, closing, overlap>>
  BY DEF BroadcastVisit, connVars, sessionVars, threadVars
<1>5. /\ queue' \in [Conns -> Seq(Outbound)]
      /\ \A x \in Conns : Len(queue'[x]) <= Capacity
  <2>1. CASE o = "delivered"
    <3>1. c \in Conns /\ TrySend(c, "frame")
      BY <2>1, <1>1, <1>2, Ranges
    <3> QED
      BY <3>1, TrySendType DEF IInv, Outbound
  <2>2. CASE o # "delivered"
    BY <2>2, <1>2 DEF IInv, TypeOK
  <2> QED
    BY <2>1, <2>2
<1>11. TypeOK'
  BY <1>3, <1>4, <1>5 DEF IInv, TypeOK
<1>12. Allocated' /\ MapsWellFormed' /\ CurrentIsIndexed'
  BY <1>4 DEF IInv, Allocated, MapsWellFormed, CurrentIsIndexed
<1>14. ThreadsWellFormed' /\ RegistersDiffer' /\ NotYetInserted' /\ RemovalsAreStale'
  BY <1>4 DEF IInv, ThreadsWellFormed, ThreadOK, RegistersDiffer, NotYetInserted,
              RemovalsAreStale
<1>18. CloseAllClears' /\ WindowIsOwn'
  BY <1>4 DEF IInv, CloseAllClears, WindowIsOwn
<1>21. StaleIsPending'
  BY <1>4 DEF IInv, StaleIsPending, Removes
<1>22. FreshIteration'
  BY <1>1, <1>3, <1>4 DEF IInv, FreshIteration
<1>23. BroadcastMissesNobody'
  <2>1. ASSUME c = None, d \notin overlap, NEW x \in Conns, by_device[d] = x,
               shard[x] = z
        PROVE  ~Connected(x)
    BY <2>1, <1>1, Ranges DEF IInv, CurrentIsIndexed, Connected
  <2>2. ASSUME NEW u \in Threads, NEW e \in Devices \ overlap,
               pc[u] = "broadcast", seen'[u][e] = "absent"
        PROVE  ~ \E x \in Conns : /\ by_device[e] = x
                                  /\ shard[x] = scope[u][1]
                                  /\ Connected(x)
    BY <2>1, <2>2, <1>2, <1>3 DEF IInv, BroadcastMissesNobody
  <2> QED
    BY <2>2, <1>4 DEF BroadcastMissesNobody, Connected
<1>24. RegisteringHasThread'
  BY <1>4 DEF IInv, RegisteringHasThread, Registering
<1> QED
  BY <1>11, <1>12, <1>14, <1>18, <1>21, <1>22, <1>23, <1>24 DEF IInv

(* BroadcastEnd preserves the invariant *)
LEMMA BroadcastEndKeeps ==
  ASSUME NEW t \in Threads, IInv, BroadcastEnd(t)
  PROVE  IInv'
<1>1. pc[t] = "broadcast" /\ cur[t] = None /\ prev[t] = None
  BY DEF IInv, ThreadsWellFormed, ThreadOK, WithConn, Replacing, Registering, BroadcastEnd
<1>2. /\ pc' \in [Threads -> PCs]
      /\ cur' \in [Threads -> ConnOrNone] /\ prev' \in [Threads -> ConnOrNone]
      /\ pc'[t] = "idle" /\ cur'[t] = None /\ prev'[t] = None
      /\ \A u \in Threads \ {t} :
           pc'[u] = pc[u] /\ cur'[u] = cur[u] /\ prev'[u] = prev[u]
  BY ReturnEffect DEF IInv, BroadcastEnd
<1>3. /\ seen' \in [Threads -> [Devices -> Outcome]]
      /\ \A d \in Devices : seen'[t][d] = "unseen"
      /\ \A u \in Threads \ {t} : seen'[u] = seen[u]
  BY DEF IInv, TypeOK, BroadcastEnd, Outcome
<1>4. /\ scope' \in [Threads -> Shards \X Areas]
      /\ \A u \in Threads \ {t} : scope'[u] = scope[u]
  <2>1. <<Arbitrary(Shards), Arbitrary(Areas)>> \in Shards \X Areas
    BY NonEmptyAssumption DEF Arbitrary
  <2> QED
    BY <2>1 DEF IInv, TypeOK, BroadcastEnd
<1>5. UNCHANGED <<next_id, device, shard, location, by_device, by_shard, queue,
                  phase, replay, left, closing, overlap>>
  BY DEF BroadcastEnd, connVars, sessionVars
<1>6. /\ cur' = cur /\ prev' = prev
      /\ \A u \in Threads :
           /\ pc'[u] \in WithConn <=> pc[u] \in WithConn
           /\ pc'[u] \in Replacing <=> pc[u] \in Replacing
           /\ pc'[u] \in Registering <=> pc[u] \in Registering
           /\ pc'[u] \in ClosingAll <=> pc[u] \in ClosingAll
           /\ \A x \in {"insertDevice", "deregShard"} \cup ClosingAll : pc'[u] = x <=> pc[u] = x
  <2>1. cur' = cur /\ prev' = prev
    BY <1>1, <1>2 DEF IInv, TypeOK
  <2> QED
    BY <1>1, <1>2, <2>1 DEF WithConn, Replacing, Registering, ClosingAll
<1>11. TypeOK'
  BY <1>2, <1>3, <1>4, <1>5 DEF IInv, TypeOK
<1>12. Allocated' /\ MapsWellFormed' /\ CurrentIsIndexed'
  BY <1>5 DEF IInv, Allocated, MapsWellFormed, CurrentIsIndexed
<1>14. ThreadsWellFormed'
  BY <1>5, <1>6 DEF IInv, ThreadsWellFormed, ThreadOK
<1>15. RegistersDiffer' /\ NotYetInserted' /\ RemovalsAreStale'
  BY <1>5, <1>6 DEF IInv, RegistersDiffer, NotYetInserted, RemovalsAreStale
<1>18. CloseAllClears' /\ WindowIsOwn'
  BY <1>5, <1>6 DEF IInv, CloseAllClears, WindowIsOwn, ClosingAll
<1>21. StaleIsPending'
  BY <1>5, <1>6 DEF IInv, StaleIsPending, Removes, ClosingAll
<1>22. FreshIteration'
  BY <1>2, <1>3 DEF IInv, FreshIteration
<1>23. BroadcastMissesNobody'
  <2>1. ASSUME NEW u \in Threads, pc'[u] = "broadcast"
        PROVE  u # t /\ pc[u] = "broadcast" /\ scope'[u] = scope[u] /\ seen'[u] = seen[u]
    BY <2>1, <1>2, <1>3, <1>4
  <2> QED
    BY <2>1, <1>5 DEF IInv, BroadcastMissesNobody, Connected
<1>24. RegisteringHasThread'
  BY <1>5, <1>6 DEF IInv, RegisteringHasThread, Registering
<1> QED
  BY <1>11, <1>12, <1>14, <1>15, <1>18, <1>21, <1>22, <1>23, <1>24 DEF IInv


(* SendControlGet preserves the invariant *)
LEMMA SendControlGetKeeps ==
  ASSUME NEW t \in Threads, NEW d \in Devices, NEW close \in BOOLEAN, IInv,
         SendControlGet(t, d, close)
  PROVE  IInv'
<1> DEFINE c == by_device[d]
<1>1. pc[t] = "idle" /\ prev[t] = None /\ c \in Conns /\ c \in 1..next_id
  BY Ranges DEF IInv, ThreadsWellFormed, ThreadOK, Replacing, SendControlGet, Conns
<1>2. /\ pc' \in [Threads -> PCs]
      /\ pc'[t] \in {"control", "controlClose"}
      /\ \A u \in Threads \ {t} : pc'[u] = pc[u]
  BY DEF IInv, TypeOK, SendControlGet, Goto, PCs
<1>3. /\ cur' \in [Threads -> ConnOrNone]
      /\ cur'[t] = c
      /\ \A u \in Threads \ {t} : cur'[u] = cur[u]
  BY <1>1 DEF IInv, TypeOK, SendControlGet, Conns, ConnOrNone
<1>4. UNCHANGED <<next_id, device, shard, location, by_device, by_shard, queue,
                  phase, replay, prev, scope, seen, left, closing, overlap>>
  BY DEF SendControlGet, connVars, sessionVars, broadcastVars
<1>5. pc'[t] \notin Replacing \cup Registering \cup ClosingAll \cup {"insertDevice", "deregShard", "broadcast"}
  BY <1>2 DEF Replacing, Registering, ClosingAll
<1>11. TypeOK'
  BY <1>2, <1>3, <1>4 DEF IInv, TypeOK
<1>12. Allocated' /\ MapsWellFormed' /\ CurrentIsIndexed'
  BY <1>4 DEF IInv, Allocated, MapsWellFormed, CurrentIsIndexed
<1>14. ThreadsWellFormed'
  <2>1. ThreadOK(t)'
    BY <1>1, <1>2, <1>3, <1>4, <1>5 DEF ThreadOK, WithConn
  <2>2. ASSUME NEW u \in Threads \ {t} PROVE ThreadOK(u)'
    BY <1>2, <1>3, <1>4 DEF IInv, ThreadsWellFormed, ThreadOK
  <2> QED
    BY <2>1, <2>2 DEF ThreadsWellFormed
<1>15. RegistersDiffer'
  BY <1>2, <1>3, <1>5 DEF IInv, RegistersDiffer
<1>16. NotYetInserted'
  <2> SUFFICES ASSUME NEW u \in Threads, pc'[u] = "insertDevice"
               PROVE  /\ by_device[device[cur'[u]]] # cur'[u]
                      /\ \A w \in Threads : w # u => cur'[w] # cur'[u] /\ prev[w] # cur'[u]
    BY <1>4 DEF NotYetInserted
  <2>1. u # t /\ pc[u] = "insertDevice" /\ cur'[u] = cur[u]
    BY <1>2, <1>3
  <2>2. c # cur[u]
    BY <1>1, <2>1 DEF IInv, NotYetInserted, MapsWellFormed, None
  <2> QED
    BY <1>3, <2>1, <2>2 DEF IInv, NotYetInserted
<1>17. RemovalsAreStale'
  BY <1>2, <1>3, <1>4, <1>5 DEF IInv, RemovalsAreStale
<1>18. CloseAllClears'
  BY <1>2, <1>3, <1>4, <1>5 DEF IInv, CloseAllClears, ClosingAll
<1>19. WindowIsOwn'
  BY <1>2, <1>3, <1>4, <1>5 DEF IInv, WindowIsOwn
<1>21. StaleIsPending'
  <2> SUFFICES ASSUME NEW s \in Shards, NEW e \in Devices \ overlap,
                      by_shard[s][e] # None, by_device[e] # by_shard[s][e]
               PROVE  \E u \in Threads : Removes(u, s, by_shard[s][e])'
    BY <1>4 DEF StaleIsPending, Removes
  <2>1. PICK u \in Threads : Removes(u, s, by_shard[s][e])
    BY DEF IInv, StaleIsPending
  <2>2. u # t
    BY <2>1, <1>1 DEF Removes, Replacing
  <2> QED
    BY <2>1, <2>2, <1>2, <1>3, <1>4 DEF Removes
<1>22. FreshIteration'
  BY <1>1, <1>2, <1>4 DEF IInv, FreshIteration
<1>23. BroadcastMissesNobody'
  BY <1>2, <1>4, <1>5 DEF IInv, BroadcastMissesNobody, Connected
<1>24. RegisteringHasThread'
  BY <1>1, <1>2, <1>3, <1>4 DEF IInv, RegisteringHasThread, Registering
<1> QED
  BY <1>11, <1>12, <1>14, <1>15, <1>16, <1>17, <1>18, <1>19, <1>21, <1>22, <1>23, <1>24 DEF IInv

(* SendControlSend preserves the invariant *)
LEMMA SendControlSendKeeps ==
  ASSUME NEW t \in Threads, IInv, SendControlSend(t)
  PROVE  IInv'
<1> DEFINE c == cur[t]
<1>1. pc[t] \in {"control", "controlClose"} /\ c \in Conns
  BY Ranges DEF SendControlSend, WithConn
<1>2. UNCHANGED <<next_id, device, shard, location, by_device, by_shard, phase,
                  replay, scope, seen, left, closing, overlap>>
  BY DEF SendControlSend, connVars, sessionVars, broadcastVars
<1>3. /\ queue' \in [Conns -> Seq(Outbound)]
      /\ \A x \in Conns : Len(queue'[x]) <= Capacity
  BY <1>1, TrySendType DEF SendControlSend, IInv, Outbound
<1>4. CASE Return(t)
  <2>1. TypeOK'
    BY <1>2, <1>3, <1>4, ReturnEffect DEF IInv, TypeOK
  <2> QED
    BY <1>1, <1>2, <1>4, <2>1, ReturnKeeps DEF IInv, Registering, ClosingAll
<1>5. CASE Goto(t, "deregDevice") /\ UNCHANGED <<cur, prev>>
  <2>1. /\ pc' \in [Threads -> PCs]
        /\ pc'[t] = "deregDevice"
        /\ \A u \in Threads \ {t} : pc'[u] = pc[u]
    BY <1>5 DEF IInv, TypeOK, Goto, PCs
  <2>2. \A u \in Threads :
          /\ pc'[u] \in WithConn <=> pc[u] \in WithConn
          /\ pc'[u] \in Replacing <=> pc[u] \in Replacing
          /\ pc'[u] \in Registering <=> pc[u] \in Registering
          /\ pc'[u] \in ClosingAll <=> pc[u] \in ClosingAll
          /\ \A x \in {"insertDevice", "deregShard", "broadcast"} \cup ClosingAll :
               pc'[u] = x <=> pc[u] = x
    BY <1>1, <2>1 DEF WithConn, Replacing, Registering, ClosingAll
  <2>11. TypeOK'
    BY <1>2, <1>3, <1>5, <2>1 DEF IInv, TypeOK
  <2>12. Allocated' /\ MapsWellFormed' /\ CurrentIsIndexed'
    BY <1>2 DEF IInv, Allocated, MapsWellFormed, CurrentIsIndexed
  <2>14. ThreadsWellFormed'
    BY <1>2, <1>5, <2>2 DEF IInv, ThreadsWellFormed, ThreadOK
  <2>15. RegistersDiffer' /\ NotYetInserted' /\ RemovalsAreStale'
    BY <1>2, <1>5, <2>2 DEF IInv, RegistersDiffer, NotYetInserted, RemovalsAreStale
  <2>18. CloseAllClears' /\ WindowIsOwn'
    BY <1>2, <1>5, <2>2 DEF IInv, CloseAllClears, WindowIsOwn, ClosingAll
  <2>21. StaleIsPending'
    BY <1>2, <1>5, <2>2 DEF IInv, StaleIsPending, Removes, ClosingAll
  <2>22. FreshIteration' /\ BroadcastMissesNobody'
    BY <1>2, <2>2 DEF IInv, FreshIteration, BroadcastMissesNobody, Connected
  <2>24. RegisteringHasThread'
    BY <1>2, <1>5, <2>2 DEF IInv, RegisteringHasThread
  <2> QED
    BY <2>11, <2>12, <2>14, <2>15, <2>18, <2>21, <2>22, <2>24 DEF IInv
<1> QED
  BY <1>4, <1>5 DEF SendControlSend

(* CloseAllBegin preserves the invariant *)
LEMMA CloseAllBeginKeeps ==
  ASSUME NEW t \in Threads, IInv, CloseAllBegin(t)
  PROVE  IInv'
<1>1. /\ pc[t] = "idle" /\ ~closing /\ cur[t] = None /\ prev[t] = None
      /\ \A u \in Threads : pc[u] \notin ClosingAll
  BY DEF IInv, CloseAllClears, CloseAllBegin, ThreadsWellFormed, ThreadOK,
         WithConn, Replacing, Registering
<1>2. /\ pc' \in [Threads -> PCs]
      /\ pc'[t] = "closeSend"
      /\ \A u \in Threads \ {t} : pc'[u] = pc[u]
  BY DEF IInv, TypeOK, CloseAllBegin, Goto, PCs, ClosingAll
<1>3. /\ closing' = TRUE
      /\ left' = Devices
      /\ overlap' = overlap \cup {d \in Devices : InRegister(d)}
  BY DEF CloseAllBegin
<1>4. UNCHANGED <<next_id, device, shard, location, by_device, by_shard, queue,
                  phase, replay, cur, prev, scope, seen>>
  BY DEF CloseAllBegin, connVars, sessionVars, broadcastVars
<1>5. \A u \in Threads :
        /\ pc'[u] \in WithConn <=> pc[u] \in WithConn
        /\ pc'[u] \in Replacing <=> pc[u] \in Replacing
        /\ pc'[u] \in Registering <=> pc[u] \in Registering
        /\ pc'[u] \in ClosingAll <=> u = t
        /\ \A x \in {"insertDevice", "deregShard", "broadcast"} : pc'[u] = x <=> pc[u] = x
  BY <1>1, <1>2 DEF WithConn, Replacing, Registering, ClosingAll
<1>11. TypeOK'
  BY <1>2, <1>3, <1>4 DEF IInv, TypeOK
<1>12. Allocated' /\ MapsWellFormed' /\ CurrentIsIndexed'
  BY <1>3, <1>4 DEF IInv, Allocated, MapsWellFormed, CurrentIsIndexed
<1>14. ThreadsWellFormed'
  BY <1>4, <1>5 DEF IInv, ThreadsWellFormed, ThreadOK
<1>15. RegistersDiffer' /\ NotYetInserted' /\ RemovalsAreStale'
  BY <1>4, <1>5 DEF IInv, RegistersDiffer, NotYetInserted, RemovalsAreStale
<1>18. CloseAllClears'
  <2>1. \A u \in Threads : pc'[u] \in Registering => device[cur[u]] \in overlap'
    BY <1>3, <1>5, Ranges DEF InRegister, WithConn
  <2>2. \A u \in Threads : pc'[u] \notin {"closeDevices", "closeShards"}
    BY <1>1, <1>2 DEF ClosingAll
  <2> QED
    BY <2>1, <2>2, <1>3, <1>4, <1>5 DEF CloseAllClears
<1>19. WindowIsOwn'
  BY <1>3, <1>4, <1>5 DEF IInv, WindowIsOwn
<1>21. StaleIsPending'
  BY <1>2, <1>4 DEF StaleIsPending, Removes
<1>22. FreshIteration' /\ BroadcastMissesNobody'
  BY <1>3, <1>4, <1>5 DEF IInv, FreshIteration, BroadcastMissesNobody, Connected
<1>24. RegisteringHasThread'
  BY <1>4, <1>5 DEF IInv, RegisteringHasThread, Registering
<1> QED
  BY <1>11, <1>12, <1>14, <1>15, <1>18, <1>19, <1>21, <1>22, <1>24 DEF IInv


(* CloseAllSend preserves the invariant *)
LEMMA CloseAllSendKeeps ==
  ASSUME NEW t \in Threads, NEW d \in Devices, IInv, CloseAllSend(t, d)
  PROVE  IInv'
<1>1. pc[t] = "closeSend" /\ d \in left
  BY DEF CloseAllSend
<1>2. /\ pc' \in [Threads -> PCs]
      /\ pc'[t] \in {"closeSend", "closeDevices"}
      /\ pc'[t] = "closeDevices" => left' = Devices
      /\ \A u \in Threads \ {t} : pc'[u] = pc[u]
  BY DEF IInv, TypeOK, CloseAllSend, Goto, PCs, ClosingAll
<1>3. left' \subseteq Devices \cup Shards
  BY DEF IInv, TypeOK, CloseAllSend
<1>4. UNCHANGED <<next_id, device, shard, location, by_device, by_shard, phase,
                  replay, cur, prev, scope, seen, closing, overlap>>
  BY DEF CloseAllSend, connVars, sessionVars, broadcastVars
<1>5. /\ queue' \in [Conns -> Seq(Outbound)]
      /\ \A x \in Conns : Len(queue'[x]) <= Capacity
  <2>1. CASE by_device[d] = None
    BY <2>1 DEF IInv, TypeOK, CloseAllSend
  <2>2. CASE by_device[d] # None
    BY <2>2, TrySendType, Ranges DEF IInv, CloseAllSend, Outbound
  <2> QED
    BY <2>1, <2>2
<1>6. \A u \in Threads :
        /\ pc'[u] \in WithConn <=> pc[u] \in WithConn
        /\ pc'[u] \in Replacing <=> pc[u] \in Replacing
        /\ pc'[u] \in Registering <=> pc[u] \in Registering
        /\ pc'[u] \in ClosingAll <=> pc[u] \in ClosingAll
        /\ \A x \in {"insertDevice", "deregShard", "broadcast"} : pc'[u] = x <=> pc[u] = x
  BY <1>1, <1>2 DEF WithConn, Replacing, Registering, ClosingAll
<1>11. TypeOK'
  BY <1>2, <1>3, <1>4, <1>5 DEF IInv, TypeOK
<1>12. Allocated' /\ MapsWellFormed' /\ CurrentIsIndexed'
  BY <1>4 DEF IInv, Allocated, MapsWellFormed, CurrentIsIndexed
<1>14. ThreadsWellFormed'
  BY <1>4, <1>6 DEF IInv, ThreadsWellFormed, ThreadOK
<1>15. RegistersDiffer' /\ NotYetInserted' /\ RemovalsAreStale'
  BY <1>4, <1>6 DEF IInv, RegistersDiffer, NotYetInserted, RemovalsAreStale
<1>18. CloseAllClears'
  <2>1. \A u \in Threads : pc'[u] \in ClosingAll => u = t
    BY <1>1, <1>6 DEF IInv, CloseAllClears, ClosingAll
  <2> QED
    BY <2>1, <1>2, <1>4, <1>6 DEF IInv, CloseAllClears, ClosingAll
<1>19. WindowIsOwn'
  BY <1>4, <1>6 DEF IInv, WindowIsOwn
<1>21. StaleIsPending'
  BY <1>2, <1>4 DEF StaleIsPending, Removes
<1>22. FreshIteration' /\ BroadcastMissesNobody'
  BY <1>4, <1>6 DEF IInv, FreshIteration, BroadcastMissesNobody, Connected
<1>24. RegisteringHasThread'
  BY <1>4, <1>6 DEF IInv, RegisteringHasThread, Registering
<1> QED
  BY <1>11, <1>12, <1>14, <1>15, <1>18, <1>19, <1>21, <1>22, <1>24 DEF IInv

(* CloseAllClearDevice preserves the invariant *)
LEMMA CloseAllClearDeviceKeeps ==
  ASSUME NEW t \in Threads, NEW d \in Devices, IInv, CloseAllClearDevice(t, d)
  PROVE  IInv'
<1>1. pc[t] = "closeDevices" /\ d \in left
  BY DEF CloseAllClearDevice
<1>2. /\ pc' \in [Threads -> PCs]
      /\ \/ pc'[t] = "closeDevices" /\ left' = left \ {d}
         \/ pc'[t] = "closeShards" /\ left' = Shards /\ left = {d}
      /\ \A u \in Threads \ {t} : pc'[u] = pc[u]
  BY DEF IInv, TypeOK, CloseAllClearDevice, Goto, PCs, ClosingAll
<1>3. /\ by_device' \in [Devices -> ConnOrNone]
      /\ by_device'[d] = None
      /\ \A e \in Devices \ {d} : by_device'[e] = by_device[e]
  <2>1. by_device' = [by_device EXCEPT ![d] = None] /\ None \in ConnOrNone
    BY MaxConnAssumption DEF CloseAllClearDevice, ConnOrNone, None
  <2> QED
    BY <2>1 DEF IInv, TypeOK
<1>4. UNCHANGED <<next_id, device, shard, location, by_shard, queue, phase,
                  replay, cur, prev, scope, seen, closing, overlap>>
  BY DEF CloseAllClearDevice, connVars, sessionVars, broadcastVars
<1>5. \A u \in Threads :
        /\ pc'[u] \in WithConn <=> pc[u] \in WithConn
        /\ pc'[u] \in Replacing <=> pc[u] \in Replacing
        /\ pc'[u] \in Registering <=> pc[u] \in Registering
        /\ pc'[u] \in ClosingAll <=> pc[u] \in ClosingAll
        /\ \A x \in {"insertDevice", "deregShard", "broadcast"} : pc'[u] = x <=> pc[u] = x
  BY <1>1, <1>2 DEF WithConn, Replacing, Registering, ClosingAll
<1>11. TypeOK'
  BY <1>2, <1>3, <1>4 DEF IInv, TypeOK
<1>12. Allocated'
  BY <1>4 DEF IInv, Allocated
<1>13. MapsWellFormed'
  BY <1>3, <1>4 DEF IInv, MapsWellFormed
<1>14. ThreadsWellFormed'
  BY <1>4, <1>5 DEF IInv, ThreadsWellFormed, ThreadOK
<1>15. RegistersDiffer'
  BY <1>4, <1>5 DEF IInv, RegistersDiffer
<1>16. NotYetInserted'
  BY <1>3, <1>4, <1>5, Ranges DEF IInv, NotYetInserted, WithConn
<1>17. RemovalsAreStale'
  BY <1>3, <1>4, <1>5, Ranges DEF IInv, RemovalsAreStale, WithConn
<1>18. CloseAllClears'
  <2>1. \A u \in Threads : pc'[u] \in ClosingAll <=> u = t
    BY <1>1, <1>5 DEF IInv, CloseAllClears, ClosingAll
  <2>2. ASSUME NEW e \in Devices \ overlap
        PROVE  /\ pc'[t] = "closeDevices" /\ e \notin left' => by_device'[e] = None
               /\ pc'[t] = "closeShards" => by_device'[e] = None
    BY <1>1, <1>2, <1>3 DEF IInv, CloseAllClears
  <2> QED
    BY <2>1, <2>2, <1>1, <1>4, <1>5 DEF IInv, CloseAllClears, ClosingAll
<1>19. WindowIsOwn'
  <2> SUFFICES ASSUME NEW u \in Threads, pc'[u] \in Registering,
                      device[cur[u]] \notin overlap
               PROVE  by_device'[device[cur[u]]] = cur[u]
    BY <1>4 DEF WindowIsOwn
  <2>1. pc[u] \in Registering
    BY <1>5
  <2> QED
    BY <2>1, <1>1 DEF IInv, CloseAllClears, ClosingAll
<1>20. CurrentIsIndexed'
  BY <1>3, <1>4 DEF IInv, CurrentIsIndexed
<1>21. StaleIsPending'
  BY <1>2, <1>4 DEF StaleIsPending, Removes
<1>22. FreshIteration'
  BY <1>4, <1>5 DEF IInv, FreshIteration
<1>23. BroadcastMissesNobody'
  BY <1>3, <1>4, <1>5, Ranges DEF IInv, BroadcastMissesNobody, Connected
<1>24. RegisteringHasThread'
  BY <1>4, <1>5 DEF IInv, RegisteringHasThread, Registering
<1> QED
  BY <1>11, <1>12, <1>13, <1>14, <1>15, <1>16, <1>17, <1>18, <1>19, <1>20,
     <1>21, <1>22, <1>23, <1>24 DEF IInv

(* CloseAllClearShard preserves the invariant *)
LEMMA CloseAllClearShardKeeps ==
  ASSUME NEW t \in Threads, NEW s \in Shards, IInv, CloseAllClearShard(t, s)
  PROVE  IInv'
<1>1. pc[t] = "closeShards" /\ s \in left
  BY DEF CloseAllClearShard
<1>2. /\ pc' \in [Threads -> PCs]
      /\ pc'[t] = IF left = {s} THEN "idle" ELSE "closeShards"
      /\ left' = left \ {s}
      /\ \A u \in Threads \ {t} : pc'[u] = pc[u]
  BY DEF IInv, TypeOK, CloseAllClearShard, Goto, PCs, ClosingAll
<1>3. /\ by_shard' \in [Shards -> [Devices -> ConnOrNone]]
      /\ \A e \in Devices : by_shard'[s][e] = None
      /\ \A z \in Shards \ {s} : by_shard'[z] = by_shard[z]
  <2>1. /\ by_shard' = [by_shard EXCEPT ![s] = [e \in Devices |-> None]]
        /\ None \in ConnOrNone
    BY MaxConnAssumption DEF CloseAllClearShard, ConnOrNone, None
  <2> QED
    BY <2>1 DEF IInv, TypeOK
<1>4. UNCHANGED <<next_id, device, shard, location, by_device, queue, phase,
                  replay, cur, prev, scope, seen, closing, overlap>>
  BY DEF CloseAllClearShard, connVars, sessionVars, broadcastVars
<1>5. \A u \in Threads :
        /\ pc'[u] \in WithConn <=> pc[u] \in WithConn
        /\ pc'[u] \in Replacing <=> pc[u] \in Replacing
        /\ pc'[u] \in Registering <=> pc[u] \in Registering
        /\ pc'[u] \in ClosingAll => pc[u] \in ClosingAll
        /\ \A x \in {"insertDevice", "deregShard", "broadcast"} : pc'[u] = x <=> pc[u] = x
  BY <1>1, <1>2 DEF WithConn, Replacing, Registering, ClosingAll
<1>6. \A e \in Devices \ overlap : by_device[e] = None
  BY <1>1 DEF IInv, CloseAllClears
<1>11. TypeOK'
  BY <1>2, <1>3, <1>4 DEF IInv, TypeOK
<1>12. Allocated'
  BY <1>4 DEF IInv, Allocated
<1>13. MapsWellFormed'
  <2>1. \A z \in Shards, e \in Devices :
          by_shard'[z][e] # None => by_shard'[z][e] = by_shard[z][e]
    BY <1>3
  <2> QED
    BY <2>1, <1>4 DEF IInv, MapsWellFormed
<1>14. ThreadsWellFormed'
  BY <1>4, <1>5 DEF IInv, ThreadsWellFormed, ThreadOK
<1>15. RegistersDiffer' /\ NotYetInserted' /\ RemovalsAreStale'
  BY <1>4, <1>5 DEF IInv, RegistersDiffer, NotYetInserted, RemovalsAreStale
<1>18. CloseAllClears'
  <2>1. \A u \in Threads : pc'[u] \in ClosingAll => u = t
    BY <1>1, <1>5 DEF IInv, CloseAllClears, ClosingAll
  <2> QED
    BY <2>1, <1>4, <1>5, <1>6 DEF IInv, CloseAllClears, ClosingAll
<1>19. WindowIsOwn'
  BY <1>4, <1>5 DEF IInv, WindowIsOwn
<1>20. CurrentIsIndexed'
  BY <1>4, <1>6 DEF CurrentIsIndexed
<1>21. StaleIsPending'
  <2> SUFFICES ASSUME NEW z \in Shards, NEW e \in Devices \ overlap,
                      by_shard'[z][e] # None, by_device[e] # by_shard'[z][e]
               PROVE  \E u \in Threads : Removes(u, z, by_shard[z][e])'
    BY <1>3, <1>4 DEF StaleIsPending, Removes
  <2>1. z # s /\ by_shard'[z][e] = by_shard[z][e]
    BY <1>3
  <2>2. PICK u \in Threads : Removes(u, z, by_shard[z][e])
    BY <2>1 DEF IInv, StaleIsPending
  <2>3. CASE u = t
    <3>1. z \in left
      BY <2>2, <2>3, <1>1 DEF Removes, Replacing
    <3> QED
      BY <3>1, <2>1, <2>3, <1>2 DEF Removes
  <2>4. CASE u # t
    <3>1. pc[u] \notin ClosingAll
      BY <2>4, <1>1 DEF IInv, CloseAllClears, ClosingAll
    <3> QED
      BY <3>1, <2>1, <2>2, <2>4, <1>2, <1>4 DEF Removes, ClosingAll
  <2> QED
    BY <2>3, <2>4
<1>22. FreshIteration' /\ BroadcastMissesNobody'
  BY <1>4, <1>5 DEF IInv, FreshIteration, BroadcastMissesNobody, Connected
<1>24. RegisteringHasThread'
  BY <1>4, <1>5 DEF IInv, RegisteringHasThread, Registering
<1> QED
  BY <1>11, <1>12, <1>13, <1>14, <1>15, <1>18, <1>19, <1>20, <1>21, <1>22, <1>24 DEF IInv

(* Stutter preserves the invariant *)
LEMMA StutterKeeps ==
  ASSUME IInv, UNCHANGED vars
  PROVE  IInv'
<1>1. UNCHANGED <<next_id, device, shard, by_device, by_shard, phase, pc, cur,
                  prev, scope, seen, left, closing, overlap>>
  BY DEF vars
<1>2. TypeOK'
  BY DEF IInv, TypeOK, vars
<1> QED
  BY <1>1, <1>2, FrameKeeps DEF IInv

(* The inductive invariant holds in an empty registry. *)
LEMMA InitEstablishes == Init => IInv
<1> SUFFICES ASSUME Init PROVE IInv
  OBVIOUS
<1>1. /\ Arbitrary(Devices) \in Devices /\ Arbitrary(Shards) \in Shards
      /\ Arbitrary(Locations) \in Locations /\ Arbitrary(Areas) \in Areas
  BY NonEmptyAssumption DEF Arbitrary
<1>2. \A t \in Threads :
        pc[t] \notin WithConn \cup Replacing \cup Registering \cup ClosingAll
  BY DEF Init, WithConn, Replacing, Registering, ClosingAll
<1>11. TypeOK
  <2>1. <<>> \in Seq(Outbound) /\ Len(<<>>) <= Capacity
    BY CapacityAssumption
  <2>2. None \in ConnOrNone /\ 0 \in ConnOrNone /\ "idle" \in PCs /\ "unseen" \in Outcome
    BY MaxConnAssumption DEF ConnOrNone, None, PCs, Outcome
  <2> QED
    BY <1>1, <2>1, <2>2 DEF Init, TypeOK
<1>12. Allocated
  BY DEF Init, Allocated, Conns
<1>13. MapsWellFormed /\ CurrentIsIndexed /\ StaleIsPending
  BY DEF Init, MapsWellFormed, CurrentIsIndexed, StaleIsPending
<1>14. ThreadsWellFormed /\ RegistersDiffer /\ NotYetInserted /\ RemovalsAreStale
  BY <1>2 DEF Init, ThreadsWellFormed, ThreadOK, RegistersDiffer, NotYetInserted,
              RemovalsAreStale, WithConn
<1>15. CloseAllClears /\ WindowIsOwn
  BY <1>2 DEF CloseAllClears, WindowIsOwn, ClosingAll
<1>16. FreshIteration /\ BroadcastMissesNobody /\ RegisteringHasThread
  BY DEF Init, FreshIteration, BroadcastMissesNobody, RegisteringHasThread
<1> QED
  BY <1>11, <1>12, <1>13, <1>14, <1>15, <1>16 DEF IInv

(* The strengthening of the registry's invariants is inductive: every step of *)
(* every registry function, taken by any thread at any moment, preserves it.  *)
THEOREM Inductive == Spec => []IInv
<1>1. IInv /\ [Next]_vars => IInv'
  <2> SUFFICES ASSUME IInv, [Next]_vars PROVE IInv'
    OBVIOUS
  <2>1. ASSUME NEW t \in Threads, ThreadStep(t) PROVE IInv'
    BY <2>1, RegisterInsertDeviceKeeps, RegisterClosePreviousKeeps,
       RegisterUnindexPreviousKeeps, RegisterInsertShardKeeps,
       DeregisterDeviceKeeps, DeregisterShardKeeps, SendControlSendKeeps,
       BroadcastEndKeeps, BroadcastVisitKeeps, CloseAllSendKeeps,
       CloseAllClearDeviceKeeps, CloseAllClearShardKeeps DEF ThreadStep
  <2>2. ASSUME NEW t \in Threads, Call(t) PROVE IInv'
    BY <2>2, RegisterBeginKeeps, BroadcastBeginKeeps, UpdateLocationKeeps,
       SendControlGetKeeps, CloseAllBeginKeeps, SessionDeregisterKeeps,
       SenderForKeeps DEF Call
  <2>3. ASSUME NEW c \in Conns, TaskStep(c) PROVE IInv'
    BY <2>3, ReplaySendKeeps, ReplayEndKeeps, WriterRecvKeeps, SessionEndsKeeps,
       WriterPingFailsKeeps, WriterClosedKeeps
    DEF TaskStep
  <2>4. CASE UNCHANGED vars
    BY <2>4, StutterKeeps
  <2> QED
    BY <2>1, <2>2, <2>3, <2>4 DEF Next
<1> QED
  BY <1>1, InitEstablishes, PTL DEF Spec

(* Every queue stays within CONNECTION_CHANNEL_CAPACITY, and the maps, the     *)
(* sessions and the threads hold what they are declared to hold.               *)
THEOREM TypeCorrect == Spec => []TypeOK
<1>1. IInv => TypeOK
  BY DEF IInv
<1> QED
  BY <1>1, Inductive, PTL

(* The two indexes of the registry agree on every device that no call is      *)
(* working on, for any number of devices, shards, threads and connections,     *)
(* unless a register call of that device was overlapped.                       *)
THEOREM IndexesStayConsistent == Spec => []IndexAgreement
<1>1. IInv => IndexAgreement
  <2> SUFFICES ASSUME IInv, NEW d \in Devices \ overlap, Quiet(d), NEW s \in Shards
               PROVE  by_shard[s][d] =
                        IF by_device[d] # None /\ shard[by_device[d]] = s
                        THEN by_device[d] ELSE None
    BY DEF IndexAgreement, IndexesAgree
  <2>1. ASSUME by_device[d] # None PROVE by_shard[shard[by_device[d]]][d] = by_device[d]
    <3>1. phase[by_device[d]] # "registering"
      <4> SUFFICES ASSUME phase[by_device[d]] = "registering" PROVE FALSE
        OBVIOUS
      <4>1. PICK t \in Threads : /\ pc[t] \in {"insertDevice"} \cup Registering
                                 /\ cur[t] = by_device[d]
        BY <2>1, Ranges DEF IInv, RegisteringHasThread
      <4>2. device[cur[t]] = d
        BY <2>1, <4>1 DEF IInv, MapsWellFormed
      <4> QED
        BY <4>1, <4>2 DEF Quiet, InRegister, IInv, NotYetInserted
    <3> QED
      BY <2>1, <3>1 DEF IInv, CurrentIsIndexed
  <2>2. ASSUME by_shard[s][d] # None PROVE by_device[d] = by_shard[s][d]
    <3> SUFFICES ASSUME by_device[d] # by_shard[s][d] PROVE FALSE
      OBVIOUS
    <3>1. PICK t \in Threads : Removes(t, s, by_shard[s][d])
      BY <2>2 DEF IInv, StaleIsPending
    <3>2. device[by_shard[s][d]] = d
      BY <2>2 DEF IInv, MapsWellFormed
    <3>3. pc[t] \notin ClosingAll
      BY DEF Quiet, InCloseAll
    <3>4. ~(pc[t] = "deregShard" /\ cur[t] = by_shard[s][d])
      BY <3>2 DEF Quiet, InDeregister
    <3>5. ~(pc[t] \in Replacing /\ prev[t] = by_shard[s][d])
      BY <3>2 DEF Quiet, InRegister, Replacing, Registering, IInv,
                  ThreadsWellFormed, ThreadOK
    <3> QED
      BY <3>1, <3>3, <3>4, <3>5 DEF Removes, ClosingAll
  <2> QED
    BY <2>1, <2>2 DEF IInv, MapsWellFormed
<1> QED
  BY <1>1, Inductive, PTL

(* No broadcast skips a connection that is registered, live and current in its *)
(* shard, whatever the other threads register, replace or remove meanwhile.    *)
THEOREM BroadcastsReachEveryone == Spec => []BroadcastMissesNobody
<1>1. IInv => BroadcastMissesNobody
  BY DEF IInv
<1> QED
  BY <1>1, Inductive, PTL

NoOverlap == overlap = {}

(* On a runtime with one worker thread, where every registry function runs to *)
(* its end before another starts, the indexes agree with no exemption: the    *)
(* disagreement needs two threads.                                            *)
THEOREM OneThreadAlwaysIndexed ==
  ASSUME \A t, u \in Threads : t = u
  PROVE  Spec => []AlwaysIndexed
<1>1. IInv /\ NoOverlap /\ [Next]_vars => NoOverlap'
  <2> SUFFICES ASSUME IInv, overlap = {}, [Next]_vars PROVE overlap' = {}
    BY DEF NoOverlap
  <2>1. ASSUME NEW t \in Threads, RegisterInsertDevice(t)
        PROVE  overlap' = overlap
    <3>1. pc[t] = "insertDevice" /\ \A u \in Threads : pc[u] = pc[t]
      BY <2>1 DEF RegisterInsertDevice
    <3>2. ~InRegister(device[cur[t]]) /\ ~InCloseAll
      BY <3>1 DEF InRegister, InCloseAll, Registering, ClosingAll
    <3> QED
      BY <2>1, <3>2 DEF RegisterInsertDevice
  <2>2. ASSUME NEW t \in Threads, DeregisterDevice(t)
        PROVE  overlap' = overlap
    <3>1. /\ pc[t] = "deregDevice" /\ cur[t] \in Conns
          /\ \A u \in Threads : pc[u] = pc[t]
      BY <2>2, Ranges DEF DeregisterDevice, WithConn
    <3>2. phase[cur[t]] # "registering"
      BY <3>1 DEF IInv, RegisteringHasThread, Registering
    <3> QED
      BY <2>2, <3>2 DEF DeregisterDevice
  <2>3. ASSUME NEW t \in Threads, CloseAllBegin(t)
        PROVE  overlap' = overlap
    <3>1. pc[t] = "idle" /\ \A u \in Threads : pc[u] = pc[t]
      BY <2>3 DEF CloseAllBegin
    <3>2. \A d \in Devices : ~InRegister(d)
      BY <3>1 DEF InRegister, Registering
    <3> QED
      BY <2>3, <3>2 DEF CloseAllBegin
  <2>4. ASSUME NEW t \in Threads, ThreadStep(t) PROVE overlap' = overlap
    BY <2>1, <2>2, <2>4 DEF ThreadStep, RegisterClosePrevious,
       RegisterUnindexPrevious, RegisterInsertShard, DeregisterShard,
       SendControlSend, BroadcastEnd, BroadcastVisit, CloseAllSend,
       CloseAllClearDevice, CloseAllClearShard
  <2>5. ASSUME NEW t \in Threads, Call(t) PROVE overlap' = overlap
    BY <2>3, <2>5 DEF Call, RegisterBegin, BroadcastBegin, UpdateLocation,
       SendControlGet, SessionDeregister, SenderFor
  <2>6. ASSUME NEW c \in Conns, TaskStep(c) PROVE overlap' = overlap
    BY <2>6 DEF TaskStep, ReplaySend, ReplayEnd, WriterRecv, WriterPingFails,
                WriterClosed, SessionEnds
  <2> QED
    BY <2>4, <2>5, <2>6 DEF Next, vars
<1>2. Init => NoOverlap
  BY DEF Init, NoOverlap
<1>3. IndexAgreement /\ NoOverlap => AlwaysIndexed
  BY DEF IndexAgreement, AlwaysIndexed, NoOverlap
<1> QED
  BY <1>1, <1>2, <1>3, Inductive, IndexesStayConsistent, PTL DEF Spec

-----------------------------------------------------------------------------
(* Nobody waits for good *)

(* close_all always has something left of the map it is going through *)
CloseAllHasMore ==
  \A t \in Threads :
    /\ pc[t] \in {"closeSend", "closeDevices"} => left # {} /\ left \subseteq Devices
    /\ pc[t] = "closeShards" => left # {} /\ left \subseteq Shards

LEMMA CloseAllStepHasMore ==
  ASSUME IInv, CloseAllHasMore, NEW t \in Threads,
         \/ CloseAllBegin(t)
         \/ \E d \in Devices : CloseAllSend(t, d) \/ CloseAllClearDevice(t, d)
         \/ \E s \in Shards : CloseAllClearShard(t, s)
  PROVE  CloseAllHasMore'
<1>1. pc \in [Threads -> PCs]
  BY DEF IInv, TypeOK
<1>2. ASSUME NEW u \in Threads, u # t PROVE pc'[u] = pc[u] /\ pc[u] \notin ClosingAll
  <2>1. pc'[u] = pc[u]
    BY <1>1, <1>2 DEF CloseAllBegin, CloseAllSend, CloseAllClearDevice, CloseAllClearShard, Goto
  <2>2. CASE CloseAllBegin(t)
    BY <2>1, <2>2 DEF CloseAllBegin, IInv, CloseAllClears
  <2>3. CASE ~CloseAllBegin(t)
    <3>1. pc[t] \in ClosingAll
      BY <2>3 DEF CloseAllSend, CloseAllClearDevice, CloseAllClearShard, ClosingAll
    <3>. QED  BY <1>2, <2>1, <3>1 DEF IInv, CloseAllClears
  <2>. QED  BY <2>1, <2>2, <2>3
<1>3. CASE CloseAllBegin(t)
  <2>1. pc'[t] = "closeSend" /\ left' = Devices /\ Devices # {}
    BY <1>1, <1>3, NonEmptyAssumption DEF CloseAllBegin, Goto
  <2>. QED  BY <1>2, <2>1 DEF CloseAllHasMore, ClosingAll
<1>4. ASSUME NEW d \in Devices, CloseAllSend(t, d) PROVE CloseAllHasMore'
  <2>1. d \in left /\ left \subseteq Devices
    BY <1>4 DEF CloseAllSend, CloseAllHasMore
  <2>2. CASE left = {d}
    <3>1. pc'[t] = "closeDevices" /\ left' = Devices /\ Devices # {}
      BY <1>1, <1>4, <2>2, NonEmptyAssumption DEF CloseAllSend, Goto
    <3>. QED  BY <1>2, <3>1 DEF CloseAllHasMore, ClosingAll
  <2>3. CASE left # {d}
    <3>1. pc'[t] = "closeSend" /\ left' = left \ {d}
      BY <1>1, <1>4, <2>3 DEF CloseAllSend, Goto
    <3>2. left' # {} /\ left' \subseteq Devices
      BY <2>1, <2>3, <3>1
    <3>. QED  BY <1>2, <3>1, <3>2 DEF CloseAllHasMore, ClosingAll
  <2>. QED  BY <2>2, <2>3
<1>5. ASSUME NEW d \in Devices, CloseAllClearDevice(t, d) PROVE CloseAllHasMore'
  <2>1. d \in left /\ left \subseteq Devices
    BY <1>5 DEF CloseAllClearDevice, CloseAllHasMore
  <2>2. CASE left = {d}
    <3>1. pc'[t] = "closeShards" /\ left' = Shards /\ Shards # {}
      BY <1>1, <1>5, <2>2, NonEmptyAssumption DEF CloseAllClearDevice, Goto
    <3>. QED  BY <1>2, <3>1 DEF CloseAllHasMore, ClosingAll
  <2>3. CASE left # {d}
    <3>1. pc'[t] = "closeDevices" /\ left' = left \ {d}
      BY <1>1, <1>5, <2>3 DEF CloseAllClearDevice, Goto
    <3>2. left' # {} /\ left' \subseteq Devices
      BY <2>1, <2>3, <3>1
    <3>. QED  BY <1>2, <3>1, <3>2 DEF CloseAllHasMore, ClosingAll
  <2>. QED  BY <2>2, <2>3
<1>6. ASSUME NEW s \in Shards, CloseAllClearShard(t, s) PROVE CloseAllHasMore'
  <2>1. s \in left /\ left \subseteq Shards /\ left' = left \ {s}
    BY <1>6 DEF CloseAllClearShard, CloseAllHasMore
  <2>2. CASE left = {s}
    <3>1. pc'[t] = "idle"
      BY <1>1, <1>6, <2>2 DEF CloseAllClearShard, Goto
    <3>. QED  BY <1>2, <3>1 DEF CloseAllHasMore, ClosingAll
  <2>3. CASE left # {s}
    <3>1. pc'[t] = "closeShards"
      BY <1>1, <1>6, <2>3 DEF CloseAllClearShard, Goto
    <3>2. left' # {} /\ left' \subseteq Shards
      BY <2>1, <2>3
    <3>. QED  BY <1>2, <3>1, <3>2 DEF CloseAllHasMore, ClosingAll
  <2>. QED  BY <2>2, <2>3
<1>. QED  BY <1>3, <1>4, <1>5, <1>6

(* Every other step leaves close_all where it is *)
LEMMA OtherStepsLeaveMore ==
  ASSUME CloseAllHasMore, left' = left,
         \A u \in Threads : pc'[u] \in ClosingAll => pc'[u] = pc[u]
  PROVE  CloseAllHasMore'
BY DEF CloseAllHasMore, ClosingAll

LEMMA MoreStays ==
  ASSUME IInv, CloseAllHasMore, [Next]_vars
  PROVE  CloseAllHasMore'
<1>0. pc \in [Threads -> PCs]
  BY DEF IInv, TypeOK
<1>1. ASSUME NEW t \in Threads, NEW where, pc' = [pc EXCEPT ![t] = where], where \notin ClosingAll
      PROVE  \A u \in Threads : pc'[u] \in ClosingAll => pc'[u] = pc[u]
  BY <1>0, <1>1
<1>2. /\ "idle" \notin ClosingAll /\ "closePrevious" \notin ClosingAll
      /\ "unindexPrevious" \notin ClosingAll /\ "insertShard" \notin ClosingAll
      /\ "insertDevice" \notin ClosingAll /\ "deregDevice" \notin ClosingAll
      /\ "deregShard" \notin ClosingAll /\ "broadcast" \notin ClosingAll
      /\ "control" \notin ClosingAll /\ "controlClose" \notin ClosingAll
  BY DEF ClosingAll
<1>. DEFINE Elsewhere(t) ==
       left' = left /\ \E where : pc' = [pc EXCEPT ![t] = where] /\ where \notin ClosingAll
<1>3. ASSUME NEW t \in Threads, Elsewhere(t) PROVE CloseAllHasMore'
  BY <1>1, <1>3, OtherStepsLeaveMore
<1>4. ASSUME left' = left, pc' = pc PROVE CloseAllHasMore'
  BY <1>4, OtherStepsLeaveMore
<1>5. ASSUME NEW t \in Threads, ThreadStep(t) PROVE CloseAllHasMore'
  <2>1. CASE RegisterInsertDevice(t)
    <3>1. pc' = [pc EXCEPT ![t] = "closePrevious"] \/ pc' = [pc EXCEPT ![t] = "insertShard"]
      BY <2>1 DEF RegisterInsertDevice, Goto
    <3>2. left' = left
      BY <2>1 DEF RegisterInsertDevice
    <3>. QED  BY <1>2, <1>3, <3>1, <3>2
  <2>2. CASE RegisterClosePrevious(t)
    <3>1. pc' = [pc EXCEPT ![t] = "unindexPrevious"] /\ left' = left
      BY <2>2 DEF RegisterClosePrevious, Goto
    <3>. QED  BY <1>2, <1>3, <3>1
  <2>3. CASE RegisterUnindexPrevious(t)
    <3>1. pc' = [pc EXCEPT ![t] = "insertShard"] /\ left' = left
      BY <2>3 DEF RegisterUnindexPrevious, Goto
    <3>. QED  BY <1>2, <1>3, <3>1
  <2>4. CASE RegisterInsertShard(t) \/ DeregisterShard(t) \/ BroadcastEnd(t)
    <3>1. pc' = [pc EXCEPT ![t] = "idle"] /\ left' = left
      BY <2>4 DEF RegisterInsertShard, DeregisterShard, BroadcastEnd, Return, Goto
    <3>. QED  BY <1>2, <1>3, <3>1
  <2>5. CASE DeregisterDevice(t)
    <3>1. pc' = [pc EXCEPT ![t] = "deregShard"] \/ pc' = [pc EXCEPT ![t] = "idle"]
      BY <2>5 DEF DeregisterDevice, Return, Goto
    <3>2. left' = left
      BY <2>5 DEF DeregisterDevice
    <3>. QED  BY <1>2, <1>3, <3>1, <3>2
  <2>6. CASE SendControlSend(t)
    <3>1. pc' = [pc EXCEPT ![t] = "deregDevice"] \/ pc' = [pc EXCEPT ![t] = "idle"]
      BY <2>6 DEF SendControlSend, Return, Goto
    <3>2. left' = left
      BY <2>6 DEF SendControlSend
    <3>. QED  BY <1>2, <1>3, <3>1, <3>2
  <2>7. CASE \E d \in Devices : BroadcastVisit(t, d)
    BY <1>4, <2>7 DEF BroadcastVisit, threadVars
  <2>8. CASE \/ \E d \in Devices : CloseAllSend(t, d) \/ CloseAllClearDevice(t, d)
             \/ \E s \in Shards : CloseAllClearShard(t, s)
    BY <2>8, CloseAllStepHasMore
  <2>. QED  BY <1>5, <2>1, <2>2, <2>3, <2>4, <2>5, <2>6, <2>7, <2>8 DEF ThreadStep
<1>6. ASSUME NEW t \in Threads, Call(t) PROVE CloseAllHasMore'
  <2>1. ASSUME NEW d \in Devices, NEW s \in Shards, NEW l \in Locations, RegisterBegin(t, d, s, l)
        PROVE  CloseAllHasMore'
    <3>1. pc' = [pc EXCEPT ![t] = "insertDevice"] /\ left' = left
      BY <2>1 DEF RegisterBegin, Goto
    <3>. QED  BY <1>2, <1>3, <3>1
  <2>2. ASSUME NEW s \in Shards, NEW a \in Areas, BroadcastBegin(t, s, a)
        PROVE  CloseAllHasMore'
    <3>1. pc' = [pc EXCEPT ![t] = "broadcast"] /\ left' = left
      BY <2>2 DEF BroadcastBegin, Goto
    <3>. QED  BY <1>2, <1>3, <3>1
  <2>3. ASSUME NEW d \in Devices, NEW close \in BOOLEAN, SendControlGet(t, d, close)
        PROVE  CloseAllHasMore'
    <3>1. pc' = [pc EXCEPT ![t] = "controlClose"] \/ pc' = [pc EXCEPT ![t] = "control"]
      BY <2>3 DEF SendControlGet, Goto
    <3>2. left' = left
      BY <2>3 DEF SendControlGet
    <3>. QED  BY <1>2, <1>3, <3>1, <3>2
  <2>4. ASSUME NEW c \in Conns, SessionDeregister(t, c) PROVE CloseAllHasMore'
    <3>1. pc' = [pc EXCEPT ![t] = "deregDevice"] /\ left' = left
      BY <2>4 DEF SessionDeregister, Goto
    <3>. QED  BY <1>2, <1>3, <3>1
  <2>5. CASE \/ \E d \in Devices, l \in Locations : UpdateLocation(t, d, l)
             \/ \E c \in Conns : SenderFor(t, c)
    BY <1>4, <2>5 DEF UpdateLocation, SenderFor, threadVars
  <2>6. CASE CloseAllBegin(t)
    BY <2>6, CloseAllStepHasMore
  <2>. QED  BY <1>6, <2>1, <2>2, <2>3, <2>4, <2>5, <2>6 DEF Call
<1>7. ASSUME NEW c \in Conns, TaskStep(c) PROVE CloseAllHasMore'
  BY <1>4, <1>7 DEF TaskStep, ReplaySend, ReplayEnd, WriterRecv, WriterPingFails,
                    WriterClosed, SessionEnds, threadVars
<1>8. CASE UNCHANGED vars
  BY <1>4, <1>8 DEF vars
<1>. QED  BY <1>5, <1>6, <1>7, <1>8 DEF Next

(* The map guards never deadlock, and close_all never runs out of entries   *)
(* before it is done: whenever a thread is inside a registry call, what     *)
(* some thread waits for has come, for any number of threads and shards.    *)
THEOREM SomeCallAlwaysGoesOn == Spec => []SomeCallGoesOn
<1>1. Init => CloseAllHasMore
  BY DEF Init, CloseAllHasMore
<1>2. IInv /\ CloseAllHasMore /\ [Next]_vars => CloseAllHasMore'
  BY MoreStays
<1>3. CloseAllHasMore => SomeCallGoesOn
  <2>. SUFFICES ASSUME CloseAllHasMore, NEW t \in Threads, pc[t] # "idle"
                PROVE  \E u \in Threads : CanGoOn(u)
    BY DEF SomeCallGoesOn
  <2>1. CASE \E u \in Threads : pc[u] = "broadcast"
    BY <2>1 DEF CanGoOn
  <2>2. CASE ~ \E u \in Threads : pc[u] = "broadcast"
    <3>1. \A s : ~Guarded(s)
      BY <2>2 DEF Guarded
    <3>2. pc[t] \in {"closeSend", "closeDevices"} => left \cap Devices # {}
      BY DEF CloseAllHasMore
    <3>3. pc[t] = "closeShards" => \E s \in left \cap Shards : ~Guarded(s)
      BY <3>1 DEF CloseAllHasMore
    <3>4. CanGoOn(t)
      BY <3>1, <3>2, <3>3 DEF CanGoOn
    <3>. QED  BY <3>4
  <2>. QED  BY <2>1, <2>2
<1>. QED  BY <1>1, <1>2, <1>3, Inductive, PTL DEF Spec

=============================================================================
