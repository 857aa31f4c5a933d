------------------------------- MODULE Leases -------------------------------
(***************************************************************************)
(* What the shard registry promises to the workers, and no more: a shard   *)
(* has one holder or none; a worker gets it when nobody has it, and for a  *)
(* full term each time it asks; it passes to nobody when the term is over  *)
(* or its holder gives it up, and never from one worker straight to        *)
(* another.  ShardLease, with its loops, lost answers, crashes and late    *)
(* requests, implements this.                                              *)
(***************************************************************************)
EXTENDS Integers

CONSTANTS Holders, Shards, Nobody, Term, MayLose

VARIABLES
  holder,  \* of each shard
  left     \* of its term

vars == <<holder, left>>

Init ==
  /\ holder = [s \in Shards |-> Nobody]
  /\ left = [s \in Shards |-> 0]

Grant(h, s) ==
  /\ holder[s] \in {Nobody, h}
  /\ holder' = [holder EXCEPT ![s] = h]
  /\ left' = [left EXCEPT ![s] = Term]

GiveUp(h, s) ==
  /\ holder[s] = h
  /\ holder' = [holder EXCEPT ![s] = Nobody]
  /\ left' = [left EXCEPT ![s] = 0]

(* One unit of time, for all terms at once *)
Pass ==
  /\ left' = [s \in Shards |-> IF left[s] > 0 THEN left[s] - 1 ELSE 0]
  /\ holder' = [s \in Shards |-> IF left[s] > 1 THEN holder[s] ELSE Nobody]

(* The registry comes back empty *)
Lose ==
  /\ MayLose
  /\ holder' = [s \in Shards |-> Nobody]
  /\ left' = [s \in Shards |-> 0]

Next ==
  \/ \E h \in Holders, s \in Shards : Grant(h, s) \/ GiveUp(h, s)
  \/ Pass
  \/ Lose

Spec == Init /\ [][Next]_vars
=============================================================================
