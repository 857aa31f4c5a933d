---------------------------- MODULE MCShardLease ----------------------------
(* Instances of ShardLease for TLC *)
EXTENDS ShardLease, TLC

CONSTANTS w1, w2, s1, s2

(* Two workers set up with an overlapping list, in opposite orders *)
MCOverlap == w1 :> <<s1, s2>> @@ w2 :> <<s2, s1>>

(* One worker of two shards *)
MCAlone == w1 :> <<s1, s2>>
=============================================================================
