--------------------------- MODULE MCDeviceAccess ---------------------------
(* Instances of DeviceAccess for TLC *)
EXTENDS DeviceAccess, TLC

CONSTANTS p1, p2, p3, s1, s2, w1, w2

(* Two places in one shard and one in another *)
MCShardOf == p1 :> s1 @@ p2 :> s1 @@ p3 :> s2

(* A worker for each shard *)
MCOwned == w1 :> {s1} @@ w2 :> {s2}

(* A worker that has both shards *)
MCOwnsAll == w1 :> {s1, s2}
=============================================================================
