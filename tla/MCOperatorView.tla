--------------------------- MODULE MCOperatorView ---------------------------
(* Instances of OperatorView for TLC *)
EXTENDS OperatorView, TLC

CONSTANTS w1, w2, s1, s2, s3, d1

(* Two shards of one worker and one of the other *)
MCOwner == s1 :> w1 @@ s2 :> w1 @@ s3 :> w2

(* Sessions or a broadcast: the actions of the one neither read nor write   *)
(* what the other's do, except for process, which is free in both           *)
NoSession == \A a \in Sessions : at[a] = "none"
NoReport ==
  (\A s \in Shards : report[s] = "none") /\ ~up /\ (\A d \in Dashboards : ~dash[d].on)

MCNext ==
  \/ NoReport /\ PresenceNext
  \/ WorkerNext
  \/ NoSession /\ ReportNext

MCSpec == Init /\ [][MCNext]_vars /\ Fairness
=============================================================================
