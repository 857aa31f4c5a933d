--------------------------- MODULE MCAlertReplay ---------------------------
(* Instances of AlertReplay for TLC *)
EXTENDS AlertReplay
=============================================================================
