--------------------------- MODULE MCAlertDispatch ---------------------------
(* Instances of AlertDispatch for TLC *)
EXTENDS AlertDispatch

CONSTANTS s1, s2, s3
=============================================================================
