----------------------------- MODULE MCSendPoller -----------------------------
(* Instances of SendPoller for TLC.                                          *)
EXTENDS SendPoller

CONSTANTS m1, f1
=============================================================================
