--------------------------- MODULE MCRunLifecycle ---------------------------
(* Instances of RunLifecycle for TLC: every job belongs to the one run.    *)
EXTENDS RunLifecycle, TLC

CONSTANTS r1, j1, j2, w1, w2

MCRunOf == [j \in Jobs |-> r1]

\* A loop may be suspended anywhere.
MCAnywhere == Pc
=============================================================================
