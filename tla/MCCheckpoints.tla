----------------------------- MODULE MCCheckpoints -----------------------------
(* Instances of Checkpoints for TLC.                                           *)
EXTENDS Checkpoints, TLC

CONSTANTS e1, a1

\* All sends go to one Pro.
MCOnePro == [e \in Exposures |-> a1]
=============================================================================
