------------------------------- MODULE MCHandoff -------------------------------
(* Instances of Handoff for TLC.                                               *)
EXTENDS Handoff, TLC

CONSTANTS p1, p2, w1, v1

\* One Pro gets a winner that ships, the other one that needs the operator or
\* never ships.
MCKinds == p1 :> {"plain"} @@ p2 :> {"degraded", "call"}
=============================================================================
