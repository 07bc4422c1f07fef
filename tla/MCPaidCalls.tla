---------------------------- MODULE MCPaidCalls ----------------------------
(* Instances of PaidCalls for TLC.                                         *)
EXTENDS PaidCalls, TLC

CONSTANTS r1, j1, j2, w1, w2, k1, k2, k3

MCRunOf == [j \in Jobs |-> r1]

\* Two Pros: the first makes a call in each stage, the second only in the first.
MCJobOf == [k \in Keys |-> IF k = k3 THEN j2 ELSE j1]
MCStageOf == [k \in Keys |-> IF k = k2 THEN 2 ELSE 1]

Anywhere == Pc
=============================================================================
