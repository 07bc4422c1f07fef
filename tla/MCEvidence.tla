------------------------------ MODULE MCEvidence ------------------------------
(* Instances of Evidence for TLC.                                            *)
EXTENDS Evidence, TLC

CONSTANTS i1, i2, eA, eB

ProcSymmetry == Permutations(Procs)

MCArmOf == [e \in Exposures |-> IF e = eB THEN "B" ELSE "A"]

Item(rec, exp, source, routing, delivered, ret) ==
    [rec |-> rec, exposure |-> exp, source |-> source, routing |-> routing,
     delivered |-> delivered, ret |-> ret]

\* A flow that reports under the winner, one that reports by the natural pair,
\* and reports under the exposures.
MCItems == {
    Item("winner", NoExposure, "flow", "", "unknown", "unresolved"),
    Item("winner", NoExposure, "flow", "real", "unknown", "yes"),
    Item("winner", NoExposure, "flow", "", "bounced", "unresolved"),
    Item("winner", NoExposure, "flow", "test", "unknown", "no"),
    Item("winner", eA, "flow", "", "unknown", "yes"),
    Item("natural", NoExposure, "manual", "real", "unknown", "no"),
    Item(eA, eA, "amplitude", "", "unknown", "yes"),
    Item(eB, eB, "amplitude", "", "unknown", "no"),
    Item(eA, eA, "iterable", "", "bounced", "unresolved") }

\* Both exposures linked to the winner, and one registered without it, which
\* claims another routing.
MCRegistrations == {
    [exposure |-> eA, named |-> TRUE, routing |-> "real"],
    [exposure |-> eB, named |-> TRUE, routing |-> "real"],
    [exposure |-> eA, named |-> FALSE, routing |-> "test"] }
=============================================================================
