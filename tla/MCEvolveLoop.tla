----------------------------- MODULE MCEvolveLoop -----------------------------
(* Instances of EvolveLoop for TLC.                                          *)
EXTENDS EvolveLoop, TLC

CONSTANTS a, b

MechSymmetry == Permutations(Mechs)
=============================================================================
