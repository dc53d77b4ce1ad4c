------------------------------ MODULE MCRecord ------------------------------
(* An instance of Record with every resource of RecordKinds.               *)
EXTENDS Record, RecordKinds, TLC

CONSTANTS a, b, s1, s2

MCValues == {a, b}
MCSecrets == {s1, s2}

Symmetry == Permutations(MCValues) \cup Permutations(MCSecrets)
=============================================================================
