--------------------------- MODULE MCAccountRecord ---------------------------
(* AccountRecord for TLC: callers and own authenticators are interchangeable.*)
EXTENDS AccountRecord, TLC

DataSymmetry == Permutations(Callers) \cup Permutations(OwnGids)
=============================================================================
