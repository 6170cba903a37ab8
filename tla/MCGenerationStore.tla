-------------------------- MODULE MCGenerationStore --------------------------
(* Instances of GenerationStore for TLC.                                     *)
EXTENDS GenerationStore, TLC

(* Generation ids are random and carry no meaning.                           *)
GenSymmetry == Permutations(Gens)

(* Two states are the same when they differ only in directories nobody can   *)
(* name any more: no action reads them.                                      *)
NamedFiles == [g \in Gens |-> IF g \in NamedGens \cup {txn.gen, txn.prev} THEN gens[g] ELSE EmptyGen]
GenView == <<NamedFiles, active, journal, cur, header, lease, outerLease, txn, outcome, faults>>
=============================================================================
