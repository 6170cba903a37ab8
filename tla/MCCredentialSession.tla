-------------------------- MODULE MCCredentialSession --------------------------
(* CredentialSession for TLC: sessions and directories are interchangeable.  *)
EXTENDS CredentialSession, TLC

DataSymmetry == Permutations(Sessions) \cup Permutations(Paths)
=============================================================================
