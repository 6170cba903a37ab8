--------------------------- MODULE MCVaultFactors ---------------------------
(* VaultFactors for TLC.                                                     *)
EXTENDS VaultFactors
=============================================================================
