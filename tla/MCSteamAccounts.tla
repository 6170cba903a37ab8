--------------------------- MODULE MCSteamAccounts ---------------------------
(* SteamAccounts for TLC: accounts are interchangeable.                      *)
EXTENDS SteamAccounts, TLC

AccountSymmetry == Permutations(Accounts)
=============================================================================
