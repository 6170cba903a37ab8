---------------------------- MODULE MCSavedAccounts ----------------------------
(***************************************************************************)
(* SavedAccounts for TLC: accounts and session contents are                *)
(* interchangeable.                                                        *)
(***************************************************************************)
EXTENDS SavedAccounts, TLC

DataSymmetry == Permutations(Accounts) \cup Permutations(Values) \cup Permutations(Keys)
                \cup Permutations(Passwords)
=============================================================================
