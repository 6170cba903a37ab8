------------------------------ MODULE MCSignIn ------------------------------
(* Instances of SignIn for TLC.                                              *)
EXTENDS SignIn, TLC

(* Handles and capabilities are random, and nothing orders the goroutines.   *)
SignInSymmetry == Permutations(Handles) \cup Permutations(Managers)
                  \cup Permutations(Calls) \cup Permutations(Tokens)

(* Two states are the same when they differ only in what a closed entry was  *)
(* bound to, or in the history of a session that no manager lists: no action *)
(* and no property reads either.                                             *)
LiveEntries == [h \in Handles |-> IF entry[h].closed
                  THEN [NoEntry EXCEPT !.mgr = entry[h].mgr, !.busy = entry[h].busy,
                                       !.request = entry[h].request, !.tokens = entry[h].tokens]
                  ELSE entry[h]]
SignInView == <<LiveEntries, sessions, accounts, closed, flight, req, gen, locked, view, mgr, ops, bound,
                sweep, ending, lock, carried \cap UNION {sessions[m] : m \in Managers}>>
=============================================================================
