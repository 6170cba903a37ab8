------------------------- MODULE MCRecoveryReceipts -------------------------
(* Instances of RecoveryReceipts for TLC.                                    *)
EXTENDS RecoveryReceipts, TLC

(* Serials and keys carry no meaning.                                        *)
SerialsAndKeys == Permutations(Serials) \cup Permutations(OuterKeys)
=============================================================================
