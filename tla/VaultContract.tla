---------------------------- MODULE VaultContract ----------------------------
(***************************************************************************)
(* What the vault promises its callers, without generations, journals or   *)
(* files: a state (a header and the records) that changes as a whole.      *)
(* "durable" is what a restart finds; "visible" is what the open Vault     *)
(* works on.  A step of the store installs one complete successor of the   *)
(* visible state, never a part of one.                                     *)
(***************************************************************************)
CONSTANTS Headers, Contents, Empty, None, Damaged

Snapshots == [header : Headers, records : Contents]

VARIABLES visible, durable
contract == <<visible, durable>>

Init == visible = None /\ durable = None

(* A new vault holds no record.                                              *)
CreateVault(h) ==
    /\ durable = None /\ visible = None
    /\ durable' = [header |-> h, records |-> Empty]
    /\ visible' \in {None, durable'}

(* One operation changes the header or the records, not both; its caller may *)
(* still see the old state when the last step of the write failed.           *)
Install(next) ==
    /\ visible \in Snapshots
    /\ next.header = visible.header \/ next.records = visible.records
    /\ durable' = next
    /\ visible' \in {visible, next}

Reopen == visible = None /\ durable # None /\ visible' = durable /\ UNCHANGED durable

Exit == visible' = None /\ UNCHANGED durable

(* The open Vault loses sight of its state until the next start.             *)
Blind == visible \in Snapshots /\ visible' = Damaged /\ UNCHANGED durable

Next ==
    \/ \E h \in Headers : CreateVault(h)
    \/ \E next \in Snapshots : Install(next)
    \/ Reopen \/ Exit \/ Blind

Spec == Init /\ [][Next]_contract
=============================================================================
