-------------------------- MODULE CredentialSession --------------------------
(***************************************************************************)
(* Switching a launcher that keeps its session in a directory of token     *)
(* files and in the Windows credential store (the Epic Games launcher;     *)
(* src/internal/basic/epic_new_launcher.go, session_paths.go,              *)
(* credential_session_backup.go).                                          *)
(*                                                                         *)
(* A change records the session it replaces in a recovery file, moves the  *)
(* launcher's browser directories into holders that the recovery file      *)
(* names, installs the files and the credential, and rolls all of it back  *)
(* when a step fails.  Restoring a backup is such a change too, and brings *)
(* back the directories that the restored record holds.                    *)
(***************************************************************************)
EXTENDS Naturals, Sequences, FiniteSets, SequencesExt

CONSTANTS
    Sessions,        \* signed-in sessions
    Paths,           \* the directories of PathListToClear
    RecoveryCopies,  \* complete recovery files that are kept
    None, Torn,      \* nothing there; a directory half removed or half filled
    MaxRecords,      \* bound: recovery files on disk when a change begins
    MaxMishaps       \* bound: failed operations and crashes in one behaviour

ASSUME MarkersAreNoSessions == {None, Torn} \cap Sessions = {} /\ None # Torn
ASSUME CopiesKept == RecoveryCopies \in Nat \ {0}
ASSUME Bounds == MaxRecords \in Nat /\ MaxMishaps \in Nat

Browser == [Paths -> Sessions \cup {None}]
FileStates == Sessions \cup {None, Torn}
Session == [files : FileStates, cred : Sessions \cup {None}]
(* reset: the directories of ResetPaths; held: what their holders contain.   *)
Record == [session : Session, reset : SUBSET Paths, held : Browser, incomplete : BOOLEAN]
Snapshot == [session : Session, browser : Browser]
Kinds == {"none", "switch", "clear", "restore"}
Stages == {"idle", "move", "files", "place", "cred", "write", "bring", "revert", "return", "done"}
Change == [kind : Kinds, pc : Stages, undoing : BOOLEAN, goal : Session, from : Nat, todo : SUBSET Paths,
           restored : SUBSET Paths, failed : BOOLEAN, broken : BOOLEAN,
           before : Snapshot \cup {None}, given : Browser]

VARIABLES
    live,      \* the launcher's token files and credential
    browser,   \* the launcher's browser directories
    records,   \* recovery files, oldest first, with their holders
    op,        \* the change in flight, under BasicService.mu
    owed,      \* history: what there was before the change last cut short
    mishaps

vars == <<live, browser, records, op, owed, mishaps>>

Empty == [p \in Paths |-> None]
SignedOut == [files |-> None, cred |-> None]
Whole(s) == [files |-> s, cred |-> s]
NoChange == [kind |-> "none", pc |-> "idle", undoing |-> FALSE, goal |-> SignedOut, from |-> 0,
             todo |-> {}, restored |-> {}, failed |-> FALSE, broken |-> FALSE, before |-> None, given |-> Empty]
OpIdle == op.pc = "idle"
(* The record of the change in flight is the newest one.                     *)
Mine == Len(records)

Init ==
    /\ live = SignedOut /\ browser = Empty /\ records = <<>>
    /\ op = NoChange /\ owed = None /\ mishaps = 0

Mishap == mishaps < MaxMishaps /\ mishaps' = mishaps + 1
Smooth == UNCHANGED mishaps

(* The user signs in with the launcher itself.                               *)
LauncherRuns(s) ==
    /\ OpIdle
    /\ live' = Whole(s) /\ browser' = [p \in Paths |-> s] /\ owed' = None
    /\ UNCHANGED <<records, op, mishaps>>

-----------------------------------------------------------------------------
(* pruneCredentialSessionRecovery: incomplete records stay, and the newest   *)
(* RecoveryCopies complete ones; a holder goes with its record.              *)
Newer(recs, i) == {j \in i + 1 .. Len(recs) : ~recs[j].incomplete}
Retained(recs) ==
    {i \in DOMAIN recs : recs[i].incomplete \/ Cardinality(Newer(recs, i)) < RecoveryCopies}
Pruned(recs) == LET kept == SetToSortSeq(Retained(recs), <) IN [i \in DOMAIN kept |-> recs[kept[i]]]

(* backupCredentialSession.                                                  *)
Backup ==
    /\ OpIdle /\ Len(records) < MaxRecords
    /\ records' = Pruned(Append(records,
                     [session |-> live, reset |-> {}, held |-> Empty, incomplete |-> FALSE]))
    /\ owed' = None
    /\ UNCHANGED <<live, browser, op, mishaps>>

(* changeCredentialSessionState: the session in place is recorded first.     *)
Begin(kind, goal, from, incomplete) ==
    LET reset == {p \in Paths : browser[p] # None} IN
    /\ OpIdle /\ Len(records) < MaxRecords
    /\ records' = Append(records, [session |-> live, reset |-> reset, held |-> Empty,
                                   incomplete |-> incomplete])
    /\ op' = [NoChange EXCEPT !.kind = kind, !.pc = "move", !.goal = goal, !.from = from, !.todo = reset,
                              !.before = [session |-> live, browser |-> browser],
                              !.given = IF from = 0 THEN Empty ELSE records[from].held]
    /\ owed' = IF kind = "restore" THEN owed ELSE None
    /\ UNCHANGED <<live, browser, mishaps>>

(* Mutant: the record is written as a complete one.                          *)
SwitchUnmarked(s) == Begin("switch", Whole(s), 0, FALSE)
Switch(s) == Begin("switch", Whole(s), 0, TRUE)
ClearSession == Begin("clear", SignedOut, 0, TRUE)
(* Mutant: an interrupted change's record is no backup.                      *)
RestoreOldBackup ==
    \E i \in DOMAIN records :
        /\ ~records[i].incomplete /\ Newer(records, i) = {}
        /\ Begin("restore", records[i].session, i, TRUE)
(* latestCredentialSessionRecovery takes the newest, complete or not.        *)
RestoreBackup == records # <<>> /\ Begin("restore", records[Mine].session, Mine, TRUE)
-----------------------------------------------------------------------------
(* The steps of a change; a failing one starts the rollback.                 *)

Go(pc) == op' = [op EXCEPT !.pc = pc]
RollBack == op' = [op EXCEPT !.pc = "revert", !.undoing = TRUE, !.todo = {}]

(* moveSessionPaths.                                                         *)
MovePath(p) ==
    /\ op.pc = "move" /\ p \in op.todo
    /\ browser' = [browser EXCEPT ![p] = None]
    /\ records' = [records EXCEPT ![Mine].held[p] = browser[p]]
    /\ op' = [op EXCEPT !.todo = @ \ {p}]
    /\ UNCHANGED <<live, owed, mishaps>>

Moved ==
    /\ op.pc = "move" /\ op.todo = {}
    /\ Go("files")
    /\ UNCHANGED <<live, browser, records, owed, mishaps>>

MoveFails ==
    /\ op.pc = "move" /\ op.todo # {} /\ Mishap
    /\ RollBack
    /\ UNCHANGED <<live, browser, records, owed>>

(* installCredentialSessionCredentials, for the new session and, in the      *)
(* rollback, for the previous one.                                           *)
RemoveFiles ==
    /\ op.pc = "files"
    /\ live' = [live EXCEPT !.files = Torn] /\ Go("place")
    /\ UNCHANGED <<browser, records, owed, mishaps>>

PlaceFiles ==
    /\ op.pc = "place"
    /\ live' = [live EXCEPT !.files = op.goal.files] /\ Go("cred")
    /\ UNCHANGED <<browser, records, owed, mishaps>>

DeleteCredential ==
    /\ op.pc = "cred"
    /\ live' = [live EXCEPT !.cred = None] /\ Go("write")
    /\ UNCHANGED <<browser, records, owed, mishaps>>

(* After it, a restore brings the record's directories back, and a rollback  *)
(* the ones that were moved away.                                            *)
Installed ==
    op' = IF op.undoing THEN [op EXCEPT !.pc = "return", !.todo = records[Mine].reset]
          ELSE IF op.kind = "restore" THEN [op EXCEPT !.pc = "bring", !.todo = records[op.from].reset]
          ELSE [op EXCEPT !.pc = "done"]

WriteCredential ==
    /\ op.pc = "write"
    /\ live' = [live EXCEPT !.cred = op.goal.cred]
    /\ Installed
    /\ UNCHANGED <<browser, records, owed, mishaps>>

InstallFails ==
    /\ op.pc \in {"files", "place", "cred", "write"} /\ Mishap
    /\ IF op.undoing
       THEN op' = [op EXCEPT !.pc = "return", !.todo = records[Mine].reset, !.broken = TRUE]
       ELSE RollBack
    /\ UNCHANGED <<live, browser, records, owed>>

(* restoreSessionPathsTracked goes through all of them, whatever fails.      *)
Returns(p, i) == records[i].held[p] # None /\ browser[p] = None
MoveBack(p, i) ==
    /\ browser' = [browser EXCEPT ![p] = records[i].held[p]]
    /\ records' = [records EXCEPT ![i].held[p] = None]

BringBack(p) ==
    /\ op.pc = "bring" /\ p \in op.todo
    /\ \/ /\ Returns(p, op.from) /\ MoveBack(p, op.from) /\ Smooth
          /\ op' = [op EXCEPT !.todo = @ \ {p}, !.restored = @ \cup {p}]
       \/ /\ records[op.from].held[p] = None /\ UNCHANGED <<browser, records>> /\ Smooth
          /\ op' = [op EXCEPT !.todo = @ \ {p}]
       \/ /\ Returns(p, op.from) /\ Mishap /\ UNCHANGED <<browser, records>>
          /\ op' = [op EXCEPT !.todo = @ \ {p}, !.failed = TRUE]
    /\ UNCHANGED <<live, owed>>

BroughtBack ==
    /\ op.pc = "bring" /\ op.todo = {}
    /\ op' = IF ~op.failed THEN [op EXCEPT !.pc = "done"]
             ELSE [op EXCEPT !.pc = "revert", !.undoing = TRUE]
    /\ UNCHANGED <<live, browser, records, owed, mishaps>>

-----------------------------------------------------------------------------
(* The rollback.                                                             *)

(* Mutant: it goes to the holder of the change in flight.                    *)
RevertIntoOwnHolder(p) ==
    /\ op.pc = "revert" /\ p \in op.restored
    /\ records' = [records EXCEPT ![Mine].held[p] = browser[p]]
    /\ browser' = [browser EXCEPT ![p] = None]
    /\ op' = [op EXCEPT !.restored = @ \ {p}]
    /\ UNCHANGED <<live, owed, mishaps>>

(* revertRestoredSessionPaths: what was brought back goes to its holder.     *)
RevertPath(p) ==
    /\ op.pc = "revert" /\ p \in op.restored
    /\ \/ /\ records' = [records EXCEPT ![op.from].held[p] = browser[p]]
          /\ browser' = [browser EXCEPT ![p] = None]
          /\ op' = [op EXCEPT !.restored = @ \ {p}] /\ Smooth
       \/ /\ Mishap /\ UNCHANGED <<browser, records>>
          /\ op' = [op EXCEPT !.restored = @ \ {p}, !.broken = TRUE]
    /\ UNCHANGED <<live, owed>>

(* Mutant: what a failed restore brought back is left where it is.           *)
RevertNothing ==
    /\ op.pc = "revert"
    /\ op' = [op EXCEPT !.pc = "files", !.goal = records[Mine].session]
    /\ UNCHANGED <<live, browser, records, owed, mishaps>>

Reverted ==
    /\ op.pc = "revert" /\ op.restored = {}
    /\ op' = [op EXCEPT !.pc = "files", !.goal = records[Mine].session]
    /\ UNCHANGED <<live, browser, records, owed, mishaps>>

ReturnPath(p) ==
    /\ op.pc = "return" /\ p \in op.todo
    /\ \/ /\ Returns(p, Mine) /\ MoveBack(p, Mine) /\ Smooth
          /\ op' = [op EXCEPT !.todo = @ \ {p}]
       \/ /\ records[Mine].held[p] = None /\ UNCHANGED <<browser, records>> /\ Smooth
          /\ op' = [op EXCEPT !.todo = @ \ {p}]
       \/ /\ records[Mine].held[p] # None /\ UNCHANGED <<browser, records>>
          /\ IF browser[p] = None THEN Mishap ELSE Smooth
          /\ op' = [op EXCEPT !.todo = @ \ {p}, !.broken = TRUE]
    /\ UNCHANGED <<live, owed>>

(* The caller gets the error; only if the rollback had no error of its own   *)
(* the record becomes final and its holders are removed.                     *)
RolledBack ==
    /\ op.pc = "return" /\ op.todo = {}
    /\ op' = NoChange
    /\ IF ~op.broken
       THEN /\ owed' = None
            /\ \/ records' = [records EXCEPT ![Mine].incomplete = FALSE, ![Mine].held = Empty] /\ Smooth
               \/ records' = [records EXCEPT ![Mine].held = Empty] /\ Mishap
       ELSE owed' = op.before /\ UNCHANGED records /\ Smooth
    /\ UNCHANGED <<live, browser>>

(* The change is in place: the records become final, as far as they can be   *)
(* written, and old ones are pruned.                                         *)
FinishChange ==
    /\ op.pc = "done" /\ op.kind # "restore"
    /\ \/ records' = Pruned([records EXCEPT ![Mine].incomplete = FALSE]) /\ Smooth
       \/ records' = Pruned(records) /\ Mishap
    /\ op' = NoChange /\ owed' = None
    /\ UNCHANGED <<live, browser>>

FinishRestore ==
    /\ op.pc = "done" /\ op.kind = "restore"
    /\ \/ /\ records' = Pruned([records EXCEPT ![Mine].incomplete = FALSE, ![op.from].incomplete = FALSE])
          /\ Smooth
       \/ /\ Mishap
          /\ \E i \in {Mine, op.from} : records' = Pruned([records EXCEPT ![i].incomplete = FALSE])
    /\ op' = NoChange /\ owed' = None
    /\ UNCHANGED <<live, browser>>

(* The process ends in the middle of a change.                               *)
Crash ==
    /\ ~OpIdle /\ Mishap
    /\ op' = NoChange /\ owed' = op.before
    /\ UNCHANGED <<live, browser, records>>

-----------------------------------------------------------------------------
Next ==
    \/ \E s \in Sessions : LauncherRuns(s) \/ Switch(s)
    \/ Backup \/ ClearSession \/ RestoreBackup
    \/ \E p \in Paths : MovePath(p) \/ BringBack(p) \/ RevertPath(p) \/ ReturnPath(p)
    \/ Moved \/ MoveFails \/ RemoveFiles \/ PlaceFiles \/ DeleteCredential \/ WriteCredential
    \/ InstallFails \/ BroughtBack \/ Reverted \/ RolledBack \/ FinishChange \/ FinishRestore
    \/ Crash

Spec == Init /\ [][Next]_vars

-----------------------------------------------------------------------------
(* Types; a holder holds only a directory that its record names, and a       *)
(* restore reads a record that is there.                                     *)
TypeOK ==
    /\ live \in Session /\ browser \in Browser
    /\ records \in Seq(Record)
    /\ \A i \in DOMAIN records : \A p \in Paths \ records[i].reset : records[i].held[p] = None
    /\ op \in Change /\ op.from <= Len(records) /\ (op.kind = "restore" <=> op.from # 0)
    /\ owed \in Snapshot \cup {None}
    /\ mishaps \in 0..MaxMishaps

(* A change whose rollback reports no error leaves the session, the browser  *)
(* directories and the holders of the backup it was restoring as they were   *)
(* (credential_session_policy_test.go:58-100, for the whole of a change).    *)
FailedChangeIsUndone ==
    [][op.pc = "return" /\ RolledBack /\ ~op.broken
        => /\ [session |-> live', browser |-> browser'] = op.before
           /\ op.from # 0 => records'[op.from].held = op.given]_vars

(* From the first step of a change on, and after it was cut short by a crash *)
(* or by a failed rollback, until something else is done, the newest record  *)
(* holds the session there was before, marked as unfinished so that pruning  *)
(* leaves it alone, and each browser directory is in its place or in a       *)
(* holder of that record (epic_new_launcher.go:501-504, 701-729).            *)
Holds(r, before) ==
    /\ r.incomplete /\ r.session = before.session
    /\ \A p \in Paths : before.browser[p] \in {browser[p], r.held[p]}
ReplacedIsRecoverable ==
    /\ op.pc \notin {"idle", "done"} => Holds(records[Mine], op.before)
    /\ OpIdle /\ owed # None => Holds(records[Mine], owed)

(* Restoring the backup after an interrupted change gives back the files and *)
(* the credential there were before it.                                      *)
RestoreUndoesInterrupted ==
    [][op.kind = "restore" /\ op.pc = "done" /\ op'.pc = "idle" /\ owed' = None /\ owed # None
        => live' = owed.session]_vars
=============================================================================
