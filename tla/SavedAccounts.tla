---------------------------- MODULE SavedAccounts ----------------------------
(***************************************************************************)
(* Saved account sessions and the app password (src/internal/security).    *)
(*                                                                         *)
(* A saved session is a plain directory or an encrypted blob; the flag     *)
(* SavedAccountDataEncrypted in security.json says which of them is live.  *)
(* Turning encryption on or off copies every session across, moves the     *)
(* Steam Guard outer layer with it, flips the flag and removes the old     *)
(* copies, as separate disk writes.  Sessions that do not extract are      *)
(* quarantined.  "op" is the security operation in flight, "save" what     *)
(* BasicService does under its own mutex at the same time; nothing but the *)
(* settings page keeps the two apart, so Overlap says which overlaps a     *)
(* run allows.                                                             *)
(***************************************************************************)
EXTENDS Naturals, Sequences, SequencesExt

CONSTANTS
    Accounts,    \* unique ids of one platform
    Values,      \* contents of a saved session
    Keys,        \* random master keys, one per app password set
    Passwords,   \* app passwords
    None,        \* an absent file, directory or key
    Torn,        \* a directory that was written or removed half way
    Wiped,       \* what a key buffer holds after wipeBytes
    Overlap,     \* what may run beside a security operation: "lock", "save"
    MaxMishaps   \* failed file operations and crashes in one behaviour

ASSUME MarkersAreNoData ==
    /\ {None, Torn} \cap Values = {} /\ None # Torn
    /\ {None, Wiped} \cap Keys = {} /\ None # Wiped
    /\ None \notin Passwords
ASSUME OverlapKinds == Overlap \subseteq {"lock", "save"}
ASSUME MishapBound == MaxMishaps \in Nat

SecurityFile == [password : Passwords, key : Keys, encrypted : BOOLEAN]
Blob == [value : Values \cup {Torn}, key : Keys \cup {Wiped}]
(* A directory below Quarantine: the accounts its report lists, the blobs    *)
(* moved there and the key recovery.json wraps, None until it is written.    *)
Report == [accounts : SUBSET Accounts, blobs : [Accounts -> Blob \cup {None}],
           opens : Keys \cup {None}]

ASSUME NoneIsNoFile == None \notin SecurityFile /\ None \notin Blob

OpKinds == {"none", "enable", "reenable", "disable", "remove", "change"}
OpStages == {"idle", "scan", "blobs", "raise", "extract", "quarantine", "lower", "unraise",
             "sweep", "undo", "clean", "unset", "rewrap", "store"}
Op == [kind : OpKinds, pc : OpStages, password : Passwords \cup {None}, key : Keys \cup {Wiped, None},
       shared : BOOLEAN, new : Passwords \cup {None}, accounts : SUBSET Accounts,
       done : SUBSET Accounts, failed : SUBSET Accounts, disabled : BOOLEAN]
SaveStages == {"idle", "staged", "install", "dropplain", "enlist", "purge"}
SaveOp == [pc : SaveStages, account : Accounts \cup {None}, value : Values \cup {None},
           encrypted : BOOLEAN, backup : Values \cup {None, Torn}]

VARIABLES
    file,        \* disk: security.json
    plain,       \* disk: the account's directory below LoginCache
    aside,       \* disk: the copies commitAccountSaveDirectory made of what it was replacing
    blob,        \* disk: the account's encrypted blob
    quarantine,  \* disk: the quarantines, oldest first
    listed,      \* disk: the accounts in ids.json
    outer,       \* disk: the outer key the Steam Guard vault is under
    recovery,    \* disk: the app password that vault's recovery wrapper opens with
    master,      \* memory: manager.masterKey
    op, save,    \* operations in flight
    saved,       \* history: the session last saved for each account
    imported,    \* history: accounts whose session came back from quarantine since
    mishaps      \* failures and crashes so far

disk == <<file, plain, aside, blob, quarantine, listed>>
steam == <<outer, recovery>>
history == <<saved, imported>>
vars == <<file, plain, aside, blob, quarantine, listed, outer, recovery, master, op, save,
          saved, imported, mishaps>>

NoOp == [kind |-> "none", pc |-> "idle", password |-> None, key |-> None, shared |-> FALSE,
         new |-> None, accounts |-> {}, done |-> {}, failed |-> {}, disabled |-> FALSE]
NoSave == [pc |-> "idle", account |-> None, value |-> None, encrypted |-> FALSE, backup |-> None]
Nothing == [a \in Accounts |-> None]

Encrypted == file # None /\ file.encrypted
AppLocked == file # None /\ master = None
OpIdle == op.pc = "idle"
SaveIdle == save.pc = "idle"
(* lifecycleMu, held by changePassword and removeAppPassword throughout;     *)
(* Enable and Disable called by themselves do not take it.                   *)
LifecycleFree == op.kind \in {"none", "enable", "disable"}

(* Security operations come from the settings page, one at a time, and the   *)
(* page is behind the lock screen.                                           *)
SettingsPage == OpIdle /\ ~AppLocked /\ (SaveIdle \/ "save" \in Overlap)

Mishap == mishaps < MaxMishaps /\ mishaps' = mishaps + 1
Smooth == UNCHANGED mishaps
(* An operation fails, and so does the call that should have rolled it back. *)
TwoMishaps == mishaps + 2 <= MaxMishaps /\ mishaps' = mishaps + 2

Init ==
    /\ file = None /\ plain = Nothing /\ aside = [a \in Accounts |-> {}] /\ blob = Nothing
    /\ quarantine = <<>> /\ listed = {}
    /\ outer = None /\ recovery = None /\ master = None
    /\ op = NoOp /\ save = NoSave
    /\ saved = Nothing /\ imported = {} /\ mishaps = 0

(* RemoveAllWithRetry on a directory whose error is dropped.                 *)
RemovePlain(a) ==
    \/ plain' = [plain EXCEPT ![a] = None] /\ Smooth
    \/ plain[a] # None /\ Mishap /\ \E left \in {plain[a], Torn} : plain' = [plain EXCEPT ![a] = left]
RemoveBlob(a) ==
    \/ blob' = [blob EXCEPT ![a] = None] /\ Smooth
    \/ blob[a] # None /\ Mishap /\ UNCHANGED blob

(* replaceMasterKey wipes the buffer it replaces.  EnableSavedAccountEncryp- *)
(* tion goes on using the very buffer it handed over.                        *)
ReplaceMasterKey(key) == master' = key
WipedBuffer(o) == IF o.shared THEN [o EXCEPT !.key = Wiped, !.shared = FALSE] ELSE o

-----------------------------------------------------------------------------
(* The Steam Guard hook (steamguard/service.go lifecycleHook), as the vault  *)
(* answers it: another key than the layer's own is refused.                  *)

OuterAccepts(key) == outer \in {None, key}
EnableOuter(key, password) ==
    /\ outer' = key
    /\ recovery' = IF recovery = None THEN password ELSE recovery
DisableOuter == outer' = None /\ recovery' = None

-----------------------------------------------------------------------------
(* The app password: setAppPassword, unlockApp, lock.                        *)

Present(blobs) == {blobs[a] : a \in Accounts} \ {None}
Quarantined == UNION {Present(r.blobs) : r \in ToSet(quarantine)}
UsedKeys == {b.key : b \in Present(blob) \cup Quarantined} \cup {r.opens : r \in ToSet(quarantine)}
            \cup {outer}

SetAppPassword(pw) ==
    /\ SettingsPage /\ file = None
    /\ \E key \in Keys \ UsedKeys :
          /\ file' = [password |-> pw, key |-> key, encrypted |-> FALSE]
          /\ ReplaceMasterKey(key)
    /\ UNCHANGED <<plain, aside, blob, quarantine, listed, outer, recovery, op, save,
                   saved, imported, mishaps>>

(* With encryption on, unlocking first enforces the outer layer.             *)
UnlockApp ==
    /\ OpIdle \/ "lock" \in Overlap
    /\ LifecycleFree /\ file # None
    /\ IF file.encrypted
       THEN OuterAccepts(file.key) /\ EnableOuter(file.key, file.password)
       ELSE UNCHANGED steam
    /\ ReplaceMasterKey(file.key) /\ op' = WipedBuffer(op)
    /\ UNCHANGED <<file, plain, aside, blob, quarantine, listed, save, saved, imported, mishaps>>

(* The user, sleep, a locked screen or the end of the session.               *)
Lock ==
    /\ OpIdle \/ "lock" \in Overlap
    /\ LifecycleFree /\ file # None
    /\ ReplaceMasterKey(None) /\ op' = WipedBuffer(op)
    /\ UNCHANGED <<disk, steam, save, history, mishaps>>

-----------------------------------------------------------------------------
(* changePassword.                                                           *)

ChangePassword(new) ==
    /\ SettingsPage /\ file # None
    /\ op' = [NoOp EXCEPT !.kind = "change", !.pc = "rewrap", !.new = new,
                          !.password = file.password, !.key = file.key]
    /\ UNCHANGED <<disk, steam, master, save, history, mishaps>>

Rewrap ==
    /\ op.pc = "rewrap"
    /\ \/ /\ file.encrypted => recovery \in {None, op.password}
          /\ recovery' = IF file.encrypted /\ recovery # None THEN op.new ELSE recovery
          /\ op' = [op EXCEPT !.pc = "store"] /\ Smooth
       \/ /\ file.encrypted /\ recovery \notin {None, op.password}
          /\ op' = NoOp /\ UNCHANGED recovery /\ Smooth
       \/ /\ file.encrypted /\ recovery # None /\ Mishap
          /\ op' = NoOp /\ UNCHANGED recovery
    /\ UNCHANGED <<disk, outer, master, save, history>>

StorePassword ==
    /\ op.pc = "store"
    /\ file' = [file EXCEPT !.password = op.new]
    /\ ReplaceMasterKey(op.key) /\ op' = NoOp
    /\ UNCHANGED <<plain, aside, blob, quarantine, listed, steam, save, history, mishaps>>

StorePasswordFails ==
    /\ op.pc = "store"
    /\ \/ /\ Mishap
          /\ recovery' = IF file.encrypted /\ recovery # None THEN op.password ELSE recovery
       \/ TwoMishaps /\ UNCHANGED recovery
    /\ op' = NoOp
    /\ UNCHANGED <<disk, outer, master, save, history>>

-----------------------------------------------------------------------------
(* EnableSavedAccountEncryption.                                             *)

Enable ==
    /\ SettingsPage /\ file # None
    /\ ReplaceMasterKey(file.key)
    /\ op' = [NoOp EXCEPT !.kind = "enable", !.pc = "scan", !.password = file.password,
                          !.key = file.key, !.shared = TRUE]
    /\ UNCHANGED <<disk, steam, save, history, mishaps>>

ScanPlain ==
    /\ op.pc = "scan" /\ op.kind \in {"enable", "reenable"}
    /\ op' = IF file.encrypted THEN NoOp
             ELSE [op EXCEPT !.pc = "blobs", !.accounts = {a \in listed : plain[a] # None}]
    /\ UNCHANGED <<disk, steam, master, save, history, mishaps>>

WriteBlob(a) ==
    /\ op.pc = "blobs" /\ a \in op.accounts \ op.done /\ plain[a] # None
    /\ blob' = [blob EXCEPT ![a] = [value |-> plain[a], key |-> op.key]]
    /\ op' = [op EXCEPT !.done = @ \cup {a}]
    /\ UNCHANGED <<file, plain, aside, quarantine, listed, steam, master, save, history, mishaps>>

(* The blobs written so far are removed again, errors ignored.               *)
UndoBlobs ==
    /\ \E left \in SUBSET op.done :
          blob' = [a \in Accounts |-> IF a \in op.done \ left THEN None ELSE blob[a]]
    /\ op' = NoOp

WriteBlobFails(a) ==
    /\ op.pc = "blobs" /\ a \in op.accounts \ op.done
    /\ IF plain[a] = None THEN Smooth ELSE Mishap
    /\ UndoBlobs
    /\ UNCHANGED <<file, plain, aside, quarantine, listed, steam, master, save, history>>

RaiseOuter ==
    /\ op.pc = "blobs" /\ op.done = op.accounts
    /\ OuterAccepts(op.key)
    /\ EnableOuter(op.key, op.password)
    /\ op' = [op EXCEPT !.pc = "raise"]
    /\ UNCHANGED <<disk, master, save, history, mishaps>>

RaiseOuterFails ==
    /\ op.pc = "blobs" /\ op.done = op.accounts
    /\ IF OuterAccepts(op.key) THEN Mishap ELSE Smooth
    /\ UndoBlobs
    /\ UNCHANGED <<file, plain, aside, quarantine, listed, steam, master, save, history>>

RaiseFlag ==
    /\ op.pc = "raise"
    /\ file' = [file EXCEPT !.encrypted = TRUE]
    /\ op' = [op EXCEPT !.pc = "sweep", !.done = {}]
    /\ UNCHANGED <<plain, aside, blob, quarantine, listed, steam, master, save, history, mishaps>>

RaiseFlagFails ==
    /\ op.pc = "raise"
    /\ (Mishap /\ DisableOuter) \/ (TwoMishaps /\ UNCHANGED steam)
    /\ UndoBlobs
    /\ UNCHANGED <<file, plain, aside, quarantine, listed, master, save, history>>

(* Enable removes the plain directories it encrypted, best effort; a Disable *)
(* that failed removes the ones it may have extracted.                       *)
SweepPlain(a) ==
    /\ op.pc \in {"sweep", "undo"} /\ a \in op.accounts \ op.done
    /\ RemovePlain(a)
    /\ op' = [op EXCEPT !.done = @ \cup {a}]
    /\ UNCHANGED <<file, aside, blob, quarantine, listed, steam, master, save, history>>

Swept ==
    /\ op.pc \in {"sweep", "undo"} /\ op.done = op.accounts
    /\ op' = NoOp
    /\ UNCHANGED <<disk, steam, master, save, history, mishaps>>

-----------------------------------------------------------------------------
(* DisableSavedAccountEncryption, and removeAppPassword around it.           *)

Disable ==
    /\ SettingsPage /\ file # None
    /\ op' = [NoOp EXCEPT !.kind = "disable", !.pc = "scan", !.password = file.password,
                          !.key = file.key]
    /\ UNCHANGED <<disk, steam, master, save, history, mishaps>>

RemoveAppPassword ==
    /\ SettingsPage /\ file # None
    /\ ReplaceMasterKey(file.key)
    /\ op' = [NoOp EXCEPT !.kind = "remove", !.pc = IF file.encrypted THEN "scan" ELSE "unset",
                          !.password = file.password, !.key = file.key]
    /\ UNCHANGED <<disk, steam, save, history, mishaps>>

ScanBlobs ==
    /\ op.pc = "scan" /\ op.kind \in {"disable", "remove"}
    /\ op' = IF ~file.encrypted THEN NoOp
             ELSE [op EXCEPT !.pc = "extract", !.accounts = {a \in listed : blob[a] # None}]
    /\ UNCHANGED <<disk, steam, master, save, history, mishaps>>

Decrypts(a, key) == blob[a] # None /\ blob[a].key = key

Extract(a) ==
    /\ op.pc = "extract" /\ a \in op.accounts \ op.done
    /\ Decrypts(a, op.key)
    /\ plain' = [plain EXCEPT ![a] = blob[a].value]
    /\ op' = [op EXCEPT !.done = @ \cup {a}]
    /\ UNCHANGED <<file, aside, blob, quarantine, listed, steam, master, save, history, mishaps>>

ExtractFails(a) ==
    /\ op.pc = "extract" /\ a \in op.accounts \ op.done
    /\ \/ ~Decrypts(a, op.key) /\ UNCHANGED plain /\ Smooth
       \/ /\ Decrypts(a, op.key) /\ Mishap
          /\ \E left \in {plain[a], None, Torn} : plain' = [plain EXCEPT ![a] = left]
    /\ op' = [op EXCEPT !.done = @ \cup {a}, !.failed = @ \cup {a}]
    /\ UNCHANGED <<file, aside, blob, quarantine, listed, steam, master, save, history>>

Extracted ==
    /\ op.pc = "extract" /\ op.done = op.accounts
    /\ op' = [op EXCEPT !.pc = IF op.failed = {} THEN "lower" ELSE "quarantine", !.done = {}]
    /\ quarantine' = IF op.failed = {} THEN quarantine
                     ELSE Append(quarantine, [accounts |-> op.failed, blobs |-> Nothing, opens |-> None])
    /\ UNCHANGED <<file, plain, aside, blob, listed, steam, master, save, history, mishaps>>

Newest == Len(quarantine)

(* Mutant: the blob that did not extract is deleted, not moved.              *)
QuarantineDrops(a) ==
    /\ op.pc = "quarantine" /\ a \in op.failed \ op.done
    /\ blob' = [blob EXCEPT ![a] = None]
    /\ op' = [op EXCEPT !.done = @ \cup {a}]
    /\ UNCHANGED <<file, plain, aside, quarantine, listed, steam, master, save, history, mishaps>>

(* The rename of a blob into the quarantine; its error is ignored.           *)
Quarantine(a) ==
    /\ op.pc = "quarantine" /\ a \in op.failed \ op.done
    /\ \/ /\ quarantine' = [quarantine EXCEPT ![Newest].blobs[a] = blob[a]]
          /\ blob' = [blob EXCEPT ![a] = None] /\ Smooth
       \/ blob[a] # None /\ Mishap /\ UNCHANGED <<blob, quarantine>>
    /\ op' = [op EXCEPT !.done = @ \cup {a}]
    /\ UNCHANGED <<file, plain, aside, listed, steam, master, save, history>>

(* report.json and recovery.json, then the accounts leave ids.json, where an *)
(* error is ignored.                                                         *)
WriteReport ==
    /\ op.pc = "quarantine" /\ op.done = op.failed
    /\ quarantine' = [quarantine EXCEPT ![Newest].opens = op.key]
    /\ op' = [op EXCEPT !.pc = "lower", !.done = {}]
    /\ \/ listed' = listed \ op.failed /\ Smooth
       \/ Mishap /\ \E kept \in SUBSET op.failed \ {{}} : listed' = (listed \ op.failed) \cup kept
    /\ UNCHANGED <<file, plain, aside, blob, steam, master, save, history>>

Undo == op' = [op EXCEPT !.pc = "undo", !.done = {}]

WriteReportFails ==
    /\ op.pc = "quarantine" /\ op.done = op.failed /\ Mishap
    /\ Undo
    /\ UNCHANGED <<disk, steam, master, save, history>>

LowerOuter ==
    /\ op.pc = "lower" /\ OuterAccepts(op.key)
    /\ DisableOuter
    /\ op' = [op EXCEPT !.pc = "unraise"]
    /\ UNCHANGED <<disk, master, save, history, mishaps>>

LowerOuterFails ==
    /\ op.pc = "lower"
    /\ IF OuterAccepts(op.key) THEN Mishap ELSE Smooth
    /\ Undo
    /\ UNCHANGED <<disk, steam, master, save, history>>

LowerFlag ==
    /\ op.pc = "unraise"
    /\ file' = [file EXCEPT !.encrypted = FALSE]
    /\ op' = [op EXCEPT !.pc = "clean", !.done = {}, !.disabled = TRUE]
    /\ UNCHANGED <<plain, aside, blob, quarantine, listed, steam, master, save, history, mishaps>>

LowerFlagFails ==
    /\ op.pc = "unraise"
    /\ (Mishap /\ EnableOuter(op.key, op.password)) \/ (TwoMishaps /\ UNCHANGED steam)
    /\ Undo
    /\ UNCHANGED <<disk, master, save, history>>

(* Every blob goes, the ones that failed to extract included.                *)
CleanBlob(a) ==
    /\ op.pc = "clean" /\ a \in op.accounts \ op.done
    /\ RemoveBlob(a)
    /\ op' = [op EXCEPT !.done = @ \cup {a}]
    /\ UNCHANGED <<file, plain, aside, quarantine, listed, steam, master, save, history>>

Cleaned ==
    /\ op.pc = "clean" /\ op.done = op.accounts
    /\ op' = IF op.kind = "remove" THEN [op EXCEPT !.pc = "unset"] ELSE NoOp
    /\ UNCHANGED <<disk, steam, master, save, history, mishaps>>

RemoveSecurityFile ==
    /\ op.pc = "unset"
    /\ file' = None /\ ReplaceMasterKey(None) /\ op' = NoOp
    /\ UNCHANGED <<plain, aside, blob, quarantine, listed, steam, save, history, mishaps>>

(* The rollback enables encryption again when this removal disabled it.       *)
RemoveSecurityFileFails ==
    /\ op.pc = "unset" /\ Mishap
    /\ IF op.disabled
       THEN /\ ReplaceMasterKey(file.key)
            /\ op' = [NoOp EXCEPT !.kind = "reenable", !.pc = "scan", !.password = op.password,
                                  !.key = op.key, !.shared = TRUE]
       ELSE UNCHANGED master /\ op' = NoOp
    /\ UNCHANGED <<disk, steam, save, history>>

-----------------------------------------------------------------------------
(* RetryQuarantineImport and DeleteQuarantine.                               *)

(* The accounts of a report come back one by one; the quarantine goes when   *)
(* all of them have.  "stuck" is the account that could not be imported.     *)
Imports(r) == {a \in r.accounts : r.blobs[a] # None /\ r.blobs[a].key = r.opens}
Import(r, done) ==
    /\ listed' = listed \cup done
    /\ imported' = imported \cup done
    /\ plain' = [a \in Accounts |-> IF a \in done THEN r.blobs[a].value ELSE plain[a]]

RetryQuarantineImport(i) ==
    LET r == quarantine[i] IN
    /\ SettingsPage /\ r.opens # None
    /\ \/ Imports(r) = r.accounts /\ Import(r, r.accounts)
          /\ quarantine' = RemoveAt(quarantine, i) /\ Smooth
       \/ \E done \in SUBSET Imports(r), stuck \in r.accounts \ Imports(r) :
             Import(r, done) /\ UNCHANGED quarantine /\ Smooth
       \/ \E done \in SUBSET Imports(r), stuck \in Imports(r), left \in {None, Torn} :
             /\ plain' = [a \in Accounts |-> IF a = stuck THEN left
                                            ELSE IF a \in done THEN r.blobs[a].value ELSE plain[a]]
             /\ listed' = listed \cup (done \ {stuck})
             /\ imported' = imported \cup done \cup {stuck}
             /\ UNCHANGED quarantine /\ Mishap
    /\ UNCHANGED <<file, aside, blob, steam, master, op, save, saved>>

(* What the user gave up with it is no longer owed.                          *)
DeleteQuarantine(i) ==
    /\ SettingsPage
    /\ quarantine' = RemoveAt(quarantine, i)
    /\ saved' = [a \in Accounts |-> IF quarantine[i].blobs[a] = None THEN saved[a] ELSE None]
    /\ UNCHANGED <<file, plain, aside, blob, listed, steam, master, op, save, imported, mishaps>>

-----------------------------------------------------------------------------
(* Saving and forgetting an account, from BasicService (BeginAccountSave,    *)
(* CommitAccountSave, ForgetAccount), which looks at the flag when it begins.*)

MaySave == SaveIdle /\ (OpIdle \/ "save" \in Overlap) /\ ~AppLocked

BeginAccountSave(a, v) ==
    /\ MaySave
    /\ save' = [NoSave EXCEPT !.pc = "staged", !.account = a, !.value = v, !.encrypted = Encrypted]
    /\ UNCHANGED <<disk, steam, master, op, history, mishaps>>

Save(pc) == save' = [save EXCEPT !.pc = pc]
(* The session in place becomes the account's once ids.json lists it.        *)
NowSaved ==
    /\ saved' = [saved EXCEPT ![save.account] = save.value]
    /\ imported' = imported \ {save.account}
SavedIfListed == IF save.account \in listed THEN NowSaved ELSE UNCHANGED history

DropBackup == aside' = [aside EXCEPT ![save.account] = @ \ {save.backup}]

(* commitAccountSaveDirectory, nothing to replace.                           *)
InstallFirst ==
    /\ save.pc = "staged" /\ ~save.encrypted /\ plain[save.account] = None
    /\ plain' = [plain EXCEPT ![save.account] = save.value]
    /\ SavedIfListed /\ Save("enlist")
    /\ UNCHANGED <<file, aside, blob, quarantine, listed, steam, master, op, mishaps>>

(* Mutant: the previous directory is removed to make room.                   *)
RemoveThenInstall ==
    /\ save.pc = "staged" /\ ~save.encrypted /\ plain[save.account] # None
    /\ plain' = [plain EXCEPT ![save.account] = None]
    /\ Save("install")
    /\ UNCHANGED <<file, aside, blob, quarantine, listed, steam, master, op, history, mishaps>>

(* ... and with a previous directory, which is set aside first.              *)
SetAside ==
    /\ save.pc = "staged" /\ ~save.encrypted /\ plain[save.account] # None
    /\ aside' = [aside EXCEPT ![save.account] = @ \cup {plain[save.account]}]
    /\ plain' = [plain EXCEPT ![save.account] = None]
    /\ save' = [save EXCEPT !.pc = "install", !.backup = plain[save.account]]
    /\ UNCHANGED <<file, blob, quarantine, listed, steam, master, op, history, mishaps>>

Install ==
    /\ save.pc = "install" /\ plain[save.account] = None
    /\ plain' = [plain EXCEPT ![save.account] = save.value]
    /\ DropBackup
    /\ SavedIfListed /\ Save("enlist")
    /\ UNCHANGED <<file, blob, quarantine, listed, steam, master, op, mishaps>>

(* Mutant: the rollback of a failed install is missing.                      *)
InstallFailsForGood ==
    /\ save.pc = "install" /\ Mishap
    /\ DropBackup
    /\ save' = NoSave
    /\ UNCHANGED <<file, plain, blob, quarantine, listed, steam, master, op, history>>

InstallFails ==
    /\ save.pc = "install"
    /\ \/ /\ IF plain[save.account] = None THEN Mishap ELSE FALSE
          /\ plain' = [plain EXCEPT ![save.account] = save.backup] /\ DropBackup
       \/ /\ IF plain[save.account] = None THEN TwoMishaps ELSE Smooth
          /\ UNCHANGED <<plain, aside>>
    /\ save' = NoSave
    /\ UNCHANGED <<file, blob, quarantine, listed, steam, master, op, history>>

(* Mutant: the commit trusts the check that BeginAccountSave made.           *)
SealUnchecked ==
    /\ save.pc = "staged" /\ save.encrypted
    /\ blob' = [blob EXCEPT ![save.account] = [value |-> save.value, key |-> master]]
    /\ SavedIfListed /\ Save("dropplain")
    /\ UNCHANGED <<file, plain, aside, quarantine, listed, steam, master, op, mishaps>>

(* An encrypted save seals under whatever master key is held by then.        *)
SealSession ==
    /\ save.pc = "staged" /\ save.encrypted /\ file # None /\ master # None
    /\ blob' = [blob EXCEPT ![save.account] = [value |-> save.value, key |-> master]]
    /\ SavedIfListed /\ Save("dropplain")
    /\ UNCHANGED <<file, plain, aside, quarantine, listed, steam, master, op, mishaps>>

DropPlain ==
    /\ save.pc = "dropplain"
    /\ RemovePlain(save.account) /\ Save("enlist")
    /\ UNCHANGED <<file, aside, blob, quarantine, listed, steam, master, op, history>>

SaveFails ==
    /\ save.pc \in {"staged", "enlist"}
    /\ IF save.pc = "staged" /\ save.encrypted /\ master = None THEN Smooth ELSE Mishap
    /\ save' = NoSave
    /\ UNCHANGED <<disk, steam, master, op, history>>

EnlistAccount ==
    /\ save.pc = "enlist"
    /\ listed' = listed \cup {save.account} /\ save' = NoSave
    /\ NowSaved
    /\ UNCHANGED <<file, plain, aside, blob, quarantine, steam, master, op, mishaps>>

(* ids.json first, then RemoveAccountCache, whose error is ignored.          *)
ForgetAccount(a) ==
    /\ MaySave /\ a \in listed
    /\ listed' = listed \ {a}
    /\ saved' = [saved EXCEPT ![a] = None]
    /\ save' = [NoSave EXCEPT !.pc = "purge", !.account = a]
    /\ UNCHANGED <<file, plain, aside, blob, quarantine, steam, master, op, imported, mishaps>>

RemoveAccountCache ==
    LET a == save.account IN
    /\ save.pc = "purge"
    /\ \/ /\ blob' = IF Encrypted THEN [blob EXCEPT ![a] = None] ELSE blob
          /\ RemovePlain(a)
       \/ Encrypted /\ Mishap /\ UNCHANGED <<plain, blob>>
    /\ save' = NoSave
    /\ UNCHANGED <<file, aside, quarantine, listed, steam, master, op, history>>

(* The process ends, whatever is in flight; a restart starts locked.         *)
Crash ==
    /\ ~OpIdle \/ ~SaveIdle \/ master # None
    /\ IF OpIdle /\ SaveIdle THEN Smooth ELSE Mishap
    /\ master' = None /\ op' = NoOp /\ save' = NoSave
    /\ UNCHANGED <<disk, steam, history>>

-----------------------------------------------------------------------------
PasswordNext ==
    \/ \E pw \in Passwords : SetAppPassword(pw) \/ ChangePassword(pw)
    \/ UnlockApp \/ Lock \/ Rewrap \/ StorePassword \/ StorePasswordFails
EnableNext ==
    \/ Enable \/ ScanPlain \/ RaiseOuter \/ RaiseOuterFails \/ RaiseFlag \/ RaiseFlagFails \/ Swept
    \/ \E a \in Accounts : WriteBlob(a) \/ WriteBlobFails(a) \/ SweepPlain(a)
DisableNext ==
    \/ Disable \/ RemoveAppPassword \/ ScanBlobs \/ Extracted \/ WriteReport \/ WriteReportFails
    \/ LowerOuter \/ LowerOuterFails \/ LowerFlag \/ LowerFlagFails \/ Cleaned
    \/ RemoveSecurityFile \/ RemoveSecurityFileFails
    \/ \E a \in Accounts : Extract(a) \/ ExtractFails(a) \/ Quarantine(a) \/ CleanBlob(a)
QuarantineNext == \E i \in DOMAIN quarantine : DeleteQuarantine(i) \/ RetryQuarantineImport(i)
SaveNext ==
    \/ \E a \in Accounts, v \in Values : BeginAccountSave(a, v)
    \/ InstallFirst \/ SetAside \/ Install \/ InstallFails \/ SealSession \/ DropPlain
    \/ SaveFails \/ EnlistAccount \/ RemoveAccountCache
    \/ \E a \in Accounts : ForgetAccount(a)

Next == PasswordNext \/ EnableNext \/ DisableNext \/ QuarantineNext \/ SaveNext \/ Crash
Spec == Init /\ [][Next]_vars

-----------------------------------------------------------------------------
TypeOK ==
    /\ file \in SecurityFile \cup {None}
    /\ plain \in [Accounts -> Values \cup {None, Torn}]
    /\ aside \in [Accounts -> SUBSET (Values \cup {Torn})]
    /\ blob \in [Accounts -> Blob \cup {None}]
    /\ quarantine \in Seq(Report)
    /\ listed \in SUBSET Accounts
    /\ outer \in Keys \cup {None, Wiped}
    /\ recovery \in Passwords \cup {None}
    /\ master \in Keys \cup {None, Wiped}
    /\ op \in Op /\ save \in SaveOp
    /\ saved \in [Accounts -> Values \cup {None}]
    /\ imported \in SUBSET Accounts
    /\ mishaps \in 0..MaxMishaps

(* What a switch to the account would restore once the app is unlocked       *)
(* (AccountRestoreDir), and, where an interrupted replacement left no        *)
(* session at all, the copy it had set aside.                                *)
Live(a) ==
    IF ~Encrypted THEN plain[a]
    ELSE IF Decrypts(a, file.key) THEN blob[a].value ELSE None
Found(a) == IF Live(a) = None THEN aside[a] ELSE {Live(a)}

(* Two failures in a row defeat most of what follows: the undo of the first  *)
(* is what the second one hits.                                              *)
OneMishap == mishaps <= 1

(* At every moment, in the middle of an encryption change and after any one  *)
(* failure or restart, a listed account gives back the session that was last *)
(* saved for it.  Guards the order of copies, flag and removals.             *)
RestoreFindsSaved ==
    OneMishap => \A a \in listed \ (imported \cup op.failed) : saved[a] # None => saved[a] \in Found(a)

(* No operation removes the last copy of what a listed account saved,        *)
(* whichever key that copy is under and wherever two failures left it.       *)
Copies(a) == {plain[a]} \cup aside[a] \cup
    {b.value : b \in ({blob[a]} \cup {r.blobs[a] : r \in ToSet(quarantine)}) \ {None}}
ListedIsOnDisk == \A a \in listed \ imported : saved[a] # None => saved[a] \in Copies(a)

(* A copy that can be read is plain, or under a key that security.json or    *)
(* the recovery file beside it unwraps.                                      *)
Readable(a) ==
    {plain[a]} \cup aside[a]
    \cup {b.value : b \in {c \in {blob[a]} \ {None} : file # None /\ c.key = file.key}}
    \cup {r.blobs[a].value : r \in {q \in ToSet(quarantine) :
            q.blobs[a] # None /\ (q.blobs[a].key = q.opens \/ (file # None /\ q.blobs[a].key = file.key))}}

(* What the user saved and did not forget can still be read, also when it    *)
(* left the list: what did not extract is in quarantine then, and a retry    *)
(* brings it back (en-US.json:270).                                          *)
NothingLost ==
    OneMishap => \A a \in Accounts \ imported : saved[a] # None => saved[a] \in Readable(a)

(* The test of the encryption round trip, security_test.go:552: once         *)
(* encryption is on, every listed account's blob opens under the master key. *)
EncryptedBlobsOpen ==
    OneMishap /\ OpIdle /\ Encrypted => \A a \in listed : blob[a] # None => Decrypts(a, file.key)
=============================================================================
