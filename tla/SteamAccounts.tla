---------------------------- MODULE SteamAccounts ----------------------------
(***************************************************************************)
(* Steam's accounts in the switcher (src/internal/steam).                  *)
(*                                                                         *)
(* Steam lists its accounts in loginusers.vdf, marks the one signed in     *)
(* there and names it again in the registry.  The switcher writes both,    *)
(* keeps the file it replaces as loginusers.vdf_last and reads that when   *)
(* the file is missing, unreadable or empty.  It has a store of its own,   *)
(* accounts.json, which every account list merges Steam's rows and the     *)
(* Steam Guard index into, and from which only Forget removes.             *)
(*                                                                         *)
(* The window's switches and Forget hold SteamService.mu: they are the     *)
(* caller Ui.  Building the list takes no lock (Lister), and a game        *)
(* shortcut calls SwapToAccount without it (Outsiders).                    *)
(***************************************************************************)
EXTENDS Naturals, FiniteSets

CONSTANTS
    Accounts,    \* Steam accounts; a row of loginusers.vdf has its login name
    Ui,          \* the caller that holds SteamService.mu
    Lister,      \* the account list and the profile refresh
    Outsiders,   \* switches without the mutex
    None,
    Happens,     \* bound: the calls and events of this instance
    MaxGuarded,  \* bound: accounts in the Steam Guard index at one time
    MaxMishaps   \* bound: failed writes and kills, crashes, a corrupted file

ASSUME CallersDiffer == Ui # Lister /\ {Ui, Lister} \cap Outsiders = {}
ASSUME NoneIsNoAccount == None \notin Accounts
ASSUME BoundsAreNumbers == MaxGuarded \in Nat /\ MaxMishaps \in Nat

Callers == {Ui, Lister} \cup Outsiders

(* What a read of a loginusers file finds: nothing, something unreadable or  *)
(* rows, one of which may be the session's.                                  *)
Missing == [st |-> "absent", rows |-> {}, auto |-> None]
Garbage == [st |-> "bad", rows |-> {}, auto |-> None]
RowsFile(rows, auto) == [st |-> "rows", rows |-> rows, auto |-> auto]
File == {Missing, Garbage}
        \cup {RowsFile(r, a) : r \in SUBSET Accounts, a \in Accounts \cup {None}}
Marked(file) == file.auto \in file.rows \cup {None}

(* bare: an id from the Steam Guard index, without the login name            *)
Known == {"none", "bare", "named"}
Guard == {"none", "login_only", "authenticator"}
(* owed: seen in Steam's file or the store and not given up since.           *)
Past == {"new", "owed"}

Kinds == {"none", "swap", "forget", "list"}
Stages == {"idle", "close", "read", "write", "reg", "release", "store", "rows", "rewrite", "merge"}
(* users: the rows read; index: the Steam Guard ids read with them;          *)
(* calm: history, only the switcher wrote Steam's files since the call began *)
Call == [kind : Kinds, pc : Stages, uid : Accounts \cup {None},
         users : File, index : SUBSET Accounts, calm : BOOLEAN]
NoCall == [kind |-> "none", pc |-> "idle", uid |-> None,
           users |-> Missing, index |-> {}, calm |-> FALSE]

VARIABLES
    vdf,      \* disk: loginusers.vdf
    last,     \* disk: loginusers.vdf_last
    reg,      \* registry: AutoLoginUser
    running,  \* Steam runs
    store,    \* disk: accounts.json
    guard,    \* disk: the Steam Guard index
    calls,    \* the calls in flight
    past,     \* history: what the list owes the user of an account
    claim,    \* history: {a} while the last word is a switch to a that succeeded
    mishaps   \* failures so far

steam == <<vdf, last, reg, running>>
history == <<past, claim>>
vars == <<vdf, last, reg, running, store, guard, calls, past, claim, mishaps>>

Init ==
    /\ vdf = Missing /\ last = Missing /\ reg = None /\ running = TRUE
    /\ store = [a \in Accounts |-> "none"] /\ guard = [a \in Accounts |-> "none"]
    /\ calls = [c \in Callers |-> NoCall]
    /\ past = [a \in Accounts |-> "new"] /\ claim = {} /\ mishaps = 0

Smooth == UNCHANGED mishaps
Mishap == mishaps < MaxMishaps /\ mishaps' = mishaps + 1

Idle(c) == calls[c].pc = "idle"
AllIdle == \A c \in Callers : Idle(c)
At(c, stage) == calls[c].pc = stage
Goto(c, stage) == calls' = [calls EXCEPT ![c].pc = stage]
Return(c) == calls' = [calls EXCEPT ![c] = NoCall]
Fail(c) == Return(c) /\ UNCHANGED <<steam, store, guard, history>>
(* Bound: a list outlives the call it was read in, but not the next event.   *)
Settled == Idle(Lister) \/ \E c \in Callers \ {Lister} : ~Idle(c)
(* Somebody else writes Steam's files: no call is calm any more.             *)
Disturbed == [c \in Callers |-> [calls[c] EXCEPT !.calm = FALSE]]

-----------------------------------------------------------------------------
(* ParseLoginUsers: the file, or its backup when the file has no rows.       *)
Parsed(file, backup) ==
    IF file.rows = {} /\ (backup.rows # {} \/ (file.st = "rows" /\ backup.st = "bad"))
    THEN backup ELSE file
LoginUsers == Parsed(vdf, last)

(* An account a list built now would show.                                   *)
Shown(file, backup, stored) == Parsed(file, backup).rows \cup {a \in Accounts : stored[a] # "none"}

(* The file about to be replaced becomes the backup, unless it is empty;     *)
(* a failure to write the backup is ignored.                                 *)
BackedUp == IF vdf.st = "bad" \/ vdf.rows # {} THEN vdf ELSE last
BackUp == \/ last' = BackedUp /\ Smooth
          \/ UNCHANGED last /\ Mishap

(* Mutant: what is read now replaces what was known.                         *)
ReadAlone(stored, rows, index) ==
    [a \in Accounts |-> IF a \in rows THEN "named" ELSE IF a \in index THEN "bare" ELSE "none"]
(* mergeRecords: rows bring their name, an index entry only its id.          *)
Merged(stored, rows, index) ==
    [a \in Accounts |-> IF a \in rows THEN "named"
                        ELSE IF a \in index /\ stored[a] = "none" THEN "bare" ELSE stored[a]]

-----------------------------------------------------------------------------
(* The account list and the profile refresh: Steam's rows and the Steam      *)
(* Guard index are read first, then merged under the store's own mutex.      *)
(* Switches and sign-ins only add to the store, so that the two halves are   *)
(* two steps only around a Forget.                                           *)
Indexed == {a \in Accounts : guard[a] # "none"}
Store(stored) == /\ store' = stored
                 /\ past' = [a \in Accounts |-> IF stored[a] # "none" THEN "owed" ELSE past[a]]

List ==
    /\ "list" \in Happens /\ Idle(Lister) /\ calls[Ui].kind # "forget"
    /\ Store(Merged(store, LoginUsers.rows, Indexed))
    /\ UNCHANGED <<steam, guard, calls, claim, mishaps>>

ListBegin ==
    /\ "list" \in Happens /\ Idle(Lister) /\ calls[Ui].kind = "forget"
    /\ calls' = [calls EXCEPT ![Lister] =
                   [NoCall EXCEPT !.kind = "list", !.pc = "merge",
                                  !.users = RowsFile(LoginUsers.rows, None),
                                  !.index = Indexed \ LoginUsers.rows]]
    /\ UNCHANGED <<steam, store, guard, history, mishaps>>

ListMerge ==
    /\ At(Lister, "merge")
    /\ \/ Store(Merged(store, calls[Lister].users.rows, calls[Lister].index)) /\ Smooth
       \/ Mishap /\ UNCHANGED <<store, past>>
    /\ Return(Lister)
    /\ UNCHANGED <<steam, guard, claim>>

-----------------------------------------------------------------------------
(* SwapToAccount                                                             *)

(* Two callers' switches overlap only where "overlap" happens.               *)
MayBegin(c) == /\ Idle(c) /\ Settled
               /\ "overlap" \in Happens \/ \A o \in Callers \ {Lister} : Idle(o)

(* Nothing is done for the account the files mark; a stale mark in the       *)
(* backup counts.                                                            *)
AlreadySignedIn(a) == a # None /\ LoginUsers.auto = a

(* What the open vault knows of an account's login name.                     *)
Recovered(a) == [store EXCEPT ![a] = "named"]
VaultNames(a) == store[a] = "bare" /\ guard[a] # "none"

(* Mutant: a switch that cannot work is found out after the kill.            *)
AnyTarget(a, stored) == TRUE
(* preflightSwitchTarget; an unreadable file is left for ReadRows to report.  *)
MaySwitchTo(a, stored) ==
    a \in Accounts \ LoginUsers.rows => stored[a] = "named" \/ LoginUsers.st = "bad"

SwapTo(c, a, args) ==
    /\ "swap" \in Happens /\ c # Lister /\ MayBegin(c)
    /\ a = None => ~args /\ c = Ui
    /\ args \/ ~AlreadySignedIn(a)
    /\ \/ UNCHANGED store
       \/ a # None /\ a \notin LoginUsers.rows /\ VaultNames(a) /\ store' = Recovered(a)
    /\ MaySwitchTo(a, store')
    /\ calls' = [calls EXCEPT ![c] = [NoCall EXCEPT !.kind = "swap", !.pc = "close",
                                                    !.uid = a, !.calm = TRUE]]
    /\ UNCHANGED <<steam, guard, history, mishaps>>

(* ErrIfCannotKill ends the switch; an error of the kill itself does not.    *)
Close(c) ==
    /\ At(c, "close")
    /\ \/ running' = FALSE /\ Goto(c, "read") /\ Smooth
          /\ UNCHANGED <<vdf, last, reg, store, guard, history>>
       \/ running /\ Mishap /\ Goto(c, "read") /\ UNCHANGED <<steam, store, guard, history>>
       \/ running /\ Mishap /\ Fail(c)

(* The rows to write: those of the file plus, from the store, the target's.  *)
Rebuilt(a) ==
    IF a # None /\ a \notin LoginUsers.rows /\ store[a] = "named"
    THEN LoginUsers.rows \cup {a} ELSE LoginUsers.rows
Refuses(a) ==
    \/ LoginUsers.st = "bad"
    \/ a # None /\ a \notin LoginUsers.rows /\ store[a] = "none"

ReadRows(c) ==
    /\ At(c, "read")
    /\ LET a == calls[c].uid IN
       \/ Refuses(a) /\ Fail(c)
       \/ /\ ~Refuses(a)
          /\ calls' = [calls EXCEPT ![c].pc = "write",
                                    ![c].users = RowsFile(Rebuilt(a), IF a \in Rebuilt(a) THEN a ELSE None)]
          /\ UNCHANGED <<steam, store, guard, history>>
    /\ Smooth

(* writeLoginUsersAndAutoLogin, the file: marks the target alone.            *)
WriteRows(c) ==
    /\ At(c, "write")
    /\ \/ BackUp /\ vdf' = calls[c].users /\ Goto(c, "reg")
       \/ last' = BackedUp /\ Mishap /\ UNCHANGED vdf /\ Return(c)
    /\ claim' = {}
    /\ UNCHANGED <<reg, running, store, guard, past>>

(* ... and the registry, which names the row marked.  Then Steam starts,     *)
(* unless auto-start is off, the counter cannot be saved or the start fails. *)
WriteReg(c) ==
    /\ At(c, "reg") /\ Return(c)
    /\ \/ /\ reg' = calls[c].users.auto
          /\ claim' = IF calls[c].calm THEN {calls[c].uid} ELSE {}
          /\ running' \in {running, TRUE} /\ Smooth
       \/ claim' = {} /\ Mishap /\ UNCHANGED <<reg, running>>
    /\ UNCHANGED <<vdf, last, store, guard, past>>

-----------------------------------------------------------------------------
(* ForgetSteamAccount: the Steam Guard record, the store, Steam's row.       *)
(* Steam is not closed for it.                                               *)

Forget(a) ==
    /\ "forget" \in Happens /\ MayBegin(Ui)
    /\ a \in Shown(vdf, last, store)
    /\ calls' = [calls EXCEPT ![Ui] = [NoCall EXCEPT !.kind = "forget", !.pc = "release", !.uid = a]]
    /\ UNCHANGED <<steam, store, guard, history, mishaps>>

(* releaseSteamGuardRecord: an authenticator refuses, a session-only record  *)
(* goes with its index entry if the vault is open.                           *)
ForgetRelease ==
    /\ At(Ui, "release") /\ Smooth
    /\ LET a == calls[Ui].uid IN
       \/ guard[a] # "none" /\ Fail(Ui)
       \/ /\ guard[a] # "authenticator"
          /\ guard' = [guard EXCEPT ![a] = "none"] /\ Goto(Ui, "store")
          /\ UNCHANGED <<steam, store, history>>

ForgetStored ==
    /\ At(Ui, "store")
    /\ LET a == calls[Ui].uid IN
       \/ /\ store' = [store EXCEPT ![a] = "none"] /\ past' = [past EXCEPT ![a] = "new"]
          /\ Goto(Ui, "rows") /\ Smooth
          /\ UNCHANGED <<steam, guard, claim>>
       \/ Mishap /\ Fail(Ui)

(* Mutant: the row goes, its mark stays.                                     *)
WithoutRow(file, a) == RowsFile(file.rows \ {a}, file.auto)
Without(file, a) == RowsFile(file.rows \ {a}, IF file.auto = a THEN None ELSE file.auto)

Forgotten(a) == /\ past' = [past EXCEPT ![a] = "new"] /\ claim' = claim \ {a} /\ Return(Ui)
(* RemoveSteamAccountFromVDF: nothing to write without a row for it.         *)
ForgetRead ==
    /\ At(Ui, "rows") /\ Smooth
    /\ LET a == calls[Ui].uid IN
       \/ LoginUsers.st = "bad" /\ Fail(Ui)
       \/ /\ LoginUsers.st # "bad" /\ a \notin LoginUsers.rows /\ Forgotten(a)
          /\ UNCHANGED <<steam, store, guard>>
       \/ /\ a \in LoginUsers.rows
          /\ calls' = [calls EXCEPT ![Ui].pc = "rewrite", ![Ui].users = Without(LoginUsers, a)]
          /\ UNCHANGED <<steam, store, guard, history>>

ForgetWrite ==
    /\ At(Ui, "rewrite")
    /\ \/ BackUp /\ vdf' = calls[Ui].users /\ Forgotten(calls[Ui].uid)
       \/ last' = BackedUp /\ Mishap /\ Return(Ui) /\ UNCHANGED <<vdf, history>>
    /\ UNCHANGED <<reg, running, store, guard>>

-----------------------------------------------------------------------------
(* Steam, its user and the rest of the program.  What they take away is not  *)
(* owed any more; neither is an account that signs in while a call has read  *)
(* the file, which only happens when the kill did not work or in a Forget.   *)
Taken == past' = [a \in Accounts |-> IF past[a] = "owed" /\ a \notin Shown(vdf', last, store)
                                      THEN "new" ELSE past[a]]

SteamSignsIn(a) ==
    /\ running /\ Settled
    /\ vdf' = RowsFile(vdf.rows \cup {a}, a) /\ reg' = a
    /\ past' = [b \in Accounts |->
          IF b = a THEN (IF \A c \in Callers \ {Lister} : Idle(c) THEN "owed" ELSE "new")
          ELSE IF past[b] = "owed" /\ b \notin Shown(vdf', last, store) THEN "new" ELSE past[b]]
    /\ claim' = {} /\ calls' = Disturbed
    /\ UNCHANGED <<last, running, store, guard, mishaps>>

(* A Steam that runs and does nothing is one the user has quit.              *)
StartSteam ==
    /\ ~running /\ AllIdle /\ running' = TRUE
    /\ UNCHANGED <<vdf, last, reg, store, guard, calls, history, mishaps>>

(* Advanced Clearing, or a cleaning tool, deletes the file or the value.     *)
ClearLoginUsers ==
    /\ "clear" \in Happens /\ AllIdle /\ vdf' = Missing /\ vdf # Missing
    /\ UNCHANGED <<last, reg, running, store, guard, mishaps>>
    /\ Taken /\ claim' = {} /\ calls' = Disturbed

ClearAutoLogin ==
    /\ "clear" \in Happens /\ AllIdle /\ reg' = None /\ reg # None
    /\ claim' = {} /\ calls' = Disturbed
    /\ UNCHANGED <<vdf, last, running, store, guard, past, mishaps>>

Corrupt ==
    /\ Settled /\ vdf.st = "rows" /\ vdf' = Garbage /\ Mishap
    /\ UNCHANGED <<last, reg, running, store, guard>>
    /\ Taken /\ claim' = {} /\ calls' = Disturbed

(* Steam Guard signs an account in or enrolls it and tells the store; a      *)
(* restored folder only has the index.                                       *)
GuardAdds(a, state) ==
    /\ state \in Happens /\ Settled /\ calls[Ui].kind # "swap" /\ guard[a] = "none" /\ Cardinality(Indexed) < MaxGuarded
    /\ guard' = [guard EXCEPT ![a] = state]
    /\ store' \in {store, Merged(store, {a}, {})}
    /\ past' = [past EXCEPT ![a] = IF store'[a] # "none" THEN "owed" ELSE "new"]
    /\ UNCHANGED <<steam, calls, claim, mishaps>>

Crash ==
    /\ ~AllIdle /\ Mishap
    /\ calls' = [c \in Callers |-> NoCall]
    /\ UNCHANGED <<steam, store, guard, history>>

-----------------------------------------------------------------------------
SwitchStep(c) == Close(c) \/ ReadRows(c) \/ WriteRows(c) \/ WriteReg(c)
ForgetStep == ForgetRelease \/ ForgetStored \/ ForgetRead \/ ForgetWrite

Next ==
    \/ List \/ ListBegin \/ ListMerge
    \/ \E c \in Callers, a \in Accounts \cup {None}, args \in BOOLEAN : SwapTo(c, a, args)
    \/ \E c \in Callers : SwitchStep(c)
    \/ \E a \in Accounts : Forget(a)
    \/ ForgetStep
    \/ \E a \in Accounts : SteamSignsIn(a)
    \/ StartSteam
    \/ ClearLoginUsers \/ ClearAutoLogin \/ Corrupt
    \/ \E a \in Accounts, state \in Guard : GuardAdds(a, state)
    \/ Crash

Spec == Init /\ [][Next]_vars

-----------------------------------------------------------------------------
(* The variables have their types, and the account marked as the session in  *)
(* a file, or about to be, has a row there.                                  *)
TypeOK ==
    /\ vdf \in File /\ last \in File /\ Marked(vdf) /\ Marked(last)
    /\ reg \in Accounts \cup {None} /\ running \in BOOLEAN
    /\ store \in [Accounts -> Known] /\ guard \in [Accounts -> Guard]
    /\ calls \in [Callers -> Call] /\ \A c \in Callers : Marked(calls[c].users)
    /\ past \in [Accounts -> Past]
    /\ claim \subseteq Accounts \cup {None} /\ Cardinality(claim) <= 1
    /\ mishaps \in 0 .. MaxMishaps

(* An account that Steam listed or the store held stays in the list: a       *)
(* switch, a Forget of another account, a list that read an older file, a    *)
(* failed write or a crash never loses it (the backup file and               *)
(* accountstore.go: an account only leaves when the user forgets it).        *)
AccountsKept == \A a \in Accounts : past[a] = "owed" => a \in Shown(vdf, last, store)

(* After a switch that reported success Steam's file and the registry name   *)
(* the same account, the one asked for, until Steam or a cleaner writes them *)
(* (SwapToAccount; preflightSwitchTarget refuses what could not be named).   *)
SwitchPoints == \A a \in claim : vdf.auto = a /\ reg = a
=============================================================================
