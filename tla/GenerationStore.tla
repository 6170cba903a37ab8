--------------------------- MODULE GenerationStore ---------------------------
(***************************************************************************)
(* The Steam Guard vault on disk (src/internal/steamguard/vault).          *)
(*                                                                         *)
(* Every change to the vault writes a whole new directory, a generation,   *)
(* holding a header, an encrypted keyring and one file per record, and     *)
(* then moves the file "active" to it.  A journal written before the move  *)
(* lets Open finish or undo a change that was cut short.  Each disk write  *)
(* of one change is an action here, every one of them may fail, and the    *)
(* process may die between any two.                                        *)
(*                                                                         *)
(* The mutex of Vault serializes operations, so at most one of them is in  *)
(* flight: its progress and its inputs are the record txn.                 *)
(***************************************************************************)
EXTENDS Naturals

CONSTANTS
    Gens,        \* generation ids somebody can still name (see FreshGens)
    Records,     \* account identities
    Values,      \* plaintexts of a record
    Passwords,   \* Steam Guard passwords
    OuterKeys,   \* keys of the app-password layer around every file
    LeaseModes,  \* the lease lifetimes callers ask for
    None,        \* an absent file, id, key or value
    LateFaults,  \* whether a write may report failure after its rename
    MaxFaults    \* how many faults the system may inject into one operation

ASSUME NoneIsNoData ==
    None \notin Gens \cup Values \cup OuterKeys
ASSUME FaultBounds == LateFaults \in BOOLEAN /\ MaxFaults \in Nat
ASSUME LeaseModesAreKnown == LeaseModes \subseteq {"fixed", "process"}

Header == [password : Passwords, outer : OuterKeys \cup {None}, recovery : BOOLEAN]
Content == [Records -> Values \cup {None}]
Keyring == [names : SUBSET Records]
GenFiles == [header : Header \cup {None}, keyring : Keyring \cup {None},
             records : Content, key : OuterKeys \cup {None}]
Journal == [prev : Gens \cup {None}, next : Gens]

ASSUME NoneIsNoRecord == None \notin Header /\ None \notin Keyring /\ None \notin Journal

Kinds == {"create", "open", "put", "password", "migrate", "rewrap", "rollback", "none"}
Stages == {"idle", "header", "keyring", "records", "journal", "switch", "unjournal",
           "cleanup", "outerlease", "recoverGen", "recoverJournal", "recovered"}
Txn == [pc : Stages, kind : Kinds, gen : Gens \cup {None}, prev : Gens \cup {None},
        header : Header \cup {None}, content : Content,
        names : SUBSET Records, key : OuterKeys \cup {None},
        undo : Header \cup {None}]

VARIABLES
    gens,        \* disk: the generation directories
    active,      \* disk: the id in the file "active"
    journal,     \* disk: the transaction journal
    cur,         \* memory: Vault.active
    header,      \* memory: Vault.header, None when no Vault is open
    lease,       \* memory: the vault-key lease and whether it has run out
    outerLease,  \* memory: the outer-key lease
    txn,         \* the operation in flight
    outcome,     \* what the last operation reported to its caller
    faults       \* faults injected into the operation in flight

disk == <<gens, active, journal>>
memory == <<cur, header>>
leases == <<lease, outerLease>>
vars == <<gens, active, journal, cur, header, lease, outerLease, txn, outcome, faults>>

-----------------------------------------------------------------------------
(* What a generation directory holds.                                        *)

EmptyContent == [r \in Records |-> None]
EmptyGen == [header |-> None, keyring |-> None, records |-> EmptyContent, key |-> None]

(* The header and the keyring are there and the outer layer opens.           *)
Opens(gen) == gen.header # None /\ gen.keyring # None /\ gen.header.outer = gen.key

HasEveryRecord(gen) == \A r \in Records : r \in gen.keyring.names => gen.records[r] # None

(* What verifyGeneration accepts: everything the keyring names is readable.  *)
Complete(gen) == Opens(gen) /\ HasEveryRecord(gen)

(* What os.RemoveAll may leave behind when it fails or is cut short: files   *)
(* go in directory order, so the header or the records may go first.         *)
Leftovers(gen) ==
    {gen, [gen EXCEPT !.header = None], [gen EXCEPT !.records = EmptyContent], EmptyGen}

NamesOf(content) == {r \in Records : content[r] # None}

(* The ids somebody still names; randomID never collides with one of them.   *)
(* A directory nobody names is never read again, so its id may be recycled.  *)
NamedGens == {active, cur} \cup (IF journal = None THEN {} ELSE {journal.prev, journal.next})
FreshGens == Gens \ NamedGens

-----------------------------------------------------------------------------
Idle == [pc |-> "idle", kind |-> "none", gen |-> None, prev |-> None,
         header |-> None, content |-> EmptyContent, names |-> {}, key |-> None, undo |-> None]

NoLease == lease' = "none" /\ outerLease' = None
IsIdle == txn.pc = "idle"
IsOpen == header # None

Init ==
    /\ gens = [g \in Gens |-> EmptyGen]
    /\ active = None /\ journal = None
    /\ cur = None /\ header = None
    /\ lease = "none" /\ outerLease = None
    /\ txn = Idle /\ outcome = "none" /\ faults = 0

Fault == faults < MaxFaults /\ faults' = faults + 1

(* The operation in flight reports failure: a migration first rolls back, a  *)
(* Create or Open leaves no Vault behind.                                    *)
Fail ==
    IF txn.kind \in {"migrate", "rewrap"}
    THEN /\ txn' = [txn EXCEPT !.pc = "recoverGen"]
         /\ UNCHANGED <<outcome>>
    ELSE /\ txn' = Idle
         /\ outcome' = "failed"

MemoryAfterFail ==
    IF txn.kind \in {"create", "open"}
    THEN cur' = None /\ header' = None
    ELSE UNCHANGED memory

-----------------------------------------------------------------------------
(* Writing a generation: commitGenerationLocked, commitOuterMigrationLocked. *)

StartCommit(kind, next, content, names, key, undo) ==
    \E g \in FreshGens :
        /\ txn' = [pc |-> "header", kind |-> kind, gen |-> g, prev |-> cur, header |-> next,
                   content |-> content, names |-> names,
                   key |-> IF next.outer = None THEN None ELSE key, undo |-> undo]
        /\ gens' = [gens EXCEPT ![g] = EmptyGen]

WriteHeader ==
    /\ txn.pc = "header"
    /\ gens' = [gens EXCEPT ![txn.gen].header = txn.header, ![txn.gen].key = txn.key]
    /\ txn' = [txn EXCEPT !.pc = "keyring"]
    /\ UNCHANGED <<active, journal, cur, header, lease, outerLease, outcome, faults>>

WriteKeyring ==
    /\ txn.pc = "keyring"
    /\ gens' = [gens EXCEPT ![txn.gen].keyring = [names |-> txn.names]]
    /\ txn' = [txn EXCEPT !.pc = "records"]
    /\ UNCHANGED <<active, journal, cur, header, lease, outerLease, outcome, faults>>

WriteRecord(r) ==
    /\ txn.pc = "records"
    /\ txn.content[r] # None /\ gens[txn.gen].records[r] = None
    /\ gens' = [gens EXCEPT ![txn.gen].records[r] = txn.content[r]]
    /\ UNCHANGED <<active, journal, cur, header, lease, outerLease, txn, outcome, faults>>

(* Every file is written: verify what is on disk before anything names it.   *)
(* verifyOuterMigration runs without the vault key, so it cannot compare the *)
(* files it copied with the names in the keyring, as verifyGeneration does.  *)
Verified(gen) ==
    /\ Opens(gen)
    /\ txn.kind \in {"migrate", "rewrap", "rollback"} \/ HasEveryRecord(gen)

(* Mutant: neither waits for the record files nor verifies them.             *)
SkipVerification ==
    /\ txn.pc = "records"
    /\ txn' = [txn EXCEPT !.pc = "journal"]
    /\ UNCHANGED <<gens, active, journal, cur, header, lease, outerLease, outcome, faults>>

VerifyGeneration ==
    /\ txn.pc = "records"
    /\ gens[txn.gen].records = txn.content
    /\ Verified(gens[txn.gen])
    /\ txn' = [txn EXCEPT !.pc = "journal"]
    /\ UNCHANGED <<gens, active, journal, cur, header, lease, outerLease, outcome, faults>>

WriteJournal ==
    /\ txn.pc = "journal"
    /\ journal' = [prev |-> txn.prev, next |-> txn.gen]
    /\ txn' = [txn EXCEPT !.pc = "switch"]
    /\ UNCHANGED <<gens, active, cur, header, lease, outerLease, outcome, faults>>

(* A write fails while the deferred clean-up still removes the new directory;*)
(* the journal may have been renamed into place all the same.                *)
StagingFails ==
    /\ txn.pc \in {"header", "keyring", "records", "journal"}
    /\ Fault
    /\ \E left \in Leftovers(gens[txn.gen]) : gens' = [gens EXCEPT ![txn.gen] = left]
    /\ \/ UNCHANGED journal
       \/ LateFaults /\ txn.pc = "journal" /\ journal' = [prev |-> txn.prev, next |-> txn.gen]
    /\ Fail /\ MemoryAfterFail
    /\ UNCHANGED <<active, lease, outerLease>>

SwitchActive ==
    /\ txn.pc = "switch"
    /\ active' = txn.gen /\ cur' = txn.gen /\ header' = txn.header
    /\ txn' = [txn EXCEPT !.pc = "unjournal"]
    /\ UNCHANGED <<gens, journal, lease, outerLease, outcome, faults>>

(* Mutant: memory moves to the new generation before the write succeeded.    *)
MemoryMovesFirst ==
    /\ txn.pc = "switch"
    /\ Fault
    /\ UNCHANGED active
    /\ txn' = Idle /\ outcome' = "failed"
    /\ cur' = txn.gen /\ header' = txn.header
    /\ UNCHANGED <<gens, journal, lease, outerLease>>

(* Mutant: the error of the write of "active" is dropped.                    *)
SwitchErrorDropped ==
    /\ txn.pc = "switch"
    /\ Fault
    /\ txn' = [txn EXCEPT !.pc = "unjournal"]
    /\ cur' = txn.gen /\ header' = txn.header
    /\ UNCHANGED <<gens, active, journal, lease, outerLease, outcome>>

(* atomicWrite hardens the file once more after its rename; when only that   *)
(* fails, "active" has moved and the caller is told it has not.              *)
SwitchFails ==
    /\ txn.pc = "switch"
    /\ Fault
    /\ \/ UNCHANGED active
       \/ LateFaults /\ active' = txn.gen
    /\ Fail /\ MemoryAfterFail
    /\ UNCHANGED <<gens, journal, lease, outerLease>>

RemoveJournal ==
    /\ txn.pc = "unjournal"
    /\ journal' = None
    /\ txn' = [txn EXCEPT !.pc = "cleanup"]
    /\ UNCHANGED <<gens, active, cur, header, lease, outerLease, outcome, faults>>

RemoveJournalFails ==
    /\ txn.pc = "unjournal"
    /\ Fault
    /\ Fail /\ MemoryAfterFail
    /\ UNCHANGED <<gens, active, journal, lease, outerLease>>

(* The old directory goes, best effort; the operation then does what is left *)
(* to do in memory and reports success.                                      *)
FinishCommit ==
    /\ txn.pc = "cleanup"
    /\ IF txn.prev = None THEN UNCHANGED gens
       ELSE \E left \in Leftovers(gens[txn.prev]) : gens' = [gens EXCEPT ![txn.prev] = left]
    /\ CASE txn.kind = "migrate" ->
              txn' = [txn EXCEPT !.pc = "outerlease"] /\ UNCHANGED <<lease, outerLease, outcome>>
         [] txn.kind = "rollback" ->
              txn' = Idle /\ outcome' = "failed" /\ UNCHANGED leases
         [] txn.kind = "password" ->
              txn' = Idle /\ outcome' = "ok" /\ NoLease
         [] OTHER ->
              txn' = Idle /\ outcome' = "ok" /\ UNCHANGED leases
    /\ UNCHANGED <<active, journal, cur, header, faults>>

(* Mutant: an outer key already held in memory is not replaced.              *)
KeepOldOuterLease ==
    /\ txn.pc = "outerlease"
    /\ outerLease' = IF header.outer = None THEN None
                     ELSE IF lease # "none" /\ outerLease = None THEN txn.key ELSE outerLease
    /\ txn' = Idle /\ outcome' = "ok"
    /\ UNCHANGED <<gens, active, journal, cur, header, lease, faults>>

(* replaceOuterLeaseLocked, clearOuterLeaseLocked after a migration.         *)
SettleOuterLease ==
    /\ txn.pc = "outerlease"
    /\ outerLease' = IF header.outer = None THEN None
                     ELSE IF lease # "none" THEN txn.key ELSE outerLease
    /\ txn' = Idle /\ outcome' = "ok"
    /\ UNCHANGED <<gens, active, journal, cur, header, lease, faults>>

(* Protected memory cannot hold the new key: the migration rolls back.       *)
OuterLeaseFails ==
    /\ txn.pc = "outerlease"
    /\ header.outer # None /\ lease # "none"
    /\ Fault /\ Fail
    /\ UNCHANGED <<gens, active, journal, cur, header, lease, outerLease>>

-----------------------------------------------------------------------------
(* recoverTransaction, run by Open and by rollbackHeaderMigrationLocked.     *)

(* Mutant: the comparison with "active" is inverted.                         *)
CondemnedInverted == IF active = journal.next THEN journal.next ELSE journal.prev

Condemned == IF active # journal.next THEN journal.next ELSE journal.prev

(* A journal that names no generation to finish, or one that replaces itself *)
(* (as read back from the file), is refused with ErrInvalidFormat.           *)
Refused(j) == j.next = None \/ j.prev = j.next

RecoverGeneration ==
    /\ txn.pc = "recoverGen"
    /\ IF journal = None
       THEN txn' = [txn EXCEPT !.pc = "recovered"] /\ UNCHANGED <<gens, outcome>>
       ELSE IF Refused(journal)
       THEN txn' = Idle /\ outcome' = "failed" /\ UNCHANGED gens
       ELSE /\ txn' = [txn EXCEPT !.pc = "recoverJournal"]
            /\ IF Condemned = None THEN UNCHANGED gens
               ELSE gens' = [gens EXCEPT ![Condemned] = EmptyGen]
            /\ UNCHANGED outcome
    /\ UNCHANGED <<active, journal, cur, header, lease, outerLease, faults>>

(* Mutant: the journal is emptied in place instead of removed.               *)
EmptyJournal ==
    /\ txn.pc = "recoverJournal"
    /\ journal' = [prev |-> None, next |-> None]
    /\ txn' = [txn EXCEPT !.pc = "recovered"]
    /\ UNCHANGED <<gens, active, cur, header, lease, outerLease, outcome, faults>>

RecoverJournal ==
    /\ txn.pc = "recoverJournal"
    /\ journal' = None
    /\ txn' = [txn EXCEPT !.pc = "recovered"]
    /\ UNCHANGED <<gens, active, cur, header, lease, outerLease, outcome, faults>>

RecoveryFails ==
    /\ txn.pc \in {"recoverGen", "recoverJournal"} /\ journal # None
    /\ Fault
    /\ IF txn.pc = "recoverGen" /\ Condemned # None
       THEN \E left \in Leftovers(gens[Condemned]) : gens' = [gens EXCEPT ![Condemned] = left]
       ELSE UNCHANGED gens
    /\ txn' = Idle /\ outcome' = "failed"
    /\ UNCHANGED <<active, journal, cur, header, lease, outerLease>>

(* Open reads "active" and then that generation's header.                    *)
LoadActive ==
    /\ txn.pc = "recovered" /\ txn.kind = "open"
    /\ IF active # None /\ gens[active].header # None
       THEN cur' = active /\ header' = gens[active].header /\ outcome' = "ok"
       ELSE UNCHANGED memory /\ outcome' = "failed"
    /\ txn' = Idle
    /\ UNCHANGED <<gens, active, journal, lease, outerLease, faults>>

(* Mutant: recovery of the files is taken for a complete roll-back.          *)
RollBackFilesOnly ==
    /\ txn.pc = "recovered" /\ txn.kind \in {"migrate", "rewrap"}
    /\ txn' = Idle /\ outcome' = "failed"
    /\ UNCHANGED <<gens, active, journal, cur, header, lease, outerLease, faults>>

(* A failed migration whose header never changed has nothing to undo; one    *)
(* that reached "active" is undone by writing the old header as a new        *)
(* generation.                                                               *)
RollBack ==
    /\ txn.pc = "recovered" /\ txn.kind \in {"migrate", "rewrap"}
    /\ IF header = txn.undo
       THEN txn' = Idle /\ outcome' = "failed" /\ UNCHANGED gens
       ELSE StartCommit("rollback", txn.undo, txn.content, txn.names, txn.undo.outer, txn.undo)
            /\ UNCHANGED outcome
    /\ UNCHANGED <<active, journal, cur, header, lease, outerLease, faults>>

-----------------------------------------------------------------------------
(* The operations.                                                           *)

(* The files of the open generation decrypt with this outer key, and, once   *)
(* the vault key opens the keyring, every record it names is there.          *)
FilesReadable(key) ==
    /\ cur # None
    /\ gens[cur].keyring # None
    /\ gens[cur].key = IF header.outer = None THEN None ELSE key
Readable(key) == FilesReadable(key) /\ HasEveryRecord(gens[cur])

HaveKeys == lease \in {"fixed", "process"} /\ (header.outer # None => outerLease # None)

Create(pw) ==
    /\ IsIdle /\ ~IsOpen /\ active = None
    /\ LET first == [password |-> pw, outer |-> None, recovery |-> FALSE] IN
       /\ header' = first
       /\ StartCommit("create", first, EmptyContent, {}, None, None)
    /\ faults' = 0
    /\ UNCHANGED <<active, journal, cur, lease, outerLease, outcome>>

Open ==
    /\ IsIdle /\ ~IsOpen
    /\ txn' = [Idle EXCEPT !.pc = "recoverGen", !.kind = "open"]
    /\ faults' = 0
    /\ UNCHANGED <<gens, active, journal, cur, header, lease, outerLease, outcome>>

Unlock(pw, key, mode) ==
    /\ IsIdle /\ IsOpen
    /\ header.password = pw
    /\ header.outer # None => key = header.outer
    /\ Readable(key)
    /\ lease' = mode
    /\ outerLease' = IF header.outer = None THEN None ELSE key
    /\ outcome' = "ok"
    /\ UNCHANGED <<gens, active, journal, cur, header, txn, faults>>

Updated(content, update) ==
    [r \in Records |-> IF r \in DOMAIN update THEN update[r] ELSE content[r]]

(* PutRecord and PutRecords (update is the batch), DeleteRecord (None).      *)
Put(update) ==
    /\ IsIdle /\ IsOpen /\ HaveKeys /\ Readable(outerLease)
    /\ LET next == Updated(gens[cur].records, update) IN
       StartCommit("put", header, next, NamesOf(next), outerLease, None)
    /\ faults' = 0
    /\ UNCHANGED <<active, journal, cur, header, lease, outerLease, outcome>>

ChangePassword(old, new) ==
    /\ IsIdle /\ IsOpen
    /\ header.password = old
    /\ header.outer # None => outerLease # None
    /\ Readable(outerLease)
    /\ StartCommit("password", [header EXCEPT !.password = new], gens[cur].records,
                   gens[cur].keyring.names, outerLease, None)
    /\ faults' = 0
    /\ UNCHANGED <<active, journal, cur, header, lease, outerLease, outcome>>

(* migrateOuter: EnableOuter, EnableOuterWithRecovery, ConfigureRecovery,    *)
(* DisableOuter; and configureRecoveryLocked ("rewrap"), which leaves the    *)
(* outer lease alone.  An open lease on the vault key is not required.       *)
MigrateOuter(kind, key, target, recovery) ==
    /\ IsIdle /\ IsOpen
    /\ header.outer # None => key = header.outer
    /\ FilesReadable(key)
    /\ StartCommit(kind, [header EXCEPT !.outer = target, !.recovery = recovery],
                   gens[cur].records, gens[cur].keyring.names, target, header)
    /\ faults' = 0
    /\ UNCHANGED <<active, journal, cur, header, lease, outerLease, outcome>>

EnableOuter(key, recovery) ==
    /\ IsIdle /\ IsOpen
    /\ header.outer = None \/ (header.outer = key /\ recovery)
    /\ MigrateOuter("migrate", key, key, recovery)

(* The layer is already on: only the lease learns the key.                   *)
EnableOuterAgain(key) ==
    /\ IsIdle /\ IsOpen /\ header.outer = key
    /\ outerLease' = IF lease # "none" THEN key ELSE outerLease
    /\ outcome' = "ok"
    /\ UNCHANGED <<gens, active, journal, cur, header, lease, txn, faults>>

DisableOuter(key) ==
    /\ IsIdle /\ IsOpen /\ header.outer = key
    /\ MigrateOuter("migrate", key, None, FALSE)

ChangeRecoveryPassword ==
    /\ IsIdle /\ IsOpen /\ header.outer # None /\ header.recovery
    /\ MigrateOuter("rewrap", header.outer, header.outer, TRUE)

RestoreOuterFromRecovery(new) ==
    /\ IsIdle /\ IsOpen /\ header.outer # None /\ header.recovery
    /\ MigrateOuter("migrate", header.outer, new, TRUE)

(* Reading a damaged generation under the lease revokes the lease.           *)
IntegrityFailure ==
    /\ IsIdle /\ IsOpen /\ HaveKeys /\ ~Readable(outerLease)
    /\ NoLease /\ outcome' = "failed"
    /\ UNCHANGED <<gens, active, journal, cur, header, txn, faults>>

Lock ==
    /\ IsIdle /\ lease # "none"
    /\ NoLease
    /\ UNCHANGED <<gens, active, journal, cur, header, txn, outcome, faults>>

(* Five minutes pass; the next use of the lease, or IsLocked, destroys it.   *)
LeaseRunsOut ==
    /\ lease = "fixed" /\ lease' = "expired"
    /\ UNCHANGED <<gens, active, journal, cur, header, outerLease, txn, outcome, faults>>

SetLeaseMode(mode) ==
    /\ IsIdle /\ lease # "none"
    /\ IF lease = "expired" THEN NoLease ELSE lease' = mode /\ UNCHANGED outerLease
    /\ UNCHANGED <<gens, active, journal, cur, header, txn, outcome, faults>>

(* The process dies: memory and protected memory are gone, the disk is not.  *)
Crash ==
    /\ IsOpen \/ ~IsIdle
    /\ cur' = None /\ header' = None /\ NoLease
    /\ txn' = Idle /\ outcome' = "none" /\ faults' = 0
    /\ UNCHANGED disk

-----------------------------------------------------------------------------
Updates == UNION {[S -> Values \cup {None}] : S \in SUBSET Records \ {{}}}

CommitStep ==
    \/ WriteHeader \/ WriteKeyring \/ VerifyGeneration \/ WriteJournal
    \/ \E r \in Records : WriteRecord(r)
    \/ SwitchActive \/ RemoveJournal \/ FinishCommit \/ SettleOuterLease
FaultStep ==
    \/ StagingFails \/ SwitchFails \/ RemoveJournalFails \/ OuterLeaseFails \/ RecoveryFails
RecoverStep == RecoverGeneration \/ RecoverJournal \/ LoadActive \/ RollBack
Operation ==
    \/ \E pw \in Passwords : Create(pw)
    \/ Open
    \/ \E pw \in Passwords, key \in OuterKeys \cup {None}, mode \in LeaseModes :
          Unlock(pw, key, mode)
    \/ \E update \in Updates : Put(update)
    \/ \E old, new \in Passwords : ChangePassword(old, new)
    \/ \E key \in OuterKeys, recovery \in BOOLEAN : EnableOuter(key, recovery)
    \/ \E key \in OuterKeys : EnableOuterAgain(key) \/ DisableOuter(key) \/ RestoreOuterFromRecovery(key)
    \/ ChangeRecoveryPassword
    \/ IntegrityFailure \/ Lock \/ LeaseRunsOut
    \/ \E mode \in LeaseModes : SetLeaseMode(mode)

Next == CommitStep \/ FaultStep \/ RecoverStep \/ Operation \/ Crash

(* The goroutine that runs an operation is scheduled until it returns.       *)
Fairness == WF_vars(CommitStep \/ RecoverStep)

Spec == Init /\ [][Next]_vars /\ Fairness

-----------------------------------------------------------------------------
TypeOK ==
    /\ gens \in [Gens -> GenFiles]
    /\ active \in Gens \cup {None}
    /\ journal \in Journal \cup {None}
    /\ cur \in Gens \cup {None}
    /\ header \in Header \cup {None}
    /\ lease \in {"none", "fixed", "process", "expired"}
    /\ outerLease \in OuterKeys \cup {None}
    /\ txn \in Txn
    /\ outcome \in {"none", "ok", "failed"}
    /\ faults \in 0..MaxFaults

(* However an operation is cut short, the generation that "active" names can *)
(* be opened: its header and keyring are there and under the header's key.   *)
(* Guards the order of commitGenerationLocked and what recoverTransaction    *)
(* may delete.                                                               *)
ActiveOpens == active # None => Opens(gens[active])

(* ... and it holds every record its keyring names.                          *)
ActiveComplete == active # None => Complete(gens[active])

(* Between operations, what an open Vault believes is what a restart would   *)
(* find: the same generation under the same header.                          *)
MemoryMatchesDisk ==
    IsIdle /\ IsOpen => /\ cur = active
                       /\ header = gens[active].header
                       /\ Complete(gens[cur])

(* The outer key held in protected memory is the one the records are under.  *)
OuterLeaseFits ==
    IsIdle /\ IsOpen /\ outerLease # None /\ header.outer # None
        => outerLease = header.outer

(* The store implements VaultContract: what a restart finds is the           *)
(* generation "active" names, what the open Vault works on is the generation *)
(* it has in memory.  So a crash or an error at any write leaves the old     *)
(* state or the new one, never a mixture, a loss or a third state.           *)
Snapshot(h, g) == [header |-> h, records |-> gens[g].records]
Durable == IF active = None THEN None ELSE Snapshot(gens[active].header, active)
Damaged == [header |-> None, records |-> EmptyContent]
Visible ==
    IF ~IsOpen \/ cur = None THEN None
    ELSE IF Complete(gens[cur]) THEN Snapshot(header, cur) ELSE Damaged

Contract == INSTANCE VaultContract
    WITH Headers <- Header, Contents <- Content, Empty <- EmptyContent, Damaged <- Damaged,
         visible <- Visible, durable <- Durable
ImplementsContract == Contract!Spec

(* A write that was reported as done is what every later Open finds.         *)
SuccessIsDurable ==
    [][~IsIdle /\ txn'.pc = "idle" /\ outcome' = "ok" =>
          /\ active' = cur' /\ gens'[active'].header = header'
          /\ txn.kind # "open" =>
                /\ header' = txn.header
                /\ gens'[active'].records = txn.content]_vars

(* A migration that reports failure after a single fault leaves the header,  *)
(* the keys and the records as they were (the rollback of migrateOuter).     *)
FailedMigrationIsUndone ==
    [][txn.kind \in {"migrate", "rewrap", "rollback"} /\ txn'.pc = "idle" /\ outcome' = "failed"
          => /\ header' = txn.undo
             /\ Complete(gens'[cur'])
             /\ gens'[cur'].records = txn.content]_vars

(* A vault comes back: once nothing fails any more and the program goes on   *)
(* opening it, the vault that "active" names is open and stays so, whatever  *)
(* was interrupted before.  Open runs recoverTransaction first and gives up  *)
(* with its error, so no leftover may make the recovery refuse each time.    *)
VaultComesBack ==
    WF_vars(Open) /\ <>[][~(FaultStep \/ Crash)]_vars => <>[](active # None => IsOpen)
=============================================================================
