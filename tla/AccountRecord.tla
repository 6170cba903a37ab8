---------------------------- MODULE AccountRecord ----------------------------
(***************************************************************************)
(* The vault record of one Steam account and everyone who writes it        *)
(* (src/internal/steamguard).                                              *)
(*                                                                         *)
(* An account has one record: a stored session, an authenticator being     *)
(* enrolled, or an authenticator.  Enrollments serialise on a lock of      *)
(* their manager, some calls hold the account's operation slot, others the *)
(* service lock, and a renewal of the session holds none of them while it  *)
(* waits for Steam.  Each writes back what it read before.                 *)
(*                                                                         *)
(* Tokens are not told apart; whether one has lapsed is a choice.  A call  *)
(* to Steam is a step of Steam and a step that handles the answer, or does *)
(* without.  A write of the vault is one step, as GenerationStore shows.   *)
(* What the registry is told after it is left out.                         *)
(***************************************************************************)
EXTENDS Naturals, FiniteSets

CONSTANTS
    Callers,         \* goroutines that run a call of the service
    OwnGids,         \* authenticators that this program adds
    FileGid,         \* the authenticator of a maFile that exists elsewhere
    None,
    Happens,         \* bound: the calls and events of this instance
    MaxLocks         \* bound: vault locks, and so enrollment managers, in one process

ASSUME GidsDiffer == FileGid \notin OwnGids /\ None \notin OwnGids \cup Callers \cup {FileGid}
ASSUME LocksBounded == MaxLocks \in Nat

Gids == OwnGids \cup {FileGid}
NoRecord == [kind |-> "none", gid |-> None, ack |-> FALSE]
LoginOnly == [NoRecord EXCEPT !.kind = "login"]
Pending(g) == [kind |-> "pending", gid |-> g, ack |-> FALSE]
MaFile(g) == [kind |-> "mafile", gid |-> g, ack |-> TRUE]
Record == {NoRecord, LoginOnly} \cup [kind : {"pending"}, gid : OwnGids, ack : BOOLEAN]
                                \cup [kind : {"mafile"}, gid : Gids, ack : {TRUE}]

Ops == {"none", "sweep", "again", "fresh", "promote", "pollagain", "pollonly", "polladd",
        "finalize", "acknowledge", "resume", "forget", "import"}
(* remote: waits for renewed tokens; checked: holds Service.mu and has read  *)
(* the record; lock: waits for the manager's lock; add, final, query, work:  *)
(* hold it.                                                                  *)
Stages == {"idle", "remote", "rebind", "checked", "lock", "add", "final", "query", "work"}
Keys == {"account", "added", "none"}
Call == [op : Ops, pc : Stages, read : Record, gid : OwnGids \cup {None}, replace : BOOLEAN,
         cancelled : BOOLEAN, epoch : 0 .. MaxLocks, key : Keys]
NoCall == [op |-> "none", pc |-> "idle", read |-> NoRecord, gid |-> None, replace |-> FALSE,
           cancelled |-> FALSE, epoch |-> 0, key |-> "none"]

VARIABLES
    record,   \* what the vault holds for the account
    locked,   \* the vault is locked
    epoch,    \* which enrollment manager the service has
    calls,    \* the calls in flight
    slot,     \* steamOperationCancels: who holds the slot of a key
    steam,    \* Steam: the authenticator in force, and one added but not yet
    used,     \* history: authenticators Steam has given out here
    proved,   \* history: those that were in force at some time
    acked     \* history: those whose revocation code the user typed back

vars == <<record, locked, epoch, calls, slot, steam, used, proved, acked>>
world == <<steam, used, proved>>

Init ==
    /\ record = NoRecord /\ locked = FALSE /\ epoch = 0
    /\ calls = [c \in Callers |-> NoCall] /\ slot = [k \in Keys |-> None]
    /\ steam = [active |-> None, half |-> None]
    /\ used = {} /\ proved = {} /\ acked = {}

Idle(c) == calls[c].pc = "idle"
At(c, pc) == calls[c].pc = pc

-----------------------------------------------------------------------------
(* startBoundSteamOperation: one at a time for a key; unbound calls have     *)
(* none.                                                                     *)
Bound(c, key) ==
    /\ key # "none" => slot[key] = None
    /\ slot' = IF key = "none" THEN slot ELSE [slot EXCEPT ![key] = c]

(* Its finish gives up the slot if the operation still has it.               *)
SlotsAfter(c) == [k \in Keys |-> IF slot[k] = c THEN None ELSE slot[k]]
Ended(c) == calls' = [calls EXCEPT ![c] = NoCall] /\ slot' = SlotsAfter(c)
Go(c, pc) == calls' = [calls EXCEPT ![c].pc = pc] /\ UNCHANGED slot

(* A call authorised with the modal's capability begins on an open vault; it *)
(* has the enrollment manager of that time, or has read the record.          *)
Begins(c, op, pc, key) ==
    /\ op \in Happens /\ Idle(c) /\ ~locked /\ Bound(c, key)
    /\ calls' = [calls EXCEPT ![c] =
          IF pc = "lock" \/ op = "promote"
          THEN [NoCall EXCEPT !.op = op, !.pc = pc, !.key = key, !.epoch = epoch,
                              !.read = IF pc = "lock" THEN NoRecord ELSE record,
                              !.replace = op \in {"promote", "polladd"} /\ record.kind = "login"]
          ELSE [NoCall EXCEPT !.op = op, !.pc = pc, !.key = key, !.read = record]]
    /\ UNCHANGED <<record, locked, epoch, world, acked>>

-----------------------------------------------------------------------------
(* sessionrefresh: the record is loaded, Steam renews the tokens, and the    *)
(* record that was loaded is stored with them.                               *)

HasSession(r) == r.kind \in {"login", "mafile"}

(* The background sweep and the confirmations window: no slot, no context    *)
(* that a lock or a cancel ends.                                             *)
SweepRenews(c) == HasSession(record) /\ Begins(c, "sweep", "remote", "none")
LoginAgain(c) == HasSession(record) /\ Begins(c, "again", "remote", "account")
EnsureFreshSession(c) == HasSession(record) /\ Begins(c, "fresh", "remote", "account")

RenewalWrites(c) ==
    /\ At(c, "remote") /\ ~calls[c].cancelled /\ ~locked
    /\ record' = calls[c].read
    /\ \/ /\ calls[c].op = "promote"
          /\ calls' = [calls EXCEPT ![c].pc = "rebind", ![c].read = NoRecord]
          /\ slot' = SlotsAfter(c)
       \/ calls[c].op # "promote" /\ Ended(c)
    /\ UNCHANGED <<locked, epoch, world, acked>>

(* No refresh token, a refusal, no answer, offline, a locked vault.          *)
RenewalFails(c) ==
    /\ At(c, "remote")
    /\ Ended(c)
    /\ UNCHANGED <<record, locked, epoch, world, acked>>

-----------------------------------------------------------------------------
(* Sign-ins whose answer the service consumes.  The session is stored under  *)
(* Service.mu; an enrollment is started without it.  An account that is      *)
(* being added polls under a key of its own.                                 *)

ServiceLockFree == \A c \in Callers : ~At(c, "checked")

PollLoginAgain(c) == ServiceLockFree /\ Begins(c, "pollagain", "checked", "account")
PollLoginOnly(c) ==
    \E key \in {"account", "added"} : ServiceLockFree /\ Begins(c, "pollonly", "checked", key)
PollAddAuthenticator(c) == \E key \in {"account", "added"} : Begins(c, "polladd", "lock", key)
ForgetLoginOnly(c) == ServiceLockFree /\ Begins(c, "forget", "checked", "none")
(* importFiles and CommitRestoreMerge store what the user gives them.        *)
ImportAccount(c) == ServiceLockFree /\ Begins(c, "import", "checked", "none")

PutLoginOnlyAllowed(r) == r.kind \in {"none", "login"}

(* updateRecordSession, putLoginOnlyRecord, deleteLoginOnlyRecord, and       *)
(* commitImportedAccount and commitBackupRecord.                             *)
CheckedWrites(c) ==
    LET r == calls[c].read
        op == calls[c].op
    IN
    /\ At(c, "checked") /\ ~locked
    /\ \/ op = "pollagain" /\ HasSession(r) /\ record' = r /\ Ended(c)
       \/ op = "pollonly" /\ PutLoginOnlyAllowed(r) /\ record' = LoginOnly /\ Ended(c)
       \/ op = "forget" /\ r.kind = "login" /\ record' = NoRecord /\ Ended(c)
       \/ op = "forget" /\ r.kind = "none" /\ UNCHANGED record /\ Ended(c)
       \/ op = "import" /\ record' = MaFile(FileGid) /\ Ended(c)
       \/ op = "import" /\ record' = LoginOnly /\ Ended(c)
    /\ UNCHANGED <<locked, epoch, world, acked>>

CheckedRefuses(c) ==
    /\ At(c, "checked")
    /\ Ended(c)
    /\ UNCHANGED <<record, locked, epoch, world, acked>>

-----------------------------------------------------------------------------
(* enrollmentflow.Manager: every method takes the account's lock.            *)

(* PromoteLoginOnlyAccount renews a lapsed session first, gives the slot up, *)
(* and takes it again for the enrollment, with the manager it found at first.*)
PromoteLoginOnlyAccount(c) ==
    /\ record.kind = "login"
    /\ \E pc \in {"remote", "lock"} : Begins(c, "promote", pc, "account")
RebindPromotion(c) ==
    /\ At(c, "rebind")
    /\ \/ /\ Bound(c, "account")
          /\ calls' = [calls EXCEPT ![c].pc = "lock"]
       \/ slot["account"] # None /\ Ended(c)
    /\ UNCHANGED <<record, locked, epoch, world, acked>>

FinalizeEnrollment(c) == Begins(c, "finalize", "lock", "account")
AcknowledgeRevocationCode(c) == Begins(c, "acknowledge", "lock", "none")
(* resumedPromotion is the same for a pending record.                        *)
ResumeEnrollment(c) == Begins(c, "resume", "lock", "none")

Inside == {"add", "final", "query", "work"}
(* Mutant: the manager has no lock.                                          *)
NoLock(e) == TRUE
LockFree(e) == \A c \in Callers : calls[c].epoch = e => calls[c].pc \notin Inside

MayStart(c) == record.kind = "none" \/ (calls[c].replace /\ record.kind = "login")
MayFinalize(r) == r.kind = "pending" /\ r.ack

Starts(c) == calls[c].op \in {"promote", "polladd"}
(* ErrLocked, ErrAlreadyEnrolled, ErrNoPendingEnrollment and the like.       *)
TurnsBack(c) ==
    \/ locked
    \/ Starts(c) /\ record.kind # "pending" /\ ~MayStart(c)
    \/ calls[c].op = "finalize" /\ ~MayFinalize(record)
    \/ calls[c].op = "acknowledge" /\ (record.kind # "pending" \/ record.ack)
    \/ calls[c].op = "resume" /\ record.kind # "pending"
Reads(c, pc) == calls' = [calls EXCEPT ![c].pc = pc, ![c].read = record] /\ UNCHANGED slot

Enter(c) ==
    /\ At(c, "lock") /\ LockFree(calls[c].epoch)
    /\ \/ ~locked /\ (Starts(c) \/ calls[c].op = "resume") /\ record.kind = "pending" /\ Ended(c)
       \/ ~locked /\ Starts(c) /\ record.kind # "pending" /\ MayStart(c) /\ Reads(c, "add")
       \/ ~locked /\ calls[c].op = "finalize" /\ MayFinalize(record) /\ Reads(c, "final")
       \/ ~locked /\ calls[c].op = "acknowledge" /\ record.kind = "pending" /\ ~record.ack
             /\ Reads(c, "work")
       \/ TurnsBack(c) /\ Ended(c)
    /\ UNCHANGED <<record, locked, epoch, world, acked>>

(* Mutant: an answer without an authenticator is stored too.                 *)
AnyAnswer(c) == TRUE
Added(c) == calls[c].gid # None

(* Start: Steam has answered with an authenticator, and it is stored: a       *)
(* cancel ends the wait for Steam, but what was answered before it is kept.  *)
StartStores(c) ==
    /\ At(c, "add") /\ Added(c) /\ ~locked
    /\ record' = Pending(calls[c].gid) /\ Ended(c)
    /\ UNCHANGED <<locked, epoch, world, acked>>

AcknowledgeStores(c) ==
    /\ At(c, "work") /\ ~locked
    /\ record' = [calls[c].read EXCEPT !.ack = TRUE] /\ Ended(c)
    /\ acked' = acked \cup {calls[c].read.gid}
    /\ UNCHANGED <<locked, epoch, world>>

(* Finalize: complete, not yet, or refused; a refusal is checked against the *)
(* authenticator in force before it is believed.                             *)
FinalizeCompletes(c) ==
    /\ At(c, "final") /\ calls[c].gid # None /\ ~locked
    /\ record' = MaFile(calls[c].read.gid) /\ Ended(c)
    /\ UNCHANGED <<locked, epoch, world, acked>>
FinalizeWantsMore(c) ==
    /\ At(c, "final") /\ ~locked
    /\ record' = calls[c].read /\ Ended(c)
    /\ UNCHANGED <<locked, epoch, world, acked>>
FinalizeRefused(c) ==
    /\ At(c, "final") /\ Go(c, "query")
    /\ UNCHANGED <<record, locked, epoch, world, acked>>

(* Mutant: any authenticator in force will do.                               *)
SomeoneActive(c) == steam.active # None
SteamActivated(c) == steam.active # None /\ steam.active = calls[c].read.gid
CommitIfActivated(c) ==
    /\ At(c, "query") /\ ~locked /\ SteamActivated(c)
    /\ record' = MaFile(calls[c].read.gid) /\ Ended(c)
    /\ UNCHANGED <<locked, epoch, world, acked>>

(* A refused, lost or cancelled answer, or a vault that will not store it.   *)
ManagerFails(c) ==
    /\ calls[c].pc \in {"add", "query", "work"}
    /\ Ended(c)
    /\ UNCHANGED <<record, locked, epoch, world, acked>>

-----------------------------------------------------------------------------
(* CancelSteamGuardEnrollment ends the bound operation of the account, and   *)
(* then looks at what is pending.                                            *)
CancelSteamGuardEnrollment(c) ==
    /\ "cancel" \in Happens /\ Idle(c) /\ ~locked
    /\ calls' = [d \in Callers |->
                   IF d = c THEN [NoCall EXCEPT !.op = "resume", !.pc = "lock", !.epoch = epoch]
                   ELSE [calls[d] EXCEPT !.cancelled = @ \/ slot["account"] = d]]
    /\ slot' = [slot EXCEPT !["account"] = None]
    /\ UNCHANGED <<record, locked, epoch, world, acked>>

(* revokeLeases and closeAuthenticationManager: bound operations are         *)
(* cancelled and the next enrollment gets a new manager.                     *)
LockNow ==
    /\ "lock" \in Happens /\ epoch < MaxLocks /\ ServiceLockFree
    /\ locked' = TRUE /\ epoch' = epoch + 1
    /\ calls' = [c \in Callers |-> [calls[c] EXCEPT !.cancelled = @ \/ \E k \in Keys : slot[k] = c]]
    /\ slot' = [k \in Keys |-> None]
    /\ UNCHANGED <<record, world, acked>>
(* An export relocks the vault, and a lease runs out.                        *)
LeaseEnds ==
    /\ "lock" \in Happens /\ ~locked /\ locked' = TRUE
    /\ UNCHANGED <<record, epoch, calls, slot, world, acked>>
Unlock ==
    /\ locked /\ locked' = FALSE
    /\ UNCHANGED <<record, epoch, calls, slot, world, acked>>

Crash ==
    /\ "crash" \in Happens
    /\ calls' = [c \in Callers |-> NoCall] /\ slot' = [k \in Keys |-> None]
    /\ locked' = TRUE /\ epoch' = 0
    /\ UNCHANGED <<record, world, acked>>

-----------------------------------------------------------------------------
(* Steam.  It may put an added authenticator in force at once.               *)
Activate(g, h) == /\ steam' = [active |-> g, half |-> h]
                  /\ proved' = proved \cup ({g} \cap OwnGids)

SteamAdds(c) ==
    /\ At(c, "add") /\ calls[c].gid = None /\ ~calls[c].cancelled /\ steam.active = None
    /\ \E g \in OwnGids \ used :
          /\ used' = used \cup {g}
          /\ calls' = [calls EXCEPT ![c].gid = g]
          /\ Activate(g, None) \/ Activate(None, g)
    /\ UNCHANGED <<record, locked, epoch, slot, acked>>

SteamFinalizes(c) ==
    /\ At(c, "final") /\ calls[c].gid = None /\ ~calls[c].cancelled
    /\ calls[c].read.gid \in {steam.half, steam.active}
    /\ calls' = [calls EXCEPT ![c].gid = calls[c].read.gid]
    /\ Activate(calls[c].read.gid, None)
    /\ UNCHANGED <<record, locked, epoch, slot, used, acked>>

(* The user removes the authenticator, or sets another device up.            *)
OtherDevice ==
    /\ "device" \in Happens
    /\ \E g \in {None, FileGid} : Activate(g, None)
    /\ UNCHANGED <<record, locked, epoch, calls, slot, used, acked>>

-----------------------------------------------------------------------------
Begin(c) ==
    \/ SweepRenews(c) \/ LoginAgain(c) \/ EnsureFreshSession(c)
    \/ PollLoginAgain(c) \/ PollLoginOnly(c) \/ PollAddAuthenticator(c) \/ ForgetLoginOnly(c)
    \/ PromoteLoginOnlyAccount(c) \/ FinalizeEnrollment(c) \/ AcknowledgeRevocationCode(c)
    \/ ResumeEnrollment(c) \/ CancelSteamGuardEnrollment(c) \/ ImportAccount(c)

(* What the goroutine of a call does next, the wait for a lock apart.        *)
Proceed(c) ==
    \/ RenewalWrites(c) \/ RenewalFails(c)
    \/ CheckedWrites(c) \/ CheckedRefuses(c) \/ RebindPromotion(c)
    \/ StartStores(c) \/ AcknowledgeStores(c) \/ FinalizeCompletes(c) \/ FinalizeWantsMore(c)
    \/ FinalizeRefused(c) \/ CommitIfActivated(c) \/ ManagerFails(c)

Next ==
    \/ \E c \in Callers : Begin(c) \/ Proceed(c) \/ Enter(c) \/ SteamAdds(c) \/ SteamFinalizes(c)
    \/ LockNow \/ LeaseEnds \/ Unlock \/ Crash \/ OtherDevice

Spec == Init /\ [][Next]_vars
-----------------------------------------------------------------------------
(* Types.                                                                    *)
TypeOK ==
    /\ record \in Record /\ locked \in BOOLEAN /\ epoch \in 0 .. MaxLocks
    /\ calls \in [Callers -> Call] /\ slot \in [Keys -> Callers \cup {None}]
    /\ steam \in [active : Gids \cup {None}, half : OwnGids \cup {None}]
    /\ used \subseteq OwnGids /\ proved \subseteq used /\ acked \subseteq used

(* What the vault calls an authenticator is one that Steam did put in force, *)
(* for a user who has proved to hold its revocation code: no late, lost or   *)
(* wrong answer and no overlapping call makes Finalize commit anything else  *)
(* (commitIfSteamAlreadyActivated, AcknowledgeRevocationCode).               *)
ActiveIsEarned == record.kind = "mafile" /\ record.gid \in OwnGids => record.gid \in proved \cap acked

Progress(r) == IF r.kind = "mafile" THEN 2 ELSE IF r.ack THEN 1 ELSE 0
KnewOf(c, g) == calls[c].op # "import" /\ calls[c].read.gid = g
(* Secrets of an authenticator of ours leave the vault only by an import, or *)
(* by the write of a call that had not seen them (ErrAlreadyEnrolled,        *)
(* ErrWouldReplaceAuthenticator, ErrNotAuthenticator).  While they stay,     *)
(* their enrollment never goes back a step, as long as the process has its   *)
(* first manager (the account lock of enrollmentflow.Manager).               *)
EnrollmentKept ==
    [][\A g \in OwnGids : record.gid = g =>
          \/ record'.gid # g /\ \E c \in Callers : calls'[c] # calls[c] /\ ~KnewOf(c, g)
          \/ record'.gid = g /\ (epoch = 0 => Progress(record') >= Progress(record))]_vars

(* What the vault holds of an enrollment or of an authenticator stays there  *)
(* until the user replaces it: a renewal does not overwrite it               *)
(* (sessionrefresh/refresh_test.go: "pending enrollment was overwritten").   *)
StoredSecretsKept ==
    [][\A g \in OwnGids : record.gid = g /\ record'.gid # g =>
          \E c \in Callers : calls[c].op = "import" /\ calls'[c] # calls[c]]_vars
=============================================================================
