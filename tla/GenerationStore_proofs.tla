----------------------- MODULE GenerationStore_proofs -----------------------
(* Theorems about GenerationStore, for every set of generations, records,    *)
(* values, keys and passwords.                                               *)
EXTENDS GenerationStore, TLAPS

USE NoneIsNoData, NoneIsNoRecord, FaultBounds, LeaseModesAreKnown

LEMMA EmptyTyped == EmptyContent \in Content /\ EmptyGen \in GenFiles /\ Idle \in Txn
  BY DEF EmptyContent, Content, EmptyGen, GenFiles, Idle, Txn, Stages, Kinds

LEMMA LeftoversTyped ==
  ASSUME NEW gen \in GenFiles, NEW left \in Leftovers(gen)
  PROVE  left \in GenFiles
  BY EmptyTyped DEF Leftovers, GenFiles

LEMMA StartCommitTyped ==
  ASSUME TypeOK, NEW kind \in Kinds, NEW next \in Header, NEW content \in Content,
         NEW names \in SUBSET Records, NEW key \in OuterKeys \cup {None},
         NEW undo \in Header \cup {None}, StartCommit(kind, next, content, names, key, undo)
  PROVE  txn' \in Txn /\ gens' \in [Gens -> GenFiles]
<1> USE DEF TypeOK
<1>1. PICK g \in FreshGens :
         /\ txn' = [pc |-> "header", kind |-> kind, gen |-> g, prev |-> cur, header |-> next,
                    content |-> content, names |-> names,
                    key |-> IF next.outer = None THEN None ELSE key, undo |-> undo]
         /\ gens' = [gens EXCEPT ![g] = EmptyGen]
  BY DEF StartCommit
<1>2. g \in Gens
  BY DEF FreshGens
<1>3. txn' \in Txn
  BY <1>1, <1>2 DEF Txn, Stages
<1>4. gens' \in [Gens -> GenFiles]
  BY <1>1, <1>2, EmptyTyped
<1> QED
  BY <1>3, <1>4

-----------------------------------------------------------------------------
(* Why recovery and clean-up never hit the active generation: a generation   *)
(* being written is neither active nor the one it replaces, the journal      *)
(* names two different ones, and once "active" has moved the old one is      *)
(* not active.                                                               *)
Writing == {"header", "keyring", "records", "journal", "switch"}
Switched == {"unjournal", "cleanup"}

TxnShape ==
    /\ txn.pc \in Writing => txn.gen \in Gens /\ txn.gen # active /\ txn.gen # txn.prev
    /\ txn.pc \in {"journal", "switch"} => Opens(gens[txn.gen])
    /\ txn.pc \in Switched => txn.gen = active /\ txn.prev # active
    /\ txn.kind \in {"migrate", "rewrap"} => txn.undo \in Header
JournalShape == journal # None => journal.prev # journal.next

OpensInv == TypeOK /\ ActiveOpens /\ TxnShape /\ JournalShape

(* The journal on the disk always names a generation other than the one it   *)
(* replaces, so recovery goes on.                                            *)
LEMMA NotRefused ==
  ASSUME OpensInv, journal # None
  PROVE  ~Refused(journal)
  BY NoneIsNoData DEF OpensInv, TypeOK, JournalShape, Journal, Refused

LEMMA RecoversOn ==
  ASSUME OpensInv, RecoverGeneration
  PROVE  /\ txn.pc = "recoverGen"
         /\ journal = None => txn' = [txn EXCEPT !.pc = "recovered"] /\ UNCHANGED gens
         /\ journal # None => txn' = [txn EXCEPT !.pc = "recoverJournal"]
         /\ IF journal = None \/ Condemned = None THEN UNCHANGED gens
            ELSE gens' = [gens EXCEPT ![Condemned] = EmptyGen]
         /\ UNCHANGED <<active, journal, cur, header, lease, outerLease, outcome, faults>>
  BY NotRefused DEF RecoverGeneration

LEMMA OpensInit == Init => OpensInv
  BY EmptyTyped DEF Init, OpensInv, TypeOK, ActiveOpens, TxnShape, JournalShape, Idle, Writing, Switched

LEMMA OpensCommit ==
  ASSUME OpensInv, CommitStep
  PROVE  OpensInv'
<1> USE DEF OpensInv, TypeOK, ActiveOpens, TxnShape, JournalShape, Writing, Switched, Opens
<1>1. CASE WriteHeader
  BY <1>1 DEF WriteHeader, GenFiles, Txn, Stages
<1>2. CASE WriteKeyring
  BY <1>2 DEF WriteKeyring, GenFiles, Keyring, Txn, Stages
<1>3. CASE VerifyGeneration
  BY <1>3 DEF VerifyGeneration, Verified, Txn, Stages
<1>4. CASE WriteJournal
  BY <1>4 DEF WriteJournal, Journal, Txn, Stages
<1>5. ASSUME NEW r \in Records, WriteRecord(r) PROVE OpensInv'
  <2>1. txn.gen \in Gens /\ txn.gen # active /\ txn' = txn
    BY <1>5 DEF WriteRecord
  <2>2. txn.content[r] \in Values \cup {None} /\ gens[txn.gen].records \in Content
    BY <2>1 DEF Txn, Content, GenFiles
  <2>3. [gens[txn.gen].records EXCEPT ![r] = txn.content[r]] \in Content
    BY <2>2 DEF Content
  <2>4. gens' = [gens EXCEPT ![txn.gen] =
                    [gens[txn.gen] EXCEPT !.records =
                        [gens[txn.gen].records EXCEPT ![r] = txn.content[r]]]]
    BY <1>5 DEF WriteRecord
  <2>5. gens' \in [Gens -> GenFiles]
    BY <2>1, <2>3, <2>4 DEF GenFiles
  <2> QED
    BY <1>5, <2>1, <2>4, <2>5 DEF WriteRecord
<1>6. CASE SwitchActive
  BY <1>6 DEF SwitchActive, Txn, Stages
<1>7. CASE RemoveJournal
  BY <1>7 DEF RemoveJournal, Txn, Stages
<1>8. CASE FinishCommit
  <2>1. gens' \in [Gens -> GenFiles] /\ (active # None => gens'[active] = gens[active])
    <3>1. txn.prev \in Gens \cup {None} /\ txn.prev # active
      BY <1>8 DEF FinishCommit, Txn
    <3>2. CASE txn.prev = None
      BY <1>8, <3>2 DEF FinishCommit
    <3>3. CASE txn.prev # None
      <4>1. PICK left \in Leftovers(gens[txn.prev]) : gens' = [gens EXCEPT ![txn.prev] = left]
        BY <1>8, <3>3 DEF FinishCommit
      <4>2. left \in GenFiles
        BY <3>1, <3>3, LeftoversTyped
      <4> QED
        BY <3>1, <4>1, <4>2
    <3> QED
      BY <3>2, <3>3
  <2>2. /\ txn' = [txn EXCEPT !.pc = "outerlease"] \/ txn' = Idle
        /\ outcome' \in {outcome, "ok", "failed"}
        /\ lease' \in {lease, "none"} /\ outerLease' \in {outerLease, None}
        /\ UNCHANGED <<active, journal, cur, header, faults>>
    BY <1>8 DEF FinishCommit, NoLease, leases
  <2>3. txn' \in Txn /\ TxnShape'
    BY <2>2, EmptyTyped DEF Txn, Stages, Idle
  <2> QED
    BY <2>1, <2>2, <2>3
<1>9. CASE SettleOuterLease
  BY <1>9, EmptyTyped DEF SettleOuterLease, Txn, Idle
<1> QED
  BY <1>1, <1>2, <1>3, <1>4, <1>5, <1>6, <1>7, <1>8, <1>9 DEF CommitStep

LEMMA OpensFault ==
  ASSUME OpensInv, FaultStep
  PROVE  OpensInv'
<1> USE DEF OpensInv, TypeOK, ActiveOpens, TxnShape, JournalShape, Writing, Switched, Opens
<1>1. CASE StagingFails
  BY <1>1, EmptyTyped, LeftoversTyped DEF StagingFails, Fault, Fail, MemoryAfterFail, memory, Txn, Stages, Journal, Idle
<1>2. CASE SwitchFails
  BY <1>2, EmptyTyped DEF SwitchFails, Fault, Fail, MemoryAfterFail, memory, Txn, Stages, Idle
<1>3. CASE RemoveJournalFails
  BY <1>3, EmptyTyped DEF RemoveJournalFails, Fault, Fail, MemoryAfterFail, memory, Txn, Stages, Idle
<1>4. CASE OuterLeaseFails
  BY <1>4, EmptyTyped DEF OuterLeaseFails, Fault, Fail, Txn, Stages, Idle
<1>5. CASE RecoveryFails
  BY <1>5, EmptyTyped, LeftoversTyped DEF RecoveryFails, Fault, Condemned, Txn, Stages, Journal, Idle
<1> QED
  BY <1>1, <1>2, <1>3, <1>4, <1>5 DEF FaultStep

LEMMA OpensStart ==
  ASSUME OpensInv, NEW kind \in Kinds, NEW next \in Header, NEW content \in Content,
         NEW names \in SUBSET Records, NEW key \in OuterKeys \cup {None},
         NEW undo \in Header \cup {None}, StartCommit(kind, next, content, names, key, undo),
         kind \in {"migrate", "rewrap"} => undo \in Header,
         UNCHANGED <<active, journal>>
  PROVE  /\ txn' \in Txn /\ gens' \in [Gens -> GenFiles]
         /\ ActiveOpens' /\ TxnShape' /\ JournalShape'
<1>1. txn' \in Txn /\ gens' \in [Gens -> GenFiles]
  BY StartCommitTyped DEF OpensInv
<1>2. PICK g \in FreshGens :
         /\ txn' = [pc |-> "header", kind |-> kind, gen |-> g, prev |-> cur, header |-> next,
                    content |-> content, names |-> names,
                    key |-> IF next.outer = None THEN None ELSE key, undo |-> undo]
         /\ gens' = [gens EXCEPT ![g] = EmptyGen]
  BY DEF StartCommit
<1>3. g \in Gens /\ g # active /\ g # cur
  BY DEF FreshGens, NamedGens
<1>4. ActiveOpens' /\ JournalShape'
  BY <1>2, <1>3 DEF OpensInv, TypeOK, ActiveOpens, JournalShape, Opens
<1>5. TxnShape'
  BY <1>2, <1>3 DEF TxnShape, Writing, Switched
<1> QED
  BY <1>1, <1>4, <1>5

LEMMA OpensRecover ==
  ASSUME OpensInv, RecoverStep
  PROVE  OpensInv'
<1> USE DEF OpensInv, TypeOK, ActiveOpens, TxnShape, JournalShape, Writing, Switched, Opens
<1>1. CASE RecoverGeneration
  BY <1>1, EmptyTyped, RecoversOn DEF Condemned, Txn, Stages, Journal
<1>2. CASE RecoverJournal
  BY <1>2 DEF RecoverJournal, Txn, Stages
<1>3. CASE LoadActive
  BY <1>3, EmptyTyped DEF LoadActive, memory, Idle, Txn, GenFiles
<1>4. CASE RollBack
  <2>1. CASE header = txn.undo
    <3>1. txn' = Idle /\ outcome' = "failed"
          /\ UNCHANGED <<gens, active, journal, cur, header, lease, outerLease, faults>>
      BY <1>4, <2>1 DEF RollBack
    <3>2. TypeOK' /\ ActiveOpens'
      BY <3>1, EmptyTyped
    <3>3. TxnShape' /\ JournalShape'
      BY <3>1 DEF Idle
    <3> QED
      BY <3>2, <3>3
  <2>2. CASE header # txn.undo
    <3>1. StartCommit("rollback", txn.undo, txn.content, txn.names, txn.undo.outer, txn.undo)
      BY <1>4, <2>2 DEF RollBack
    <3>2. txn.undo \in Header /\ txn.undo.outer \in OuterKeys \cup {None}
      BY <1>4 DEF RollBack, Header
    <3>3. txn.content \in Content /\ txn.names \in SUBSET Records
      BY DEF Txn
    <3>4. /\ txn' \in Txn /\ gens' \in [Gens -> GenFiles]
          /\ ActiveOpens' /\ TxnShape' /\ JournalShape'
      BY <1>4, <3>1, <3>2, <3>3, OpensStart DEF RollBack, Kinds
    <3> QED
      BY <1>4, <3>4, <2>2 DEF RollBack
  <2> QED
    BY <2>1, <2>2
<1> QED
  BY <1>1, <1>2, <1>3, <1>4 DEF RecoverStep

LEMMA UpdatedTyped ==
  ASSUME NEW content \in Content, NEW update \in Updates
  PROVE  Updated(content, update) \in Content /\ NamesOf(content) \in SUBSET Records
  BY DEF Updated, Updates, Content, NamesOf

LEMMA OpensOperation ==
  ASSUME OpensInv, Operation
  PROVE  OpensInv'
<1> USE DEF OpensInv, TypeOK
<1>0. header # None => header \in Header
  OBVIOUS
<1>1. ASSUME NEW pw \in Passwords, Create(pw) PROVE OpensInv'
  <2> DEFINE first == [password |-> pw, outer |-> None, recovery |-> FALSE]
  <2>1. first \in Header
    BY DEF Header
  <2>2. StartCommit("create", first, EmptyContent, {}, None, None)
    BY <1>1 DEF Create
  <2> HIDE DEF first
  <2>3. /\ txn' \in Txn /\ gens' \in [Gens -> GenFiles]
        /\ ActiveOpens' /\ TxnShape' /\ JournalShape'
    BY <1>1, <2>1, <2>2, EmptyTyped, OpensStart DEF Create, Kinds
  <2>4. header' = first
    BY <1>1 DEF Create, first
  <2>5. faults' = 0 /\ UNCHANGED <<active, journal, cur, lease, outerLease, outcome>>
    BY <1>1 DEF Create
  <2> QED
    BY <2>1, <2>3, <2>4, <2>5
<1>2. CASE Open
  <2>1. txn' = [Idle EXCEPT !.pc = "recoverGen", !.kind = "open"] /\ faults' = 0
        /\ UNCHANGED <<gens, active, journal, cur, header, lease, outerLease, outcome>>
    BY <1>2 DEF Open
  <2>2. txn' \in Txn
    BY <2>1, EmptyTyped DEF Txn, Stages, Kinds
  <2>3. ActiveOpens' /\ TxnShape' /\ JournalShape'
    BY <2>1, <2>2 DEF Idle, ActiveOpens, Opens, TxnShape, JournalShape, Writing, Switched
  <2> QED
    BY <2>1, <2>2, <2>3
<1>3. ASSUME NEW pw \in Passwords, NEW key \in OuterKeys \cup {None}, NEW mode \in LeaseModes,
             Unlock(pw, key, mode)
      PROVE  OpensInv'
  BY <1>3 DEF Unlock, ActiveOpens, TxnShape, JournalShape, Opens
<1>4. ASSUME NEW update \in Updates, Put(update) PROVE OpensInv'
  <2> DEFINE next == Updated(gens[cur].records, update)
  <2>1. cur \in Gens /\ gens[cur].records \in Content /\ header \in Header
    BY <1>0, <1>4 DEF Put, Readable, FilesReadable, IsOpen, GenFiles
  <2>2. next \in Content /\ NamesOf(next) \in SUBSET Records
    BY <2>1, UpdatedTyped
  <2>3. StartCommit("put", header, next, NamesOf(next), outerLease, None)
    BY <1>4 DEF Put
  <2> HIDE DEF next
  <2>4. /\ txn' \in Txn /\ gens' \in [Gens -> GenFiles]
        /\ ActiveOpens' /\ TxnShape' /\ JournalShape'
    BY <1>4, <2>1, <2>2, <2>3, OpensStart DEF Put, Kinds
  <2> QED
    BY <1>4, <2>4 DEF Put
<1>5. ASSUME NEW old \in Passwords, NEW new \in Passwords, ChangePassword(old, new)
      PROVE  OpensInv'
  <2>1. cur \in Gens /\ gens[cur].records \in Content /\ header \in Header
    BY <1>0, <1>5 DEF ChangePassword, Readable, FilesReadable, IsOpen, GenFiles
  <2>2. gens[cur].keyring.names \in SUBSET Records
    BY <1>5, <2>1 DEF ChangePassword, Readable, FilesReadable, GenFiles, Keyring
  <2>3. [header EXCEPT !.password = new] \in Header
    BY <2>1 DEF Header
  <2>4. /\ txn' \in Txn /\ gens' \in [Gens -> GenFiles]
        /\ ActiveOpens' /\ TxnShape' /\ JournalShape'
    BY <1>5, <2>1, <2>2, <2>3, OpensStart DEF ChangePassword, Kinds
  <2> QED
    BY <1>5, <2>4 DEF ChangePassword
<1>6. ASSUME NEW kind \in {"migrate", "rewrap"}, NEW key, NEW target \in OuterKeys \cup {None},
             NEW recovery \in BOOLEAN, MigrateOuter(kind, key, target, recovery)
      PROVE  OpensInv'
  <2>1. cur \in Gens /\ gens[cur].records \in Content /\ header \in Header
    BY <1>0, <1>6 DEF MigrateOuter, FilesReadable, IsOpen, GenFiles
  <2>2. gens[cur].keyring.names \in SUBSET Records
    BY <1>6, <2>1 DEF MigrateOuter, FilesReadable, GenFiles, Keyring
  <2> DEFINE next == [header EXCEPT !.outer = target, !.recovery = recovery]
  <2>3. next \in Header /\ kind \in Kinds
    BY <2>1 DEF Header, Kinds
  <2>6. StartCommit(kind, next, gens[cur].records, gens[cur].keyring.names, target, header)
    BY <1>6 DEF MigrateOuter
  <2>7. UNCHANGED <<active, journal>>
    BY <1>6 DEF MigrateOuter
  <2> HIDE DEF next
  <2>4. /\ txn' \in Txn /\ gens' \in [Gens -> GenFiles]
        /\ ActiveOpens' /\ TxnShape' /\ JournalShape'
    BY <2>1, <2>2, <2>3, <2>6, <2>7, OpensStart
  <2>5. faults' = 0 /\ UNCHANGED <<active, journal, cur, header, lease, outerLease, outcome>>
    BY <1>6 DEF MigrateOuter
  <2> QED
    BY <2>4, <2>5
<1>7. ASSUME NEW key \in OuterKeys, NEW recovery \in BOOLEAN, EnableOuter(key, recovery)
      PROVE  OpensInv'
  BY <1>6, <1>7 DEF EnableOuter
<1>8. ASSUME NEW key \in OuterKeys, DisableOuter(key) PROVE OpensInv'
  BY <1>6, <1>8 DEF DisableOuter
<1>9. ASSUME NEW key \in OuterKeys, RestoreOuterFromRecovery(key) PROVE OpensInv'
  BY <1>6, <1>9 DEF RestoreOuterFromRecovery
<1>10. CASE ChangeRecoveryPassword
  <2>1. header.outer \in OuterKeys \cup {None}
    BY <1>0, <1>10 DEF ChangeRecoveryPassword, IsOpen, Header
  <2> QED
    BY <1>6, <1>10, <2>1 DEF ChangeRecoveryPassword
<1>11. ASSUME NEW key \in OuterKeys, EnableOuterAgain(key) PROVE OpensInv'
  BY <1>11 DEF EnableOuterAgain, ActiveOpens, TxnShape, JournalShape, Opens
<1>12. CASE IntegrityFailure
  BY <1>12 DEF IntegrityFailure, NoLease, ActiveOpens, TxnShape, JournalShape, Opens
<1>13. CASE Lock
  BY <1>13 DEF Lock, NoLease, ActiveOpens, TxnShape, JournalShape, Opens
<1>14. CASE LeaseRunsOut
  BY <1>14 DEF LeaseRunsOut, ActiveOpens, TxnShape, JournalShape, Opens
<1>15. ASSUME NEW mode \in LeaseModes, SetLeaseMode(mode) PROVE OpensInv'
  BY <1>15 DEF SetLeaseMode, NoLease, ActiveOpens, TxnShape, JournalShape, Opens
<1> QED
  BY <1>1, <1>2, <1>3, <1>4, <1>5, <1>7, <1>8, <1>9, <1>10, <1>11, <1>12, <1>13, <1>14, <1>15
     DEF Operation

LEMMA OpensCrash ==
  ASSUME OpensInv, Crash
  PROVE  OpensInv'
  BY EmptyTyped DEF Crash, disk, NoLease, Idle, OpensInv, TypeOK, ActiveOpens, TxnShape,
     JournalShape, Opens, Writing, Switched

LEMMA OpensStutter ==
  ASSUME OpensInv, UNCHANGED vars
  PROVE  OpensInv'
  BY DEF vars, OpensInv, TypeOK, ActiveOpens, TxnShape, JournalShape, Opens

(* What recovery, roll-back and clean-up delete is never the generation that *)
(* "active" names, whatever fails and wherever the process dies.             *)
THEOREM OpensInvariant == Spec => []OpensInv
<1>1. OpensInv /\ [Next]_vars => OpensInv'
  BY OpensCommit, OpensFault, OpensRecover, OpensOperation, OpensCrash, OpensStutter DEF Next
<1> QED
  BY <1>1, OpensInit, PTL DEF Spec

(* Every variable keeps its type.                                            *)
THEOREM TypeCorrect == Spec => []TypeOK
<1>1. OpensInv => TypeOK
  BY DEF OpensInv
<1> QED
  BY <1>1, OpensInvariant, PTL

(* For any number of generations, records and keys, any number of faults per *)
(* operation, late ones included, and a crash anywhere, the generation that  *)
(* the file "active" names can be opened: recovery, roll-back and clean-up   *)
(* never delete it (commitGenerationLocked, recoverTransaction).             *)
THEOREM ActiveGenerationOpens == Spec => []ActiveOpens
<1>1. OpensInv => ActiveOpens
  BY DEF OpensInv
<1> QED
  BY <1>1, OpensInvariant, PTL

(* recoverTransaction never refuses the journal it finds, whatever wrote or  *)
(* left it: the part of VaultComesBack that is a matter of safety.           *)
THEOREM RecoveryNeverRefuses == Spec => [](journal # None => ~Refused(journal))
<1>1. OpensInv => (journal # None => ~Refused(journal))
  BY NotRefused
<1> QED
  BY <1>1, OpensInvariant, PTL

-----------------------------------------------------------------------------
(* What a write carries from one of its steps to the next: the files of the  *)
(* new generation, and after the switch, that memory and disk agree on it.   *)
Installed == {"unjournal", "cleanup", "outerlease"}

WriteShape ==
    /\ txn.pc \in {"keyring", "records", "journal", "switch"} =>
          gens[txn.gen].header = txn.header
    /\ txn.pc \in {"journal", "switch"} => gens[txn.gen].records = txn.content
    /\ txn.pc \in Installed =>
          /\ txn.gen \in Gens /\ active = txn.gen /\ cur = txn.gen
          /\ header = txn.header /\ gens[txn.gen].header = txn.header
          /\ gens[txn.gen].records = txn.content

DurableInv == OpensInv /\ WriteShape

LEMMA WriteShapeCommit ==
  ASSUME DurableInv, CommitStep
  PROVE  WriteShape'
<1> USE DEF DurableInv, OpensInv, TypeOK, TxnShape, WriteShape, Writing, Switched, Installed
<1>1. CASE WriteHeader
  BY <1>1 DEF WriteHeader, GenFiles, Txn
<1>2. CASE WriteKeyring
  BY <1>2 DEF WriteKeyring, GenFiles, Txn
<1>3. CASE VerifyGeneration
  BY <1>3 DEF VerifyGeneration, Txn
<1>4. CASE WriteJournal
  BY <1>4 DEF WriteJournal, Txn
<1>5. ASSUME NEW r \in Records, WriteRecord(r) PROVE WriteShape'
  BY <1>5 DEF WriteRecord, GenFiles, Txn
<1>6. CASE SwitchActive
  BY <1>6 DEF SwitchActive, Txn
<1>7. CASE RemoveJournal
  BY <1>7 DEF RemoveJournal, Txn
<1>8. CASE FinishCommit
  <2>1. txn.prev # txn.gen /\ gens'[txn.gen] = gens[txn.gen]
    BY <1>8 DEF FinishCommit, Txn
  <2>2. txn' = [txn EXCEPT !.pc = "outerlease"] \/ txn' = Idle
    BY <1>8 DEF FinishCommit
  <2> QED
    BY <1>8, <2>1, <2>2 DEF FinishCommit, Txn, Idle
<1>9. CASE SettleOuterLease
  BY <1>9 DEF SettleOuterLease, Idle
<1> QED
  BY <1>1, <1>2, <1>3, <1>4, <1>5, <1>6, <1>7, <1>8, <1>9 DEF CommitStep

(* A step after which no file is written any more, or none is written yet.   *)
LEMMA WriteShapeElsewhere ==
  ASSUME txn'.pc \in {"idle", "header", "recoverGen", "recoverJournal", "recovered"}
  PROVE  WriteShape'
  BY DEF WriteShape, Installed

LEMMA StartsAtHeader ==
  ASSUME NEW kind, NEW next, NEW content, NEW names, NEW key, NEW undo,
         StartCommit(kind, next, content, names, key, undo)
  PROVE  txn'.pc = "header"
  BY DEF StartCommit

LEMMA WriteShapePreserved ==
  ASSUME DurableInv, [Next]_vars
  PROVE  WriteShape'
<1> USE DEF DurableInv, OpensInv, TypeOK
<1>1. CASE CommitStep
  BY <1>1, WriteShapeCommit
<1>2. CASE FaultStep
  <2>1. txn'.pc \in {"idle", "recoverGen"}
    BY <1>2 DEF FaultStep, StagingFails, SwitchFails, RemoveJournalFails, OuterLeaseFails,
       RecoveryFails, Fail, Idle, Txn
  <2> QED
    BY <2>1, WriteShapeElsewhere
<1>3. CASE RecoverStep
  <2>1. txn'.pc \in {"idle", "header", "recoverJournal", "recovered"}
    BY <1>3, StartsAtHeader DEF RecoverStep, RecoverGeneration, RecoverJournal, LoadActive,
       RollBack, Idle, Txn
  <2> QED
    BY <2>1, WriteShapeElsewhere
<1>4. CASE Operation
  <2>1. CASE LeaseRunsOut
    BY <2>1 DEF LeaseRunsOut, WriteShape
  <2>2. CASE ~LeaseRunsOut
    <3>1. IsIdle /\ (txn' = txn \/ txn'.pc \in {"header", "recoverGen"})
      BY <1>4, <2>2, StartsAtHeader
         DEF Operation, Create, Open, Unlock, Put, ChangePassword, EnableOuter, EnableOuterAgain,
             DisableOuter, RestoreOuterFromRecovery, ChangeRecoveryPassword, MigrateOuter,
             IntegrityFailure, Lock, SetLeaseMode, Idle
    <3> QED
      BY <3>1, WriteShapeElsewhere DEF IsIdle
  <2> QED
    BY <2>1, <2>2
<1>5. CASE Crash
  BY <1>5, WriteShapeElsewhere DEF Crash, Idle
<1>6. CASE UNCHANGED vars
  BY <1>6 DEF vars, WriteShape
<1> QED
  BY <1>1, <1>2, <1>3, <1>4, <1>5, <1>6 DEF Next

(* What one write of a commit put on disk is still there when the commit     *)
(* reports success (commitGenerationLocked).                                 *)
THEOREM DurableInvariant == Spec => []DurableInv
<1>1. Init => WriteShape
  BY DEF Init, Idle, WriteShape, Installed
<1>2. OpensInv /\ WriteShape /\ [Next]_vars => WriteShape'
  BY WriteShapePreserved DEF DurableInv
<1>3. OpensInv /\ WriteShape <=> DurableInv
  BY DEF DurableInv
<1> QED
  BY <1>1, <1>2, <1>3, OpensInvariant, PTL DEF Spec

(* A write that was reported as done is what every later Open finds.         *)
THEOREM ReportedWritesAreDurable == Spec => SuccessIsDurable
<1> DEFINE A == ~IsIdle /\ txn'.pc = "idle" /\ outcome' = "ok" =>
                    /\ active' = cur' /\ gens'[active'].header = header'
                    /\ txn.kind # "open" =>
                          /\ header' = txn.header
                          /\ gens'[active'].records = txn.content
<1>1. ASSUME DurableInv, [Next]_vars, ~IsIdle, txn'.pc = "idle", outcome' = "ok"
      PROVE  A
  <2> USE DEF DurableInv, OpensInv, TypeOK, TxnShape, WriteShape, Installed, Switched
  <2>1. CASE FinishCommit
    <3>1. txn.prev # txn.gen /\ gens'[txn.gen] = gens[txn.gen]
      BY <1>1, <2>1 DEF FinishCommit, Txn
    <3>2. txn.pc = "cleanup" /\ UNCHANGED <<active, cur, header>>
      BY <2>1 DEF FinishCommit
    <3> QED
      BY <1>1, <3>1, <3>2
  <2>2. CASE SettleOuterLease
    BY <1>1, <2>2 DEF SettleOuterLease
  <2>3. CASE LoadActive
    BY <1>1, <2>3 DEF LoadActive, memory
  <2>4. CASE ~FinishCommit /\ ~SettleOuterLease /\ ~LoadActive
    <3>1. ~CommitStep
      BY <1>1, <2>4 DEF CommitStep, WriteHeader, WriteKeyring, VerifyGeneration, WriteJournal,
         WriteRecord, SwitchActive, RemoveJournal, IsIdle, Txn
    <3>2. ~FaultStep
      BY <1>1 DEF FaultStep, StagingFails, SwitchFails, RemoveJournalFails, OuterLeaseFails,
         RecoveryFails, Fail, Txn
    <3>3. ~RecoverStep
      BY <1>1, <2>4, StartsAtHeader DEF RecoverStep, RecoverGeneration, RecoverJournal, RollBack, Txn
    <3>4. ~Operation
      BY <1>1, StartsAtHeader
         DEF Operation, Create, Open, Unlock, Put, ChangePassword, EnableOuter, EnableOuterAgain,
             DisableOuter, RestoreOuterFromRecovery, ChangeRecoveryPassword, MigrateOuter,
             IntegrityFailure, Lock, LeaseRunsOut, SetLeaseMode, IsIdle
    <3>5. ~Crash /\ ~UNCHANGED vars
      BY <1>1 DEF Crash, vars, IsIdle
    <3> QED
      BY <1>1, <3>1, <3>2, <3>3, <3>4, <3>5 DEF Next
  <2> QED
    BY <2>1, <2>2, <2>3, <2>4
<1>2. DurableInv /\ [Next]_vars => [A]_vars
  BY <1>1
<1>3. []DurableInv /\ [][Next]_vars => [][A]_vars
  BY <1>2, PTL
<1> QED
  BY <1>3, DurableInvariant, PTL DEF Spec, SuccessIsDurable

-----------------------------------------------------------------------------
(* Nothing but the switch moves "active", and nothing touches the files of   *)
(* the active generation.                                                    *)
LEMMA ActiveFilesStay ==
  ASSUME OpensInv, [Next]_vars, ~SwitchActive, ~LateFaults
  PROVE  /\ active' = active
         /\ active # None => gens'[active] = gens[active]
<1> USE DEF OpensInv, TypeOK, TxnShape, JournalShape, Writing, Switched
<1>1. CASE CommitStep
  <2>1. CASE FinishCommit
    BY <2>1 DEF FinishCommit
  <2>2. CASE RemoveJournal \/ VerifyGeneration \/ WriteJournal \/ SettleOuterLease
    BY <2>2 DEF RemoveJournal, VerifyGeneration, WriteJournal, SettleOuterLease
  <2>3. CASE WriteHeader
    BY <2>3 DEF WriteHeader
  <2>4. CASE WriteKeyring
    BY <2>4 DEF WriteKeyring
  <2>5. ASSUME NEW r \in Records, WriteRecord(r)
        PROVE  active' = active /\ (active # None => gens'[active] = gens[active])
    BY <2>5 DEF WriteRecord
  <2> QED
    BY <1>1, <2>1, <2>2, <2>3, <2>4, <2>5 DEF CommitStep
<1>2. CASE FaultStep
  <2>1. CASE StagingFails
    BY <2>1 DEF StagingFails
  <2>2. CASE RecoveryFails
    BY <2>2 DEF RecoveryFails, Condemned, Journal
  <2>3. CASE SwitchFails \/ RemoveJournalFails \/ OuterLeaseFails
    BY <2>3 DEF SwitchFails, RemoveJournalFails, OuterLeaseFails
  <2> QED
    BY <1>2, <2>1, <2>2, <2>3 DEF FaultStep
<1>3. CASE RecoverStep
  <2>1. CASE RecoverGeneration
    BY <2>1, RecoversOn DEF Condemned, Journal
  <2>2. CASE RecoverJournal \/ LoadActive
    BY <2>2 DEF RecoverJournal, LoadActive
  <2>3. CASE RollBack
    BY <2>3 DEF RollBack, StartCommit, FreshGens, NamedGens
  <2> QED
    BY <1>3, <2>1, <2>2, <2>3 DEF RecoverStep
<1>4. CASE Operation
  <2>1. ASSUME NEW kind, NEW next, NEW content, NEW names, NEW key, NEW undo,
               StartCommit(kind, next, content, names, key, undo)
        PROVE  active # None => gens'[active] = gens[active]
    BY <2>1 DEF StartCommit, FreshGens, NamedGens
  <2> QED
    BY <1>4, <2>1
       DEF Operation, Create, Open, Unlock, Put, ChangePassword, EnableOuter, EnableOuterAgain,
           DisableOuter, RestoreOuterFromRecovery, ChangeRecoveryPassword, MigrateOuter,
           IntegrityFailure, Lock, LeaseRunsOut, SetLeaseMode
<1>5. CASE Crash \/ UNCHANGED vars
  BY <1>5 DEF Crash, disk, vars
<1> QED
  BY <1>1, <1>2, <1>3, <1>4, <1>5 DEF Next

-----------------------------------------------------------------------------
(* When a write never reports failure after its rename, memory and disk stay *)
(* in step, so what is copied into the next generation is always whole.      *)
MemoryShape ==
    /\ cur # None => /\ cur = active /\ header # None
                     /\ header = gens[cur].header
    /\ cur = None /\ header # None => txn.kind = "create" /\ txn.pc \in Writing

CopyShape ==
    /\ \A r \in txn.names : txn.content[r] # None
    /\ txn.pc \in {"records", "journal", "switch"} => gens[txn.gen].keyring = [names |-> txn.names]

CompleteInv == DurableInv /\ ActiveComplete /\ MemoryShape /\ CopyShape

LEMMA CompleteCopy ==
  ASSUME CompleteInv, txn.pc \in {"journal", "switch"}
  PROVE  Complete(gens[txn.gen])
  BY DEF CompleteInv, DurableInv, OpensInv, TxnShape, WriteShape, CopyShape, Complete,
     HasEveryRecord

LEMMA CompleteCommit ==
  ASSUME CompleteInv, CommitStep
  PROVE  ActiveComplete' /\ MemoryShape' /\ CopyShape'
<1> USE DEF CompleteInv, DurableInv, OpensInv, TypeOK, TxnShape, WriteShape, MemoryShape,
        CopyShape, ActiveComplete, Complete, Opens, HasEveryRecord, Writing, Switched, Installed
<1>1. CASE WriteHeader
  BY <1>1 DEF WriteHeader, GenFiles, Txn
<1>2. CASE WriteKeyring
  BY <1>2 DEF WriteKeyring, GenFiles, Txn
<1>3. CASE VerifyGeneration
  BY <1>3 DEF VerifyGeneration, Txn
<1>4. CASE WriteJournal
  BY <1>4 DEF WriteJournal, Txn
<1>5. ASSUME NEW r \in Records, WriteRecord(r) PROVE ActiveComplete' /\ MemoryShape' /\ CopyShape'
  BY <1>5 DEF WriteRecord, GenFiles, Txn
<1>6. CASE SwitchActive
  BY <1>6, CompleteCopy DEF SwitchActive, Txn
<1>7. CASE RemoveJournal
  BY <1>7 DEF RemoveJournal, Txn
<1>8. CASE FinishCommit
  <2>1. txn.prev # txn.gen /\ gens'[txn.gen] = gens[txn.gen] /\ txn.pc = "cleanup"
    BY <1>8 DEF FinishCommit, Txn
  <2>2. txn' = [txn EXCEPT !.pc = "outerlease"] \/ txn' = Idle
    BY <1>8 DEF FinishCommit
  <2>3. UNCHANGED <<active, cur, header>>
    BY <1>8 DEF FinishCommit
  <2> QED
    BY <2>1, <2>2, <2>3 DEF Txn, Idle
<1>9. CASE SettleOuterLease
  BY <1>9 DEF SettleOuterLease, Idle
<1> QED
  BY <1>1, <1>2, <1>3, <1>4, <1>5, <1>6, <1>7, <1>8, <1>9 DEF CommitStep

LEMMA CompleteFault ==
  ASSUME CompleteInv, FaultStep, ~LateFaults
  PROVE  ActiveComplete' /\ MemoryShape' /\ CopyShape'
<1> USE DEF CompleteInv, DurableInv, OpensInv, TypeOK, TxnShape, JournalShape, WriteShape,
        MemoryShape, CopyShape, ActiveComplete, Complete, Opens, HasEveryRecord, Writing,
        Switched, Installed
<1>1. CASE StagingFails
  BY <1>1 DEF StagingFails, Fault, Fail, MemoryAfterFail, memory, Txn, Idle
<1>2. CASE SwitchFails
  BY <1>2 DEF SwitchFails, Fault, Fail, MemoryAfterFail, memory, Txn, Idle
<1>3. CASE RemoveJournalFails
  BY <1>3 DEF RemoveJournalFails, Fault, Fail, MemoryAfterFail, memory, Txn, Idle
<1>4. CASE OuterLeaseFails
  BY <1>4 DEF OuterLeaseFails, Fault, Fail, Txn, Idle
<1>5. CASE RecoveryFails
  BY <1>5 DEF RecoveryFails, Fault, Condemned, Journal, Txn, Idle
<1> QED
  BY <1>1, <1>2, <1>3, <1>4, <1>5 DEF FaultStep

(* Starting to write touches no generation that is named, and copies only    *)
(* what a whole generation holds.                                            *)
LEMMA CompleteStart ==
  ASSUME CompleteInv, NEW kind, NEW next, NEW content, NEW names, NEW key, NEW undo,
         StartCommit(kind, next, content, names, key, undo),
         \A r \in names : content[r] # None,
         UNCHANGED <<active, cur>>
  PROVE  /\ ActiveComplete' /\ CopyShape'
         /\ cur # None => gens'[cur] = gens[cur]
         /\ txn'.kind = kind /\ txn'.pc = "header"
<1>1. PICK g \in FreshGens :
         /\ txn' = [pc |-> "header", kind |-> kind, gen |-> g, prev |-> cur, header |-> next,
                    content |-> content, names |-> names,
                    key |-> IF next.outer = None THEN None ELSE key, undo |-> undo]
         /\ gens' = [gens EXCEPT ![g] = EmptyGen]
  BY DEF StartCommit
<1>2. g # active /\ g # cur
  BY DEF FreshGens, NamedGens
<1> QED
  BY <1>1, <1>2 DEF CompleteInv, DurableInv, OpensInv, TypeOK, ActiveComplete, CopyShape, Complete,
     Opens, HasEveryRecord

LEMMA CompleteRecover ==
  ASSUME CompleteInv, RecoverStep
  PROVE  ActiveComplete' /\ MemoryShape' /\ CopyShape'
<1> USE DEF CompleteInv, DurableInv, OpensInv, TypeOK, MemoryShape, Writing
<1>1. CASE RecoverGeneration
  <2>1. active # None => gens'[active] = gens[active]
    BY <1>1, RecoversOn DEF Condemned, JournalShape, Journal
  <2>2. txn' = [txn EXCEPT !.pc = "recovered"] \/ txn' = [txn EXCEPT !.pc = "recoverJournal"]
    BY <1>1, RecoversOn
  <2>3. txn.pc = "recoverGen" /\ UNCHANGED <<active, cur, header>>
    BY <1>1, RecoversOn
  <2> QED
    BY <2>1, <2>2, <2>3 DEF ActiveComplete, CopyShape, Complete, Opens, HasEveryRecord, Txn
<1>2. CASE RecoverJournal
  BY <1>2 DEF RecoverJournal, ActiveComplete, CopyShape, Complete, Opens, HasEveryRecord, Txn
<1>3. CASE LoadActive
  BY <1>3 DEF LoadActive, memory, Idle, ActiveComplete, CopyShape, Complete, Opens, HasEveryRecord
<1>4. CASE RollBack
  <2>1. txn.pc = "recovered" /\ UNCHANGED <<active, cur, header>>
    BY <1>4 DEF RollBack
  <2>2. CASE header = txn.undo
    BY <1>4, <2>1, <2>2 DEF RollBack, Idle, ActiveComplete, CopyShape, Complete, Opens,
       HasEveryRecord
  <2>3. CASE header # txn.undo
    <3>1. StartCommit("rollback", txn.undo, txn.content, txn.names, txn.undo.outer, txn.undo)
      BY <1>4, <2>3 DEF RollBack
    <3>2. \A r \in txn.names : txn.content[r] # None
      BY DEF CopyShape
    <3>3. /\ ActiveComplete' /\ CopyShape'
          /\ cur # None => gens'[cur] = gens[cur]
      BY <2>1, <3>1, <3>2, CompleteStart
    <3>4. ~(cur = None /\ header # None)
      BY <2>1
    <3> QED
      BY <2>1, <3>3, <3>4
  <2> QED
    BY <2>2, <2>3
<1> QED
  BY <1>1, <1>2, <1>3, <1>4 DEF RecoverStep

(* The generation the open Vault works on is whole.                          *)
LEMMA OpenIsWhole ==
  ASSUME CompleteInv, IsIdle, IsOpen
  PROVE  /\ cur \in Gens /\ cur = active /\ header = gens[cur].header /\ Complete(gens[cur])
         /\ \A r \in gens[cur].keyring.names : gens[cur].records[r] # None
<1>1. cur # None /\ cur = active /\ cur \in Gens /\ header = gens[cur].header
  BY DEF CompleteInv, MemoryShape, IsIdle, IsOpen, Writing, DurableInv, OpensInv, TypeOK
<1>2. Complete(gens[cur])
  BY <1>1 DEF CompleteInv, ActiveComplete
<1>3. gens[cur].keyring.names \in SUBSET Records
  BY <1>1, <1>2 DEF CompleteInv, DurableInv, OpensInv, TypeOK, Complete, Opens, GenFiles, Keyring
<1> QED
  BY <1>1, <1>2, <1>3 DEF Complete, HasEveryRecord

LEMMA CompleteOperation ==
  ASSUME CompleteInv, Operation
  PROVE  ActiveComplete' /\ MemoryShape' /\ CopyShape'
<1> DEFINE Kept == /\ txn' = txn /\ UNCHANGED <<gens, active, cur, header>>
<1>0. Kept => ActiveComplete' /\ MemoryShape' /\ CopyShape'
  BY DEF CompleteInv, ActiveComplete, MemoryShape, CopyShape, Complete, Opens, HasEveryRecord
<1>1. ASSUME NEW pw \in Passwords, Create(pw) PROVE ActiveComplete' /\ MemoryShape' /\ CopyShape'
  <2>1. PICK first : /\ StartCommit("create", first, EmptyContent, {}, None, None)
                     /\ header' = first
    BY <1>1 DEF Create
  <2>2. ~IsOpen /\ IsIdle /\ UNCHANGED <<active, cur>>
    BY <1>1 DEF Create
  <2>3. ActiveComplete' /\ CopyShape' /\ txn'.kind = "create" /\ txn'.pc = "header"
    BY <2>1, <2>2, CompleteStart
  <2>4. cur = None
    BY <2>2 DEF CompleteInv, MemoryShape, IsOpen
  <2> QED
    BY <2>2, <2>3, <2>4 DEF MemoryShape, Writing
<1>2. CASE Open
  <2>1. txn' = [Idle EXCEPT !.pc = "recoverGen", !.kind = "open"]
        /\ ~IsOpen /\ UNCHANGED <<gens, active, cur, header>>
    BY <1>2 DEF Open
  <2> QED
    BY <2>1 DEF Idle, IsOpen, CompleteInv, ActiveComplete, MemoryShape, CopyShape, Complete, Opens,
       HasEveryRecord
<1>3. ASSUME NEW kind, NEW next, NEW content, NEW names, NEW key, NEW undo,
             StartCommit(kind, next, content, names, key, undo),
             \A r \in names : content[r] # None,
             IsIdle, IsOpen, UNCHANGED <<active, cur, header>>
      PROVE  ActiveComplete' /\ MemoryShape' /\ CopyShape'
  <2>1. ActiveComplete' /\ CopyShape' /\ gens'[cur] = gens[cur]
    BY <1>3, CompleteStart, OpenIsWhole DEF CompleteInv, DurableInv, OpensInv, TypeOK, IsOpen, MemoryShape, IsIdle, Writing
  <2>2. cur # None /\ cur = active /\ header = gens[cur].header
    BY <1>3 DEF CompleteInv, MemoryShape, IsIdle, IsOpen, Writing
  <2> QED
    BY <1>3, <2>1, <2>2 DEF MemoryShape, IsOpen
<1>4. ASSUME NEW update \in Updates, Put(update) PROVE ActiveComplete' /\ MemoryShape' /\ CopyShape'
  <2> DEFINE next == Updated(gens[cur].records, update)
  <2>1. StartCommit("put", header, next, NamesOf(next), outerLease, None)
    BY <1>4 DEF Put
  <2>2. \A r \in NamesOf(next) : next[r] # None
    BY DEF NamesOf
  <2>3. IsIdle /\ IsOpen /\ UNCHANGED <<active, cur, header>>
    BY <1>4 DEF Put
  <2> QED
    BY <1>3, <2>1, <2>2, <2>3
<1>5. ASSUME NEW old \in Passwords, NEW new \in Passwords, ChangePassword(old, new)
      PROVE  ActiveComplete' /\ MemoryShape' /\ CopyShape'
  <2>1. IsIdle /\ IsOpen /\ UNCHANGED <<active, cur, header>>
    BY <1>5 DEF ChangePassword
  <2>2. StartCommit("password", [header EXCEPT !.password = new], gens[cur].records,
                    gens[cur].keyring.names, outerLease, None)
    BY <1>5 DEF ChangePassword
  <2> QED
    BY <1>3, <2>1, <2>2, OpenIsWhole
<1>6. ASSUME NEW kind, NEW key, NEW target, NEW recovery, MigrateOuter(kind, key, target, recovery)
      PROVE  ActiveComplete' /\ MemoryShape' /\ CopyShape'
  <2>1. IsIdle /\ IsOpen /\ UNCHANGED <<active, cur, header>>
    BY <1>6 DEF MigrateOuter
  <2>2. StartCommit(kind, [header EXCEPT !.outer = target, !.recovery = recovery],
                    gens[cur].records, gens[cur].keyring.names, target, header)
    BY <1>6 DEF MigrateOuter
  <2> QED
    BY <1>3, <2>1, <2>2, OpenIsWhole
<1>7. ASSUME NEW key \in OuterKeys, NEW recovery \in BOOLEAN,
             EnableOuter(key, recovery) \/ DisableOuter(key) \/ RestoreOuterFromRecovery(key)
             \/ ChangeRecoveryPassword
      PROVE  ActiveComplete' /\ MemoryShape' /\ CopyShape'
  BY <1>6, <1>7 DEF EnableOuter, DisableOuter, RestoreOuterFromRecovery, ChangeRecoveryPassword
<1>8. CASE ChangeRecoveryPassword
  BY <1>6, <1>8 DEF ChangeRecoveryPassword
<1>9. ASSUME NEW pw \in Passwords, NEW key \in OuterKeys \cup {None}, NEW mode \in LeaseModes,
             Unlock(pw, key, mode) \/ SetLeaseMode(mode)
      PROVE  Kept
  BY <1>9 DEF Unlock, SetLeaseMode
<1>10. ASSUME NEW mode \in LeaseModes, SetLeaseMode(mode) PROVE Kept
  BY <1>10 DEF SetLeaseMode
<1>11. ASSUME NEW key \in OuterKeys, EnableOuterAgain(key) PROVE Kept
  BY <1>11 DEF EnableOuterAgain
<1>12. ASSUME IntegrityFailure \/ Lock \/ LeaseRunsOut PROVE Kept
  BY <1>12 DEF IntegrityFailure, Lock, LeaseRunsOut
<1> HIDE DEF Kept
<1> QED
  BY <1>0, <1>1, <1>2, <1>4, <1>5, <1>7, <1>8, <1>9, <1>10, <1>11, <1>12 DEF Operation

LEMMA CompletePreserved ==
  ASSUME CompleteInv, [Next]_vars, ~LateFaults
  PROVE  ActiveComplete' /\ MemoryShape' /\ CopyShape'
<1>1. CASE Crash
  BY <1>1 DEF Crash, disk, Idle, CompleteInv, ActiveComplete, MemoryShape, CopyShape, Complete,
     Opens, HasEveryRecord
<1>2. CASE UNCHANGED vars
  BY <1>2 DEF vars, CompleteInv, ActiveComplete, MemoryShape, CopyShape, Complete, Opens,
     HasEveryRecord
<1> QED
  BY <1>1, <1>2, CompleteCommit, CompleteFault, CompleteRecover, CompleteOperation DEF Next

LEMMA CompleteInvariant ==
  ASSUME LateFaults = FALSE
  PROVE  Spec => []CompleteInv
<1> DEFINE Rest == ActiveComplete /\ MemoryShape /\ CopyShape
<1>1. Init => Rest
  BY DEF Init, Idle, ActiveComplete, MemoryShape, CopyShape
<1>2. DurableInv /\ Rest /\ [Next]_vars => Rest'
  BY CompletePreserved DEF CompleteInv
<1>3. DurableInv /\ Rest <=> CompleteInv
  BY DEF CompleteInv
<1> HIDE DEF Rest
<1> QED
  BY <1>1, <1>2, <1>3, DurableInvariant, PTL DEF Spec

(* Unless a write can report failure after its rename, the active generation *)
(* also holds every record its keyring names, through any faults, rollbacks  *)
(* and crashes.  The assumption is needed: with late faults, two of them in  *)
(* one migration make a torn generation active (README, "Bounds").           *)
THEOREM ActiveGenerationComplete ==
  ASSUME LateFaults = FALSE
  PROVE  Spec => []ActiveComplete
<1>1. CompleteInv => ActiveComplete
  BY DEF CompleteInv
<1> QED
  BY <1>1, CompleteInvariant, PTL

(* Under the same assumption an open Vault and the disk never disagree       *)
(* between operations.                                                       *)
THEOREM MemoryNeverStale ==
  ASSUME LateFaults = FALSE
  PROVE  Spec => []MemoryMatchesDisk
<1>1. CompleteInv => MemoryMatchesDisk
  BY OpenIsWhole DEF MemoryMatchesDisk
<1> QED
  BY <1>1, CompleteInvariant, PTL

-----------------------------------------------------------------------------
(***************************************************************************)
(* What a failed migration leaves behind, when an operation meets at most  *)
(* one fault and a write that reports failure did not happen: the header,  *)
(* the records and an outer lease that fits, for every value of the other  *)
(* constants.                                                              *)
(***************************************************************************)

Undoable == {"migrate", "rewrap", "rollback"}
Recovering == {"recoverGen", "recoverJournal", "recovered"}

(* A change of the header copies the records of the open generation and      *)
(* keeps them through its switch, and once it is being undone it has used up *)
(* the one fault of its operation.                                           *)
UndoShape ==
    /\ txn.kind \in Undoable => cur # None /\ gens[cur].records = txn.content
    /\ txn.kind = "rollback" => txn.header = txn.undo
    /\ txn.kind = "rollback" \/ (txn.kind \in Undoable /\ txn.pc \in Recovering) => faults # 0

(* The outer lease opens what the header in memory asks for, except between  *)
(* the switch of a migration and the settling of its lease or the end of its *)
(* roll-back, where it still opens what the old header asked for.            *)
LeaseOpens(h) == outerLease = None \/ h.outer = None \/ outerLease = h.outer
SameOuter == {"put", "password", "rewrap"}
LeaseShape ==
    /\ header = None \/ lease = "none" \/ txn.kind \in {"create", "open"} => outerLease = None
    /\ header # None /\ (txn.pc = "idle" \/ txn.kind \in SameOuter) => LeaseOpens(header)
    /\ txn.kind \in SameOuter => txn.header.outer = header.outer
    /\ txn.kind \in Undoable => LeaseOpens(txn.undo)
    /\ txn.kind = "migrate" => txn.key = txn.header.outer

(* Which kinds of operation come through which stages.                       *)
StageShape ==
    /\ txn.kind = "none" <=> txn.pc = "idle"
    /\ txn.kind = "open" => txn.pc \in Recovering
    /\ txn.pc \in Recovering => txn.kind \in {"open", "migrate", "rewrap"}
    /\ txn.pc = "outerlease" => txn.kind = "migrate"
    /\ txn.kind \notin {"none", "open"} => header # None

RollbackInv == CompleteInv /\ StageShape /\ UndoShape /\ LeaseShape
OneFault == LateFaults = FALSE /\ MaxFaults = 1

LEMMA OpenFilesStay ==
  ASSUME CompleteInv, CommitStep \/ FaultStep \/ RecoverStep, ~LateFaults,
         cur # None, cur' = cur
  PROVE  gens'[cur] = gens[cur]
<1>1. cur = active
  BY DEF CompleteInv, MemoryShape
<1>2. CASE SwitchActive
  BY <1>2 DEF SwitchActive
<1>3. CASE ~SwitchActive
  BY <1>1, <1>3, ActiveFilesStay DEF CompleteInv, DurableInv, Next
<1> QED
  BY <1>2, <1>3

-----------------------------------------------------------------------------
(* UndoShape and LeaseShape through the steps of a write.                    *)

LEMMA RollbackCommit ==
  ASSUME RollbackInv, CommitStep, ~LateFaults
  PROVE  StageShape' /\ UndoShape' /\ LeaseShape'
<1> USE DEF RollbackInv, CompleteInv, DurableInv, OpensInv, TypeOK, StageShape, UndoShape,
        LeaseShape, LeaseOpens, Undoable, Recovering, SameOuter
<1>0. cur # None /\ cur' = cur => gens'[cur] = gens[cur]
  BY OpenFilesStay
<1>1. CASE WriteHeader
  BY <1>0, <1>1 DEF WriteHeader, Txn
<1>2. CASE WriteKeyring
  BY <1>0, <1>2 DEF WriteKeyring, Txn
<1>3. CASE VerifyGeneration
  BY <1>3 DEF VerifyGeneration, Txn
<1>4. CASE WriteJournal
  BY <1>4 DEF WriteJournal, Txn
<1>5. ASSUME NEW r \in Records, WriteRecord(r) PROVE StageShape' /\ UndoShape' /\ LeaseShape'
  <2>1. UNCHANGED <<cur, header, lease, outerLease, txn, faults>>
    BY <1>5 DEF WriteRecord
  <2> QED
    BY <1>0, <2>1
<1>6. CASE SwitchActive
  <2>1. gens'[cur'].records = txn.content /\ cur' # None
    BY <1>6, NoneIsNoData DEF SwitchActive, TxnShape, WriteShape, Writing
  <2>2. txn' = [txn EXCEPT !.pc = "unjournal"] /\ header' = txn.header
        /\ UNCHANGED <<lease, outerLease, faults>>
    BY <1>6 DEF SwitchActive
  <2>3. header # None /\ txn.header # None
    BY <1>6 DEF SwitchActive, TxnShape, WriteShape, Opens, Txn
  <2>4. StageShape' /\ UndoShape'
    BY <1>6, <2>1, <2>2, <2>3 DEF SwitchActive, Txn
  <2>5. LeaseShape'
    BY <1>6, <2>2, <2>3 DEF SwitchActive, Txn
  <2> QED
    BY <2>4, <2>5
<1>7. CASE RemoveJournal
  BY <1>7 DEF RemoveJournal, Txn
<1>8. CASE FinishCommit
  <2>1. UNCHANGED <<cur, header, faults>> /\ txn.pc = "cleanup"
    BY <1>8 DEF FinishCommit
  <2>2. header = txn.header /\ cur # None
    BY <2>1, NoneIsNoData DEF WriteShape, Installed
  <2>3. CASE txn.kind = "migrate"
    BY <1>0, <1>8, <2>1, <2>3 DEF FinishCommit, leases, Txn
  <2>4. CASE txn.kind # "migrate"
    <3>1. txn' = Idle
      BY <1>8, <2>4 DEF FinishCommit
    <3>2. UNCHANGED leases \/ NoLease
      BY <1>8, <2>4 DEF FinishCommit
    <3>3. txn.kind \in SameOuter \cup {"rollback", "create"}
      BY <2>1, <2>4 DEF Txn, Kinds
    <3>4. LeaseOpens(header)
      BY <2>1, <2>2, <3>3
    <3> QED
      BY <2>1, <2>2, <3>1, <3>2, <3>4 DEF leases, NoLease, Idle
  <2> QED
    BY <2>3, <2>4
<1>9. CASE SettleOuterLease
  <2>1. txn.kind = "migrate" /\ header = txn.header /\ UNCHANGED <<cur, header, lease, faults>>
        /\ txn' = Idle
    BY <1>9 DEF SettleOuterLease, WriteShape, Installed
  <2>2. LeaseOpens(header)'
    BY <1>9, <2>1 DEF SettleOuterLease
  <2>3. header = None \/ lease = "none" => outerLease' = None
    BY <1>9, <2>1 DEF SettleOuterLease
  <2> QED
    BY <2>1, <2>2, <2>3 DEF Idle
<1> QED
  BY <1>1, <1>2, <1>3, <1>4, <1>5, <1>6, <1>7, <1>8, <1>9 DEF CommitStep

LEMMA RollbackFault ==
  ASSUME RollbackInv, FaultStep, OneFault
  PROVE  StageShape' /\ UndoShape' /\ LeaseShape'
<1> USE DEF RollbackInv, CompleteInv, DurableInv, OpensInv, TypeOK, StageShape, UndoShape,
        LeaseShape, LeaseOpens, Undoable, Recovering, SameOuter
<1>0. cur # None /\ cur' = cur => gens'[cur] = gens[cur]
  BY OpenFilesStay DEF OneFault
<1>1. faults = 0 /\ faults' = 1
  BY DEF FaultStep, StagingFails, SwitchFails, RemoveJournalFails, OuterLeaseFails, RecoveryFails,
     Fault, OneFault
<1>2. ASSUME Fail, MemoryAfterFail, txn.pc \in Writing \cup {"unjournal"}, UNCHANGED leases
      PROVE  StageShape' /\ UndoShape' /\ LeaseShape'
  <2>1. CASE txn.kind \in {"migrate", "rewrap"}
    BY <1>0, <1>1, <1>2, <2>1 DEF Fail, MemoryAfterFail, memory, leases, Txn
  <2>2. CASE txn.kind \in {"put", "password", "create"}
    BY <1>1, <1>2, <2>2 DEF Fail, MemoryAfterFail, memory, leases, Idle
  <2> QED
    BY <1>1, <1>2, <2>1, <2>2 DEF Txn, Kinds, Writing
<1>3. CASE StagingFails
  BY <1>2, <1>3 DEF StagingFails, Writing, leases
<1>4. CASE SwitchFails
  BY <1>2, <1>4 DEF SwitchFails, Writing, leases
<1>5. CASE RemoveJournalFails
  BY <1>2, <1>5 DEF RemoveJournalFails, leases
<1>6. CASE OuterLeaseFails
  BY <1>0, <1>1, <1>6 DEF OuterLeaseFails, Fail, Txn
<1>7. CASE RecoveryFails
  <2>1. txn.kind = "open" /\ txn' = Idle /\ UNCHANGED <<cur, header, lease, outerLease>>
    BY <1>1, <1>7 DEF RecoveryFails
  <2> QED
    BY <1>1, <2>1 DEF Idle
<1> QED
  BY <1>3, <1>4, <1>5, <1>6, <1>7 DEF FaultStep

(* What starting to write a generation fixes of the change it writes.        *)
LEMMA StartFixes ==
  ASSUME NEW kind, NEW next, NEW content, NEW names, NEW key, NEW undo,
         StartCommit(kind, next, content, names, key, undo)
  PROVE  /\ txn'.pc = "header" /\ txn'.kind = kind /\ txn'.header = next
         /\ txn'.content = content /\ txn'.undo = undo
         /\ txn'.key = IF next.outer = None THEN None ELSE key
  BY DEF StartCommit

LEMMA RollbackRecover ==
  ASSUME RollbackInv, RecoverStep, OneFault
  PROVE  StageShape' /\ UndoShape' /\ LeaseShape'
<1> USE DEF RollbackInv, CompleteInv, DurableInv, OpensInv, TypeOK, StageShape, UndoShape,
        LeaseShape, LeaseOpens, Undoable, Recovering, SameOuter
<1>0. cur # None /\ cur' = cur => gens'[cur] = gens[cur]
  BY OpenFilesStay DEF OneFault
<1>1. CASE RecoverGeneration
  BY <1>0, <1>1, RecoversOn DEF Txn
<1>2. CASE RecoverJournal
  BY <1>2 DEF RecoverJournal, Txn
<1>3. CASE LoadActive
  BY <1>3 DEF LoadActive, memory, Idle
<1>4. CASE RollBack
  <2>1. UNCHANGED <<cur, header, lease, outerLease, faults>> /\ txn.kind \in {"migrate", "rewrap"}
        /\ txn.pc = "recovered"
    BY <1>4 DEF RollBack
  <2>2. CASE header = txn.undo
    BY <1>4, <2>1, <2>2 DEF RollBack, Idle
  <2>3. CASE header # txn.undo
    <3>1. StartCommit("rollback", txn.undo, txn.content, txn.names, txn.undo.outer, txn.undo)
      BY <1>4, <2>3 DEF RollBack
    <3>2. /\ txn'.pc = "header" /\ txn'.kind = "rollback" /\ txn'.header = txn.undo
          /\ txn'.content = txn.content /\ txn'.undo = txn.undo
      BY <3>1, StartFixes
    <3> QED
      BY <1>0, <2>1, <3>2
  <2> QED
    BY <2>2, <2>3
<1> QED
  BY <1>1, <1>2, <1>3, <1>4 DEF RecoverStep

(* An operation that starts to write leaves memory and leases alone.         *)
LEMMA RollbackStart ==
  ASSUME RollbackInv, IsIdle, IsOpen, NEW kind, NEW next, NEW names, NEW key, NEW undo,
         NEW content,
         kind \in {"put", "password"} \/ (kind \in {"migrate", "rewrap"} /\ undo = header
                                        /\ content = gens[cur].records /\ key = next.outer),
         kind # "migrate" => next.outer = header.outer,
         \A r \in names : content[r] # None,
         StartCommit(kind, next, content, names, key, undo),
         UNCHANGED <<active, cur, header, lease, outerLease>>
  PROVE  StageShape' /\ UndoShape' /\ LeaseShape'
<1>1. /\ txn'.pc = "header" /\ txn'.kind = kind /\ txn'.header = next
      /\ txn'.content = content /\ txn'.undo = undo
      /\ txn'.key = IF next.outer = None THEN None ELSE key
  BY StartFixes
<1>2. cur # None /\ header # None
  BY OpenIsWhole, NoneIsNoData DEF RollbackInv, IsOpen
<1>3. gens'[cur] = gens[cur]
  BY <1>2, CompleteStart DEF RollbackInv
<1>4. LeaseOpens(header) /\ (lease = "none" => outerLease = None)
  BY <1>2 DEF RollbackInv, LeaseShape, IsIdle
<1> QED
  BY <1>1, <1>2, <1>3, <1>4 DEF StageShape, UndoShape, LeaseShape, LeaseOpens, Undoable,
     Recovering, SameOuter

LEMMA RollbackOperation ==
  ASSUME RollbackInv, Operation
  PROVE  StageShape' /\ UndoShape' /\ LeaseShape'
<1> DEFINE Goal == StageShape' /\ UndoShape' /\ LeaseShape'
<1>0. header # None => header \in Header
  BY DEF RollbackInv, CompleteInv, DurableInv, OpensInv, TypeOK
<1>1. ASSUME NEW pw \in Passwords, Create(pw) PROVE Goal
  <2>1. PICK first \in Header : /\ StartCommit("create", first, EmptyContent, {}, None, None)
                               /\ header' = first
    BY <1>1 DEF Create, Header
  <2>2. outerLease' = None
    BY <1>1 DEF Create, IsOpen, RollbackInv, LeaseShape
  <2>3. txn'.pc = "header" /\ txn'.kind = "create"
    BY <2>1, StartFixes
  <2> QED
    BY <2>1, <2>2, <2>3, NoneIsNoRecord DEF StageShape, UndoShape, LeaseShape, LeaseOpens,
       Undoable, Recovering, SameOuter
<1>2. CASE Open
  <2>1. txn'.pc = "recoverGen" /\ txn'.kind = "open" /\ header' = None /\ outerLease' = None
    BY <1>2 DEF Open, Idle, IsOpen, RollbackInv, LeaseShape
  <2> QED
    BY <2>1 DEF StageShape, UndoShape, LeaseShape, LeaseOpens, Undoable, Recovering, SameOuter
<1>3. ASSUME NEW update \in Updates, Put(update) PROVE Goal
  <2> DEFINE next == Updated(gens[cur].records, update)
  <2>1. StartCommit("put", header, next, NamesOf(next), outerLease, None)
        /\ IsIdle /\ IsOpen /\ UNCHANGED <<active, cur, header, lease, outerLease>>
    BY <1>3 DEF Put
  <2>2. \A r \in NamesOf(next) : next[r] # None
    BY DEF NamesOf
  <2> QED
    BY <2>1, <2>2, RollbackStart
<1>4. ASSUME NEW old \in Passwords, NEW new \in Passwords, ChangePassword(old, new) PROVE Goal
  <2>1. StartCommit("password", [header EXCEPT !.password = new], gens[cur].records,
                    gens[cur].keyring.names, outerLease, None)
        /\ IsIdle /\ IsOpen /\ UNCHANGED <<active, cur, header, lease, outerLease>>
    BY <1>4 DEF ChangePassword
  <2>2. [header EXCEPT !.password = new].outer = header.outer
    BY <1>0, <2>1 DEF IsOpen, Header
  <2>3. \A r \in gens[cur].keyring.names : gens[cur].records[r] # None
    BY <2>1, OpenIsWhole DEF RollbackInv
  <2> QED
    BY <2>1, <2>2, <2>3, RollbackStart
<1>5. ASSUME NEW kind \in {"migrate", "rewrap"}, NEW key, NEW target, NEW recovery,
             MigrateOuter(kind, key, target, recovery),
             kind = "rewrap" => target = header.outer
      PROVE  Goal
  <2> DEFINE next == [header EXCEPT !.outer = target, !.recovery = recovery]
  <2>1. StartCommit(kind, next, gens[cur].records, gens[cur].keyring.names, target, header)
        /\ IsIdle /\ IsOpen /\ UNCHANGED <<active, cur, header, lease, outerLease>>
    BY <1>5 DEF MigrateOuter
  <2>2. next.outer = target
    BY <1>0, <2>1 DEF IsOpen, Header
  <2>3. \A r \in gens[cur].keyring.names : gens[cur].records[r] # None
    BY <2>1, OpenIsWhole DEF RollbackInv
  <2> QED
    BY <1>5, <2>1, <2>2, <2>3, RollbackStart
<1>6. ASSUME NEW key \in OuterKeys, NEW recovery \in BOOLEAN, EnableOuter(key, recovery) PROVE Goal
  BY <1>5, <1>6 DEF EnableOuter
<1>7. ASSUME NEW key \in OuterKeys, DisableOuter(key) \/ RestoreOuterFromRecovery(key) PROVE Goal
  BY <1>5, <1>7 DEF DisableOuter, RestoreOuterFromRecovery
<1>8. CASE ChangeRecoveryPassword
  BY <1>5, <1>8 DEF ChangeRecoveryPassword
<1>9. ASSUME txn' = txn, UNCHANGED <<gens, cur, header, faults>>,
             LeaseShape'
      PROVE  Goal
  BY <1>9 DEF RollbackInv, StageShape, UndoShape
<1>10. ASSUME NEW pw \in Passwords, NEW key \in OuterKeys \cup {None}, NEW mode \in LeaseModes,
              Unlock(pw, key, mode)
       PROVE  Goal
  <2>1. LeaseShape'
    BY <1>10, LeaseModesAreKnown DEF Unlock, IsOpen, IsIdle, RollbackInv, StageShape, LeaseShape,
       LeaseOpens, Undoable, SameOuter
  <2> QED
    BY <1>9, <1>10, <2>1 DEF Unlock
<1>11. ASSUME NEW key \in OuterKeys, EnableOuterAgain(key) PROVE Goal
  <2>1. LeaseShape'
    BY <1>11 DEF EnableOuterAgain, IsOpen, IsIdle, RollbackInv, StageShape, LeaseShape,
       LeaseOpens, Undoable, SameOuter
  <2> QED
    BY <1>9, <1>11, <2>1 DEF EnableOuterAgain
<1>12. CASE IntegrityFailure \/ Lock
  <2>1. LeaseShape'
    BY <1>12 DEF IntegrityFailure, Lock, NoLease, RollbackInv, LeaseShape, LeaseOpens
  <2> QED
    BY <1>9, <1>12, <2>1 DEF IntegrityFailure, Lock
<1>13. CASE LeaseRunsOut
  <2>1. LeaseShape'
    BY <1>13 DEF LeaseRunsOut, RollbackInv, LeaseShape, LeaseOpens
  <2> QED
    BY <1>9, <1>13, <2>1 DEF LeaseRunsOut
<1>14. ASSUME NEW mode \in LeaseModes, SetLeaseMode(mode) PROVE Goal
  <2>1. LeaseShape'
    BY <1>14, LeaseModesAreKnown DEF SetLeaseMode, NoLease, RollbackInv, LeaseShape, LeaseOpens
  <2> QED
    BY <1>9, <1>14, <2>1 DEF SetLeaseMode
<1> QED
  BY <1>1, <1>2, <1>3, <1>4, <1>6, <1>7, <1>8, <1>10, <1>11, <1>12, <1>13, <1>14 DEF Operation

LEMMA RollbackPreserved ==
  ASSUME RollbackInv, [Next]_vars, OneFault
  PROVE  StageShape' /\ UndoShape' /\ LeaseShape'
<1>1. CASE Crash
  BY <1>1 DEF Crash, NoLease, Idle, StageShape, UndoShape, LeaseShape, LeaseOpens, Undoable,
     Recovering, SameOuter
<1>2. CASE UNCHANGED vars
  BY <1>2 DEF vars, RollbackInv, StageShape, UndoShape, LeaseShape, LeaseOpens
<1> QED
  BY <1>1, <1>2, RollbackCommit, RollbackFault, RollbackRecover, RollbackOperation DEF Next, OneFault

LEMMA RollbackInvariant ==
  ASSUME OneFault
  PROVE  Spec => []RollbackInv
<1> DEFINE Rest == StageShape /\ UndoShape /\ LeaseShape
<1>1. Init => Rest
  BY DEF Init, Idle, StageShape, UndoShape, LeaseShape, LeaseOpens, Undoable, Recovering, SameOuter
<1>2. CompleteInv /\ Rest /\ [Next]_vars => Rest'
  BY RollbackPreserved DEF RollbackInv
<1>3. CompleteInv /\ Rest <=> RollbackInv
  BY DEF RollbackInv
<1>4. LateFaults = FALSE
  BY DEF OneFault
<1> HIDE DEF Rest
<1> QED
  BY <1>1, <1>2, <1>3, <1>4, CompleteInvariant, PTL DEF Spec

-----------------------------------------------------------------------------
(* Under one fault per operation, the outer key that protected memory holds  *)
(* between operations is the one the header in memory asks for.              *)
THEOREM LeaseFollowsHeader ==
  ASSUME OneFault
  PROVE  Spec => []OuterLeaseFits
<1>1. RollbackInv => OuterLeaseFits
  BY DEF RollbackInv, LeaseShape, LeaseOpens, OuterLeaseFits, IsIdle, IsOpen
<1> QED
  BY <1>1, RollbackInvariant, PTL

(* Under one fault per operation, a migration of the outer layer that        *)
(* reports failure leaves the header, the keys and the records there were    *)
(* (rollbackHeaderMigrationLocked); with late faults the run "undone" is a   *)
(* counterexample.                                                           *)
THEOREM RollbackUndoes ==
  ASSUME OneFault
  PROVE  Spec => FailedMigrationIsUndone
<1> DEFINE A == txn.kind \in {"migrate", "rewrap", "rollback"} /\ txn'.pc = "idle"
                   /\ outcome' = "failed"
                   => /\ header' = txn.undo
                      /\ Complete(gens'[cur'])
                      /\ gens'[cur'].records = txn.content
<1>1. ASSUME RollbackInv, RollbackInv', [Next]_vars, txn.kind \in Undoable, txn'.pc = "idle",
             outcome' = "failed"
      PROVE  A
  <2> USE DEF RollbackInv, CompleteInv, DurableInv, OpensInv, TypeOK
  <2>1. txn.pc # "idle"
    BY <1>1 DEF StageShape, Undoable
  <2>2. cur # None /\ gens[cur].records = txn.content
    BY <1>1 DEF UndoShape
  <2>3. ASSUME header' = txn.undo, cur' = cur, gens'[cur] = gens[cur] PROVE A
    <3>1. cur' = active' /\ cur' # None
      BY <1>1, <2>2, <2>3 DEF MemoryShape
    <3> QED
      BY <1>1, <2>2, <2>3, <3>1 DEF ActiveComplete
  <2>4. CASE FinishCommit
    <3>1. txn.kind = "rollback" /\ txn.pc = "cleanup" /\ UNCHANGED <<cur, header>>
      BY <1>1, <2>4 DEF FinishCommit, Undoable, Txn
    <3>2. header = txn.undo
      BY <1>1, <3>1 DEF WriteShape, Installed, UndoShape
    <3>3. gens'[cur] = gens[cur]
      BY <1>1, <2>2, <2>4, <3>1, OpenFilesStay DEF CommitStep, OneFault
    <3> QED
      BY <2>3, <3>1, <3>2, <3>3
  <2>5. CASE RollBack
    <3>1. header = txn.undo /\ UNCHANGED <<gens, cur, header>>
      BY <1>1, <2>5, StartFixes DEF RollBack
    <3> QED
      BY <2>3, <3>1
  <2>6. ~FaultStep
    <3>1. FaultStep => faults = 0
      BY <1>1 DEF FaultStep, StagingFails, SwitchFails, RemoveJournalFails, OuterLeaseFails,
         RecoveryFails, Fault, OneFault
    <3>2. FaultStep => txn.kind \in {"migrate", "rewrap"} /\ txn.pc \notin Recovering
      BY <1>1, <3>1 DEF UndoShape, Undoable, Recovering
    <3> QED
      BY <1>1, <3>2 DEF FaultStep, StagingFails, SwitchFails, RemoveJournalFails,
         OuterLeaseFails, RecoveryFails, Fail, Recovering, Txn
  <2>7. CASE CommitStep /\ ~FinishCommit
    BY <1>1, <2>1, <2>7 DEF CommitStep, WriteHeader, WriteKeyring, VerifyGeneration, WriteJournal,
       WriteRecord, SwitchActive, RemoveJournal, SettleOuterLease, Txn
  <2>8. CASE RecoverStep /\ ~RollBack
    BY <1>1, <2>1, <2>8, RecoversOn DEF RecoverStep, RecoverJournal, LoadActive, Undoable, Txn
  <2>9. ~Operation
    BY <1>1, <2>1, StartFixes
       DEF Operation, Create, Open, Unlock, Put, ChangePassword, EnableOuter, EnableOuterAgain,
           DisableOuter, RestoreOuterFromRecovery, ChangeRecoveryPassword, MigrateOuter,
           IntegrityFailure, Lock, LeaseRunsOut, SetLeaseMode, IsIdle
  <2>10. ~Crash /\ ~UNCHANGED vars
    BY <1>1, <2>1 DEF Crash, vars
  <2> QED
    BY <1>1, <2>4, <2>5, <2>6, <2>7, <2>8, <2>9, <2>10 DEF Next
<1>2. RollbackInv /\ RollbackInv' /\ [Next]_vars => [A]_vars
  BY <1>1 DEF Undoable
<1>3. []RollbackInv /\ [][Next]_vars => [][A]_vars
  BY <1>2, PTL
<1> QED
  BY <1>3, RollbackInvariant, PTL DEF Spec, FailedMigrationIsUndone

-----------------------------------------------------------------------------
(***************************************************************************)
(* GenerationStore implements VaultContract: when no write reports failure *)
(* after its rename, every step of the store is a step of the contract or  *)
(* changes neither what a restart finds nor what the open Vault works on.  *)
(***************************************************************************)

(* A write replaces the header or the records, never both, and only the      *)
(* first one has nothing to replace.                                         *)
ChangeShape ==
    /\ txn.kind = "none" => txn.pc = "idle"
    /\ txn.kind = "open" => txn.pc \notin Writing
    /\ txn.kind \notin {"none", "open"} => header # None
    /\ txn.pc \in Writing /\ txn.kind = "create" =>
          active = None /\ cur = None /\ txn.content = EmptyContent
    /\ txn.kind \in {"migrate", "rewrap", "rollback"} =>
          cur # None /\ txn.content = gens[cur].records
    /\ txn.pc \in Writing /\ txn.kind # "create" =>
          /\ cur # None
          /\ txn.header = header \/ txn.content = gens[cur].records

ContractInv == CompleteInv /\ ChangeShape

LEMMA ChangeCommit ==
  ASSUME ContractInv, CommitStep, ~LateFaults
  PROVE  ChangeShape'
<1> USE DEF ContractInv, CompleteInv, DurableInv, OpensInv, TypeOK, MemoryShape, ChangeShape, Writing
<1>0. ~SwitchActive /\ cur # None => gens'[cur] = gens[cur]
  BY ActiveFilesStay DEF Next
<1>1. CASE WriteHeader
  BY <1>0, <1>1 DEF WriteHeader, SwitchActive, Txn
<1>2. CASE WriteKeyring
  BY <1>0, <1>2 DEF WriteKeyring, SwitchActive, Txn
<1>3. CASE VerifyGeneration
  BY <1>3 DEF VerifyGeneration, Txn
<1>4. CASE WriteJournal
  BY <1>4 DEF WriteJournal, Txn
<1>5. ASSUME NEW r \in Records, WriteRecord(r) PROVE ChangeShape'
  BY <1>0, <1>5 DEF WriteRecord, SwitchActive
<1>6. CASE SwitchActive
  BY <1>6, NoneIsNoData DEF SwitchActive, TxnShape, WriteShape, Opens, Txn
<1>7. CASE RemoveJournal
  BY <1>7 DEF RemoveJournal, Txn
<1>8. CASE FinishCommit
  <2>1. UNCHANGED <<cur, header>> /\ (txn' = Idle \/ txn' = [txn EXCEPT !.pc = "outerlease"])
        /\ txn.pc = "cleanup"
    BY <1>8 DEF FinishCommit
  <2> QED
    BY <1>0, <2>1 DEF SwitchActive, Idle, Txn
<1>9. CASE SettleOuterLease
  BY <1>9 DEF SettleOuterLease, Idle
<1> QED
  BY <1>1, <1>2, <1>3, <1>4, <1>5, <1>6, <1>7, <1>8, <1>9 DEF CommitStep

LEMMA ChangeFault ==
  ASSUME ContractInv, FaultStep, ~LateFaults
  PROVE  ChangeShape'
<1> USE DEF ContractInv, CompleteInv, DurableInv, OpensInv, TypeOK, ChangeShape
<1>0. cur # None => gens'[cur] = gens[cur]
  <2>1. ~SwitchActive
    BY DEF FaultStep, SwitchActive, StagingFails, SwitchFails, RemoveJournalFails, OuterLeaseFails,
       RecoveryFails, Fault
  <2> QED
    BY <2>1, ActiveFilesStay DEF Next, MemoryShape
<1>1. ASSUME Fail, MemoryAfterFail \/ UNCHANGED memory PROVE ChangeShape'
  BY <1>0, <1>1 DEF Fail, MemoryAfterFail, memory, Idle, Txn, Writing
<1>2. CASE StagingFails \/ SwitchFails \/ RemoveJournalFails \/ OuterLeaseFails
  BY <1>1, <1>2 DEF StagingFails, SwitchFails, RemoveJournalFails, OuterLeaseFails, memory
<1>3. CASE RecoveryFails
  BY <1>3 DEF RecoveryFails, Idle, Writing
<1> QED
  BY <1>2, <1>3 DEF FaultStep

LEMMA ChangeRecover ==
  ASSUME ContractInv, RecoverStep, ~LateFaults
  PROVE  ChangeShape'
<1> USE DEF ContractInv, CompleteInv, DurableInv, OpensInv, TypeOK, ChangeShape, Writing
<1>0. cur # None => gens'[cur] = gens[cur]
  <2>1. ~SwitchActive
    BY DEF RecoverStep, SwitchActive, RecoverGeneration, RecoverJournal, LoadActive, RollBack
  <2> QED
    BY <2>1, ActiveFilesStay DEF Next, MemoryShape
<1>1. CASE RecoverGeneration
  BY <1>0, <1>1, RecoversOn DEF Txn
<1>2. CASE RecoverJournal
  BY <1>2 DEF RecoverJournal, Txn
<1>3. CASE LoadActive
  BY <1>3 DEF LoadActive, memory, Idle
<1>4. CASE RollBack
  <2>1. UNCHANGED <<cur, header, active>> /\ txn.kind \in {"migrate", "rewrap"}
    BY <1>4 DEF RollBack
  <2>2. CASE header = txn.undo
    BY <1>4, <2>1, <2>2 DEF RollBack, Idle
  <2>3. CASE header # txn.undo
    <3>1. StartCommit("rollback", txn.undo, txn.content, txn.names, txn.undo.outer, txn.undo)
      BY <1>4, <2>3 DEF RollBack
    <3>2. txn'.kind = "rollback" /\ txn'.pc = "header" /\ txn'.content = txn.content
      BY <3>1 DEF StartCommit
    <3> QED
      BY <1>0, <2>1, <3>2
  <2> QED
    BY <2>2, <2>3
<1> QED
  BY <1>1, <1>2, <1>3, <1>4 DEF RecoverStep

LEMMA ChangeStart ==
  ASSUME ContractInv, IsIdle, IsOpen, NEW next, NEW names, NEW key, NEW undo, NEW content,
         NEW kind \in {"put", "password", "migrate", "rewrap"},
         next = header \/ content = gens[cur].records,
         kind \in {"migrate", "rewrap"} => content = gens[cur].records,
         \A r \in names : content[r] # None,
         StartCommit(kind, next, content, names, key, undo),
         UNCHANGED <<active, cur, header>>
  PROVE  ChangeShape'
<1>1. txn'.pc = "header" /\ txn'.kind = kind /\ txn'.header = next /\ txn'.content = content
  BY DEF StartCommit
<1>2. cur # None /\ header # None
  BY OpenIsWhole, NoneIsNoData DEF ContractInv, IsOpen
<1>3. gens'[cur] = gens[cur]
  BY <1>2, CompleteStart DEF ContractInv
<1> QED
  BY <1>1, <1>2, <1>3 DEF ChangeShape, Writing

LEMMA ChangeOperation ==
  ASSUME ContractInv, Operation
  PROVE  ChangeShape'
<1>0. IsIdle /\ IsOpen => \A r \in gens[cur].keyring.names : gens[cur].records[r] # None
  BY OpenIsWhole DEF ContractInv
<1>1. ASSUME NEW pw \in Passwords, Create(pw) PROVE ChangeShape'
  <2>1. PICK first \in Header : /\ StartCommit("create", first, EmptyContent, {}, None, None)
                               /\ header' = first
    BY <1>1 DEF Create, Header
  <2>2. active' = None /\ cur' = None
    BY <1>1 DEF Create, IsOpen, ContractInv, CompleteInv, MemoryShape
  <2>3. txn'.pc = "header" /\ txn'.kind = "create" /\ txn'.content = EmptyContent
    BY <2>1 DEF StartCommit
  <2> QED
    BY <2>1, <2>2, <2>3, NoneIsNoRecord DEF ChangeShape
<1>2. CASE Open
  <2>1. txn'.pc = "recoverGen" /\ txn'.kind = "open"
    BY <1>2 DEF Open, Idle
  <2> QED
    BY <2>1 DEF ChangeShape, Writing
<1>3. ASSUME NEW update \in Updates, Put(update) PROVE ChangeShape'
  <2> DEFINE next == Updated(gens[cur].records, update)
  <2>1. \A r \in NamesOf(next) : next[r] # None
    BY DEF NamesOf
  <2>2. StartCommit("put", header, next, NamesOf(next), outerLease, None)
        /\ IsIdle /\ IsOpen /\ UNCHANGED <<active, cur, header>>
    BY <1>3 DEF Put
  <2> HIDE DEF next
  <2> QED
    BY <2>1, <2>2, ChangeStart
<1>4. ASSUME NEW old \in Passwords, NEW new \in Passwords, ChangePassword(old, new)
      PROVE  ChangeShape'
  BY <1>0, <1>4, ChangeStart DEF ChangePassword
<1>5. ASSUME NEW kind \in {"migrate", "rewrap"}, NEW key, NEW target, NEW recovery,
             MigrateOuter(kind, key, target, recovery)
      PROVE  ChangeShape'
  <2> DEFINE next == [header EXCEPT !.outer = target, !.recovery = recovery]
  <2>1. StartCommit(kind, next, gens[cur].records, gens[cur].keyring.names, target, header)
        /\ IsIdle /\ IsOpen /\ UNCHANGED <<active, cur, header>>
    BY <1>5 DEF MigrateOuter
  <2>2. \A r \in gens[cur].keyring.names : gens[cur].records[r] # None
    BY <1>0, <2>1
  <2> HIDE DEF next
  <2> QED
    BY <2>1, <2>2, ChangeStart
<1>6. ASSUME NEW key \in OuterKeys, NEW recovery \in BOOLEAN, EnableOuter(key, recovery)
      PROVE  ChangeShape'
  BY <1>5, <1>6 DEF EnableOuter
<1>13. ASSUME NEW key \in OuterKeys, DisableOuter(key) \/ RestoreOuterFromRecovery(key)
       PROVE  ChangeShape'
  BY <1>5, <1>13 DEF DisableOuter, RestoreOuterFromRecovery
<1>7. CASE ChangeRecoveryPassword
  BY <1>5, <1>7 DEF ChangeRecoveryPassword
<1>8. ASSUME txn' = txn, UNCHANGED <<gens, active, cur, header>> PROVE ChangeShape'
  BY <1>8 DEF ContractInv, ChangeShape
<1>9. ASSUME NEW pw \in Passwords, NEW key \in OuterKeys \cup {None}, NEW mode \in LeaseModes,
             Unlock(pw, key, mode)
      PROVE  ChangeShape'
  BY <1>8, <1>9 DEF Unlock
<1>10. ASSUME NEW mode \in LeaseModes, SetLeaseMode(mode) PROVE ChangeShape'
  BY <1>8, <1>10 DEF SetLeaseMode
<1>11. ASSUME NEW key \in OuterKeys, EnableOuterAgain(key) PROVE ChangeShape'
  BY <1>8, <1>11 DEF EnableOuterAgain
<1>12. CASE IntegrityFailure \/ Lock \/ LeaseRunsOut
  BY <1>8, <1>12 DEF IntegrityFailure, Lock, LeaseRunsOut
<1> QED
  BY <1>1, <1>2, <1>3, <1>4, <1>6, <1>7, <1>9, <1>10, <1>11, <1>12, <1>13 DEF Operation

LEMMA ContractInvariant ==
  ASSUME LateFaults = FALSE
  PROVE  Spec => []ContractInv
<1>1. Init => ChangeShape
  BY DEF Init, Idle, ChangeShape, Writing
<1>2. ASSUME ContractInv, [Next]_vars PROVE ChangeShape'
  <2>1. CASE Crash
    BY <2>1 DEF Crash, Idle, ChangeShape, Writing
  <2>2. CASE UNCHANGED vars
    BY <1>2, <2>2 DEF vars, ContractInv, ChangeShape
  <2> QED
    BY <1>2, <2>1, <2>2, ChangeCommit, ChangeFault, ChangeRecover, ChangeOperation DEF Next
<1>3. CompleteInv /\ ChangeShape /\ [Next]_vars => ChangeShape'
  BY <1>2 DEF ContractInv
<1>4. CompleteInv /\ ChangeShape <=> ContractInv
  BY DEF ContractInv
<1> QED
  BY <1>1, <1>3, <1>4, CompleteInvariant, PTL DEF Spec

-----------------------------------------------------------------------------
(* The open Vault works on what a restart would find, or on nothing.         *)
VisibleIsDurable == Visible = IF cur = None THEN None ELSE Durable

LEMMA VisibleFollows ==
  ASSUME CompleteInv
  PROVE  VisibleIsDurable
<1>1. CASE cur = None
  BY <1>1 DEF Visible, VisibleIsDurable
<1>2. CASE cur # None
  <2>1. cur = active /\ header # None /\ header = gens[cur].header
    BY <1>2 DEF CompleteInv, MemoryShape
  <2>2. Complete(gens[cur])
    BY <1>2, <2>1 DEF CompleteInv, ActiveComplete
  <2> QED
    BY <1>2, <2>1, <2>2 DEF Visible, Durable, IsOpen, VisibleIsDurable
<1> QED
  BY <1>1, <1>2

(* A step that keeps what a restart finds is Exit, Reopen or a stutter.      *)
LEMMA KeptIsContractStep ==
  ASSUME VisibleIsDurable, VisibleIsDurable', Durable' = Durable
  PROVE  [Contract!Next]_(Contract!contract)
  BY DEF VisibleIsDurable, Contract!Next, Contract!Exit, Contract!Reopen, Contract!contract

(* The switch installs a complete successor, or the first state of all.      *)
LEMMA SwitchIsContractStep ==
  ASSUME ContractInv, VisibleIsDurable, VisibleIsDurable', SwitchActive
  PROVE  Contract!Next
<1> USE DEF ContractInv, CompleteInv, DurableInv, OpensInv, TypeOK, ChangeShape, MemoryShape,
        WriteShape, TxnShape, Writing
<1>1. /\ txn.gen \in Gens /\ active' = txn.gen /\ cur' = txn.gen /\ gens' = gens
      /\ gens[txn.gen].header = txn.header /\ gens[txn.gen].records = txn.content
      /\ txn.pc = "switch"
  BY DEF SwitchActive
<1>2. Durable' = [header |-> txn.header, records |-> txn.content] /\ Visible' = Durable'
  BY <1>1, NoneIsNoData DEF Durable, Snapshot, VisibleIsDurable
<1>3. txn.header \in Header /\ txn.content \in Content
  BY <1>1 DEF Opens, Txn
<1>4. CASE txn.kind = "create"
  <2>1. active = None /\ cur = None /\ txn.content = EmptyContent
    BY <1>1, <1>4
  <2>2. Durable = None /\ Visible = None
    BY <2>1 DEF Durable, VisibleIsDurable
  <2>3. Contract!CreateVault(txn.header)
    BY <1>2, <2>1, <2>2 DEF Contract!CreateVault
  <2> QED
    BY <1>3, <2>3 DEF Contract!Next
<1>5. CASE txn.kind # "create"
  <2>1. cur # None /\ (txn.header = header \/ txn.content = gens[cur].records)
    BY <1>1, <1>5
  <2>2. cur = active /\ header = gens[cur].header /\ header # None
    BY <2>1
  <2>3. Visible = [header |-> header, records |-> gens[cur].records]
    BY <2>1, <2>2 DEF Durable, Snapshot, VisibleIsDurable
  <2>4. Visible \in Contract!Snapshots /\ Durable' \in Contract!Snapshots
    BY <1>2, <1>3, <2>1, <2>2, <2>3 DEF Contract!Snapshots, GenFiles
  <2>5. Contract!Install(Durable')
    BY <1>2, <2>1, <2>3, <2>4 DEF Contract!Install
  <2> QED
    BY <2>4, <2>5 DEF Contract!Next
<1> QED
  BY <1>4, <1>5

(* The vault keeps its contract: whatever write fails and wherever the       *)
(* process dies, a restart finds the old state or the new one, and the open  *)
(* Vault works on what a restart would find.                                 *)
THEOREM StoreKeepsContract ==
  ASSUME LateFaults = FALSE
  PROVE  Spec => ImplementsContract
<1>1. Init => Contract!Init
  BY DEF Init, Contract!Init, Visible, Durable, IsOpen
<1>2. ContractInv => VisibleIsDurable
  BY VisibleFollows DEF ContractInv
<1>3. ASSUME ContractInv, VisibleIsDurable, VisibleIsDurable', [Next]_vars
      PROVE  [Contract!Next]_(Contract!contract)
  <2>1. CASE SwitchActive
    BY <1>3, <2>1, SwitchIsContractStep
  <2>2. CASE ~SwitchActive
    <3>1. active' = active /\ (active # None => gens'[active] = gens[active])
      BY <1>3, <2>2, ActiveFilesStay DEF ContractInv, CompleteInv, DurableInv
    <3>2. Durable' = Durable
      BY <3>1 DEF Durable, Snapshot
    <3> QED
      BY <1>3, <3>2, KeptIsContractStep
  <2> QED
    BY <2>1, <2>2
<1>4. ContractInv /\ VisibleIsDurable /\ VisibleIsDurable' /\ [Next]_vars
        => [Contract!Next]_(Contract!contract)
  BY <1>3
<1> QED
  BY <1>1, <1>2, <1>4, ContractInvariant, PTL DEF Spec, ImplementsContract, Contract!Spec
=============================================================================
