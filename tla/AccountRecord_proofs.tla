------------------------ MODULE AccountRecord_proofs ------------------------
(* Theorems about AccountRecord, for every number of callers and of          *)
(* authenticators and every mix of calls and events: types, that what the    *)
(* vault calls an authenticator is one, and that an enrollment is kept.      *)
EXTENDS AccountRecord, TLAPS

USE GidsDiffer, LocksBounded

(* What the vault holds, or a call has read, says no more of an              *)
(* authenticator than Steam and the user have done.                          *)
Earned(r) ==
    r.gid \in OwnGids => /\ r.gid \in used
                         /\ r.kind = "mafile" => r.gid \in proved
                         /\ r.ack => r.gid \in acked
RecordsEarned ==
    /\ Earned(record) /\ \A c \in Callers : Earned(calls[c].read)
    /\ steam.active \in OwnGids => steam.active \in proved
    /\ steam.half \in OwnGids => steam.half \in used

(* What a call has in hand at each place.                                    *)
CallFits(c) ==
    /\ calls[c].epoch <= epoch
    /\ calls[c].gid # None => calls[c].gid \in used /\ calls[c].pc \in {"add", "final", "query"}
    /\ calls[c].pc = "remote" => HasSession(calls[c].read)
    /\ calls[c].pc = "add" => calls[c].read.kind \in {"none", "login"}
    /\ calls[c].pc \in {"final", "query", "work"} => calls[c].read.kind = "pending"
    /\ calls[c].pc \in {"final", "query"} =>
          /\ calls[c].read.ack
          /\ calls[c].gid # None => calls[c].gid = calls[c].read.gid /\ calls[c].gid \in proved
CallsFit == \A c \in Callers : CallFits(c)

(* What Steam has just added is known to the call that asked for it alone.   *)
AddedIsNew ==
    \A c \in Callers : At(c, "add") /\ Added(c) =>
        /\ record.gid # calls[c].gid
        /\ \A d \in Callers : calls[d].read.gid # calls[c].gid
        /\ \A d \in Callers \ {c} : calls[d].gid # calls[c].gid

(* A manager lets one call in at a time.                                     *)
OneInside ==
    \A c, d \in Callers : calls[c].pc \in Inside /\ calls[d].pc \in Inside /\ c # d
                            => calls[c].epoch # calls[d].epoch

(* As long as there is one manager, what is still being enrolled, in the     *)
(* vault or in the hand of a call, is nowhere an authenticator already.      *)
Nowhere(g) == record # MaFile(g) /\ \A d \in Callers : calls[d].read # MaFile(g)
NotAhead ==
    epoch = 0 =>
        /\ record.kind = "pending" => Nowhere(record.gid)
        /\ \A c \in Callers : calls[c].pc \in {"final", "query", "work"} => Nowhere(calls[c].read.gid)

RecordInv == TypeOK /\ RecordsEarned /\ CallsFit /\ AddedIsNew /\ OneInside /\ NotAhead
-----------------------------------------------------------------------------
(* Records, said by their parts.                                             *)
AsRecord(r) ==
    /\ r \in [kind : {"none", "login", "pending", "mafile"}, gid : Gids \cup {None}, ack : BOOLEAN]
    /\ r.kind \in {"none", "login"} => r.gid = None /\ ~r.ack
    /\ r.kind = "pending" => r.gid \in OwnGids
    /\ r.kind = "mafile" => r.gid \in Gids /\ r.ack

LEMMA RecordsByPart == \A r : r \in Record <=> AsRecord(r)
<1> SUFFICES ASSUME NEW r
             PROVE  r \in Record <=> AsRecord(r)
  OBVIOUS
<1>0. LoginOnly = [kind |-> "login", gid |-> None, ack |-> FALSE]
  <2>1. NoRecord \in [kind : {"none"}, gid : {None}, ack : {FALSE}]
    BY DEF NoRecord
  <2>2. LoginOnly \in [kind : {"login"}, gid : {None}, ack : {FALSE}]
    BY <2>1 DEF LoginOnly
  <2> QED
    BY <2>2
<1> USE DEF Gids
<1>1. r \in {NoRecord, LoginOnly} => AsRecord(r)
  <2>1. AsRecord(NoRecord)
    BY DEF AsRecord, NoRecord
  <2>2. AsRecord(LoginOnly)
    BY <1>0 DEF AsRecord
  <2> QED
    BY <2>1, <2>2
<1>2. r \in [kind : {"pending"}, gid : OwnGids, ack : BOOLEAN] => AsRecord(r)
  BY DEF AsRecord
<1>3. r \in [kind : {"mafile"}, gid : Gids, ack : {TRUE}] => AsRecord(r)
  BY DEF AsRecord
<1>4. ASSUME AsRecord(r)
      PROVE  r \in Record
  <2>1. CASE r.kind = "none"
    <3>1. r = NoRecord
      BY <1>4, <2>1 DEF AsRecord, NoRecord
    <3> QED
      BY <3>1 DEF Record
  <2>2. CASE r.kind = "login"
    <3>1. r = LoginOnly
      BY <1>0, <1>4, <2>2 DEF AsRecord
    <3> QED
      BY <3>1 DEF Record
  <2>3. CASE r.kind \in {"pending", "mafile"}
    BY <1>4, <2>3 DEF AsRecord, Record
  <2> QED
    BY <1>4, <2>1, <2>2, <2>3 DEF AsRecord
<1> QED
  BY <1>1, <1>2, <1>3, <1>4 DEF Record

LEMMA RecordsMade ==
  /\ NoRecord \in Record /\ LoginOnly \in Record
  /\ \A g \in OwnGids : Pending(g) \in Record
  /\ \A g \in Gids : MaFile(g) \in Record
  BY DEF Record, Pending, MaFile

LEMMA NoCallIsOne == NoCall \in Call
  BY RecordsMade DEF NoCall, Call, Ops, Stages, Keys

(* How a call begins: it has nothing in hand but what the vault holds.       *)
Fresh(k) ==
    /\ k \in Call /\ k.gid = None /\ k.epoch \in {0, epoch} /\ k.pc \in {"remote", "checked", "lock"}
    /\ k.read \in {NoRecord, record}
    /\ k.pc = "remote" => HasSession(k.read)

LEMMA BeginsSays ==
  ASSUME TypeOK, NEW c \in Callers, NEW op \in Ops, NEW pc \in {"remote", "checked", "lock"}, NEW key \in Keys,
         Begins(c, op, pc, key), pc = "remote" => HasSession(record)
  PROVE  /\ \E k : Fresh(k) /\ calls' = [calls EXCEPT ![c] = k]
         /\ slot' \in [Keys -> Callers \cup {None}]
         /\ UNCHANGED <<record, locked, epoch, world, acked>>
<1> DEFINE a == [NoCall EXCEPT !.op = op, !.pc = pc, !.key = key, !.epoch = epoch,
                              !.read = IF pc = "lock" THEN NoRecord ELSE record,
                              !.replace = op \in {"promote", "polladd"} /\ record.kind = "login"]
           b == [NoCall EXCEPT !.op = op, !.pc = pc, !.key = key, !.read = record]
<1>1. record \in Record /\ NoRecord \in Record /\ epoch \in 0 .. MaxLocks /\ 0 \in 0 .. MaxLocks
  BY RecordsMade DEF TypeOK
<1>2. a \in Call /\ b \in Call
  BY <1>1 DEF NoCall, Call, Stages
<1>3. Fresh(a)
  BY <1>2 DEF Fresh, NoCall
<1>4. pc # "lock" => Fresh(b)
  BY <1>2 DEF Fresh, NoCall
<1>5. calls' = [calls EXCEPT ![c] = a] \/ (pc # "lock" /\ calls' = [calls EXCEPT ![c] = b])
  BY DEF Begins
<1>6. slot' \in [Keys -> Callers \cup {None}]
  BY DEF Begins, Bound, TypeOK
<1> HIDE DEF a, b
<1> QED
  BY <1>3, <1>4, <1>5, <1>6 DEF Begins

LEMMA BeginSays ==
  ASSUME TypeOK, NEW c \in Callers, Begin(c), ~CancelSteamGuardEnrollment(c)
  PROVE  /\ \E k : Fresh(k) /\ calls' = [calls EXCEPT ![c] = k]
         /\ slot' \in [Keys -> Callers \cup {None}]
         /\ UNCHANGED <<record, locked, epoch, world, acked>>
<1> USE BeginsSays DEF Ops, Keys
<1>1. CASE SweepRenews(c) \/ LoginAgain(c) \/ EnsureFreshSession(c)
  BY <1>1 DEF SweepRenews, LoginAgain, EnsureFreshSession
<1>2. CASE PollLoginAgain(c) \/ PollLoginOnly(c) \/ PollAddAuthenticator(c)
  BY <1>2 DEF PollLoginAgain, PollLoginOnly, PollAddAuthenticator
<1>3. CASE ForgetLoginOnly(c) \/ ImportAccount(c) \/ FinalizeEnrollment(c)
  BY <1>3 DEF ForgetLoginOnly, ImportAccount, FinalizeEnrollment
<1>4. CASE AcknowledgeRevocationCode(c) \/ ResumeEnrollment(c)
  BY <1>4 DEF AcknowledgeRevocationCode, ResumeEnrollment
<1>5. CASE PromoteLoginOnlyAccount(c)
  BY <1>5 DEF PromoteLoginOnlyAccount, HasSession
<1> QED
  BY <1>1, <1>2, <1>3, <1>4, <1>5 DEF Begin

LEMMA RecordInitial == Init => RecordInv
<1> SUFFICES ASSUME Init
             PROVE  RecordInv
  OBVIOUS
<1>1. TypeOK
  <2>1. calls \in [Callers -> Call] /\ record \in Record
    BY NoCallIsOne, RecordsMade DEF Init
  <2>2. slot \in [Keys -> Callers \cup {None}] /\ epoch \in 0 .. MaxLocks
    BY DEF Init
  <2>3. steam \in [active : Gids \cup {None}, half : OwnGids \cup {None}]
    BY DEF Init
  <2> QED
    BY <2>1, <2>2, <2>3 DEF Init, TypeOK
<1>2. RecordsEarned /\ CallsFit /\ AddedIsNew /\ OneInside
  BY DEF Init, RecordsEarned, Earned, CallsFit, CallFits, AddedIsNew, OneInside, NoCall, NoRecord, At, Inside
<1>3. NotAhead
  BY DEF Init, NotAhead, NoCall, NoRecord
<1> QED
  BY <1>1, <1>2, <1>3 DEF RecordInv

(* What a call writes is not the authenticator that Steam has just added for *)
(* another call, and takes no enrollment back.                               *)
WritesWell(c, r) ==
    /\ \A d \in Callers \ {c} : At(d, "add") /\ Added(d) => r.gid # calls[d].gid
    /\ epoch = 0 =>
          /\ r.kind = "pending" => \A d \in Callers \ {c} : calls[d].read # MaFile(r.gid)
          /\ \A d \in Callers \ {c} : calls[d].pc \in {"final", "query", "work"} => r # MaFile(calls[d].read.gid)

(* A step of a call that leaves Steam alone.                                 *)
LEMMA CallSteps ==
  ASSUME RecordInv, NEW c \in Callers, NEW k \in Call, calls' = [calls EXCEPT ![c] = k],
         slot' \in [Keys -> Callers \cup {None}], UNCHANGED <<locked, epoch, world>>,
         acked \subseteq acked', acked' \subseteq used,
         record' \in Record, Earned(record)',
         record' # record => WritesWell(c, record') /\ k.read = NoRecord,
         CallFits(c)', k.read \in {NoRecord, record, calls[c].read}, k.gid \in {None, calls[c].gid},
         k.pc = "add" => k.gid = None,
         k.pc \in Inside => \/ calls[c].pc \in Inside /\ k.epoch = calls[c].epoch
                           \/ LockFree(k.epoch),
         epoch = 0 /\ k.pc \in {"final", "query", "work"} => Nowhere(k.read.gid)
  PROVE  RecordInv'
<1>1. calls' \in [Callers -> Call] /\ calls'[c] = k /\ \A d \in Callers \ {c} : calls'[d] = calls[d]
  BY DEF RecordInv, TypeOK
<1>2. TypeOK'
  BY <1>1 DEF RecordInv, TypeOK, world
<1>3. RecordsEarned'
  <2>1. Earned(NoRecord)' /\ \A r : Earned(r) => Earned(r)'
    BY DEF Earned, NoRecord, world
  <2>2. \A d \in Callers : Earned(calls[d].read)'
    BY <1>1, <2>1 DEF RecordInv, RecordsEarned
  <2> QED
    BY <2>2 DEF RecordInv, RecordsEarned, Earned, world
<1>4. CallsFit'
  BY <1>1 DEF RecordInv, TypeOK, CallsFit, CallFits, world
<1>5. AddedIsNew'
  <2> SUFFICES ASSUME NEW d \in Callers, At(d, "add")', Added(d)'
               PROVE  /\ record'.gid # calls'[d].gid
                      /\ \A e \in Callers : calls'[e].read.gid # calls'[d].gid
                      /\ \A e \in Callers \ {d} : calls'[e].gid # calls'[d].gid
    BY DEF AddedIsNew
  <2>1. d # c /\ At(d, "add") /\ Added(d) /\ calls'[d] = calls[d]
    BY <1>1 DEF At, Added
  <2>2. record.gid # calls[d].gid /\ record'.gid # calls[d].gid
    BY <2>1 DEF RecordInv, AddedIsNew, WritesWell
  <2>3. \A e \in Callers : calls'[e].read.gid # calls[d].gid
    BY <1>1, <2>1, <2>2 DEF RecordInv, AddedIsNew, NoRecord, Added
  <2>4. \A e \in Callers \ {d} : calls'[e].gid # calls[d].gid
    BY <1>1, <2>1 DEF RecordInv, AddedIsNew, Added
  <2> QED
    BY <2>1, <2>2, <2>3, <2>4
<1>6. OneInside'
  BY <1>1 DEF RecordInv, OneInside, LockFree
<1>7. NotAhead'
  <2> SUFFICES ASSUME epoch = 0
               PROVE  /\ (record.kind = "pending" => Nowhere(record.gid))'
                      /\ \A d \in Callers : (calls[d].pc \in {"final", "query", "work"} => Nowhere(calls[d].read.gid))'
    BY DEF NotAhead
  <2>1. \A g : NoRecord # MaFile(g)
    BY DEF NoRecord, MaFile
  <2>2. CASE record' = record
    <3>1. \A g : Nowhere(g) => Nowhere(g)'
      BY <1>1, <2>1, <2>2 DEF Nowhere
    <3> QED
      BY <1>1, <2>2, <3>1 DEF RecordInv, NotAhead
  <2>3. CASE record' # record
    <3>1. k.read = NoRecord /\ WritesWell(c, record')
      BY <2>3
    <3>2. k.pc \notin {"final", "query", "work"}
      BY <1>1, <3>1 DEF CallFits, NoRecord
    <3>3. (record.kind = "pending" => Nowhere(record.gid))'
      BY <1>1, <2>1, <3>1 DEF Nowhere, WritesWell, MaFile
    <3>4. ASSUME NEW d \in Callers, calls'[d].pc \in {"final", "query", "work"}
          PROVE  Nowhere(calls[d].read.gid)'
      BY <1>1, <2>1, <3>1, <3>2, <3>4 DEF Nowhere, WritesWell, RecordInv, NotAhead
    <3> QED
      BY <3>3, <3>4
  <2> QED
    BY <2>2, <2>3
<1> QED
  BY <1>2, <1>3, <1>4, <1>5, <1>6, <1>7 DEF RecordInv

(* A call that ends, after a write or without.                               *)
LEMMA EndSteps ==
  ASSUME RecordInv, NEW c \in Callers, Ended(c), UNCHANGED <<locked, epoch, world>>,
         acked \subseteq acked', acked' \subseteq used,
         record' \in Record, Earned(record)', record' # record => WritesWell(c, record')
  PROVE  RecordInv'
<1>1. slot' \in [Keys -> Callers \cup {None}]
  BY DEF Ended, SlotsAfter, RecordInv, TypeOK
<1>2. NoCall \in Call /\ calls' = [calls EXCEPT ![c] = NoCall] /\ NoCall.read = NoRecord /\ NoCall.gid = None
  BY NoCallIsOne DEF Ended, NoCall
<1>3. CallFits(c)'
  <2>1. calls'[c] = NoCall /\ epoch \in Nat
    BY <1>2 DEF RecordInv, TypeOK
  <2> QED
    BY <2>1 DEF CallFits, NoCall
<1>4. NoCall.pc = "idle"
  BY DEF NoCall
<1> QED
  BY <1>1, <1>2, <1>3, <1>4, CallSteps DEF Inside

(* What a call has read, it may write back.                                  *)
LEMMA SessionsWriteWell ==
  ASSUME RecordInv, NEW c \in Callers, HasSession(calls[c].read)
  PROVE  /\ calls[c].read \in Record /\ Earned(calls[c].read)
         /\ WritesWell(c, calls[c].read)
<1>1. calls[c].read \in Record /\ Earned(calls[c].read)
  BY DEF RecordInv, TypeOK, Call, RecordsEarned
<1>2. \A d \in Callers \ {c} : At(d, "add") /\ Added(d) => calls[c].read.gid # calls[d].gid
  BY DEF RecordInv, AddedIsNew
<1>3. epoch = 0 => \A d \in Callers : calls[d].pc \in {"final", "query", "work"} => calls[c].read # MaFile(calls[d].read.gid)
  BY DEF RecordInv, NotAhead, Nowhere
<1> QED
  BY <1>1, <1>2, <1>3 DEF WritesWell, HasSession

LEMMA AuthenticatorsWriteWell ==
  ASSUME RecordInv, NEW c \in Callers, calls[c].pc \in {"final", "query"}, calls[c].read.gid \in proved
  PROVE  /\ MaFile(calls[c].read.gid) \in Record /\ Earned(MaFile(calls[c].read.gid))
         /\ WritesWell(c, MaFile(calls[c].read.gid))
<1> DEFINE r == calls[c].read
<1>1. r \in Record /\ r.kind = "pending" /\ r.ack /\ Earned(r)
  BY DEF RecordInv, TypeOK, Call, RecordsEarned, CallsFit, CallFits
<1>2. r.gid \in OwnGids
  BY <1>1, RecordsByPart DEF AsRecord
<1>3. MaFile(r.gid) \in Record /\ Earned(MaFile(r.gid))
  BY <1>1, <1>2, RecordsMade DEF Earned, MaFile, Gids
<1>4. \A d \in Callers \ {c} : At(d, "add") /\ Added(d) => r.gid # calls[d].gid
  BY DEF RecordInv, AddedIsNew
<1>5. ASSUME epoch = 0
      PROVE  \A d \in Callers \ {c} : calls[d].pc \notin {"final", "query", "work"}
  <2>1. \A d \in Callers : calls[d].epoch = 0
    BY <1>5 DEF RecordInv, TypeOK, Call, CallsFit, CallFits
  <2> QED
    BY <2>1 DEF RecordInv, OneInside, Inside
<1> QED
  BY <1>3, <1>4, <1>5 DEF WritesWell, MaFile

LEMMA PendingWritesWell ==
  ASSUME RecordInv, NEW c \in Callers, calls[c].pc \in {"final", "query", "work"},
         NEW r, r.kind = "pending", r.gid = calls[c].read.gid
  PROVE  WritesWell(c, r)
<1>1. \A d \in Callers \ {c} : At(d, "add") /\ Added(d) => r.gid # calls[d].gid
  BY DEF RecordInv, AddedIsNew
<1>2. epoch = 0 => \A d \in Callers : calls[d].read # MaFile(r.gid)
  BY DEF RecordInv, NotAhead, Nowhere
<1>3. \A g : r # MaFile(g)
  <2>1. \A g : MaFile(g).kind = "mafile"
    BY DEF MaFile
  <2> QED
    BY <2>1
<1> QED
  BY <1>1, <1>2, <1>3 DEF WritesWell

LEMMA RenewalStep ==
  ASSUME RecordInv, NEW c \in Callers, RenewalWrites(c) \/ RenewalFails(c)
  PROVE  RecordInv'
<1>1. CASE RenewalFails(c)
  BY <1>1, EndSteps DEF RenewalFails, RecordInv, RecordsEarned, Earned, world, TypeOK
<1>2. CASE RenewalWrites(c)
  <2>1. HasSession(calls[c].read) /\ calls[c].pc = "remote"
    BY <1>2 DEF RenewalWrites, At, RecordInv, CallsFit, CallFits
  <2>2. record' = calls[c].read /\ UNCHANGED <<locked, epoch, world, acked>> /\ acked \subseteq used
    BY <1>2 DEF RenewalWrites, RecordInv, TypeOK
  <2>3. record' \in Record /\ Earned(record)' /\ WritesWell(c, record')
    BY <2>1, <2>2, SessionsWriteWell DEF Earned, world
  <2>4. CASE Ended(c)
    BY <2>2, <2>3, <2>4, EndSteps
  <2>5. CASE calls' = [calls EXCEPT ![c].pc = "rebind", ![c].read = NoRecord] /\ slot' = SlotsAfter(c)
    <3> DEFINE k == [calls[c] EXCEPT !.pc = "rebind", !.read = NoRecord]
    <3>1. k \in Call /\ k.pc = "rebind" /\ k.read = NoRecord /\ k.gid = calls[c].gid /\ k.epoch = calls[c].epoch
      <4>1. calls[c] \in Call /\ NoRecord \in Record
        BY RecordsMade DEF RecordInv, TypeOK
      <4> QED
        BY <4>1 DEF Call, Stages
    <3>2. calls' = [calls EXCEPT ![c] = k] /\ calls'[c] = k
      BY <2>5 DEF RecordInv, TypeOK
    <3>3. slot' \in [Keys -> Callers \cup {None}]
      BY <2>5 DEF SlotsAfter, RecordInv, TypeOK
    <3>4. CallFits(c)'
      BY <2>1, <2>2, <3>1, <3>2 DEF RecordInv, CallsFit, CallFits
    <3> HIDE DEF k
    <3> QED
      BY <2>2, <2>3, <3>1, <3>2, <3>3, <3>4, CallSteps DEF Inside
  <2> QED
    BY <1>2, <2>4, <2>5 DEF RenewalWrites
<1> QED
  BY <1>1, <1>2

LEMMA OthersWriteWell ==
  ASSUME RecordInv, NEW c \in Callers, NEW r \in {NoRecord, LoginOnly, MaFile(FileGid)}
  PROVE  r \in Record /\ r.gid \notin OwnGids /\ WritesWell(c, r)
<1>1. r \in Record
  BY RecordsMade DEF Gids
<1>2. r.gid \in {None, FileGid} /\ r.kind # "pending"
  BY DEF NoRecord, LoginOnly, MaFile
<1>3. \A d \in Callers : Added(d) => calls[d].gid \in OwnGids
  BY DEF RecordInv, TypeOK, Call, Added
<1>4. \A d \in Callers : calls[d].pc \in {"final", "query", "work"} => calls[d].read.gid \in OwnGids
  BY RecordsByPart DEF RecordInv, TypeOK, Call, CallsFit, CallFits, AsRecord
<1>5. \A g \in OwnGids : r # MaFile(g)
  <2>1. \A g : MaFile(g).gid = g
    BY DEF MaFile
  <2> QED
    BY <1>2, <2>1
<1> QED
  BY <1>1, <1>2, <1>3, <1>4, <1>5 DEF WritesWell

LEMMA CheckedStep ==
  ASSUME RecordInv, NEW c \in Callers, CheckedWrites(c) \/ CheckedRefuses(c)
  PROVE  RecordInv'
<1>1. UNCHANGED <<locked, epoch, world, acked>> /\ Ended(c) /\ acked \subseteq used
  BY DEF CheckedWrites, CheckedRefuses, RecordInv, TypeOK
<1>2. CASE UNCHANGED record
  BY <1>1, <1>2, EndSteps DEF RecordInv, RecordsEarned, Earned, world, TypeOK
<1>3. CASE record' = calls[c].read /\ HasSession(calls[c].read)
  BY <1>1, <1>3, SessionsWriteWell, EndSteps DEF Earned, world
<1>4. CASE record' \in {NoRecord, LoginOnly, MaFile(FileGid)}
  BY <1>1, <1>4, OthersWriteWell, EndSteps DEF Earned
<1> QED
  BY <1>2, <1>3, <1>4 DEF CheckedWrites, CheckedRefuses

LEMMA RebindStep ==
  ASSUME RecordInv, NEW c \in Callers, RebindPromotion(c)
  PROVE  RecordInv'
<1>1. UNCHANGED <<record, locked, epoch, world, acked>> /\ acked \subseteq used /\ record \in Record /\ Earned(record)'
  BY DEF RebindPromotion, RecordInv, TypeOK, RecordsEarned, Earned, world
<1>2. CASE Ended(c)
  BY <1>1, <1>2, EndSteps
<1>3. CASE Bound(c, "account") /\ calls' = [calls EXCEPT ![c].pc = "lock"]
  <2> DEFINE k == [calls[c] EXCEPT !.pc = "lock"]
  <2>1. calls[c] \in Call /\ slot \in [Keys -> Callers \cup {None}]
    BY DEF RecordInv, TypeOK
  <2>2. k \in Call /\ k.pc = "lock" /\ k.read = calls[c].read /\ k.gid = calls[c].gid /\ k.epoch = calls[c].epoch
    BY <2>1 DEF Call, Stages
  <2>3. calls' = [calls EXCEPT ![c] = k] /\ calls'[c] = k
    BY <1>3 DEF RecordInv, TypeOK
  <2>4. slot' \in [Keys -> Callers \cup {None}]
    BY <1>3, <2>1 DEF Bound
  <2>5. CallFits(c)'
    BY <1>1, <2>2, <2>3 DEF RecordInv, CallsFit, CallFits, RebindPromotion, At
  <2> HIDE DEF k
  <2> QED
    BY <1>1, <2>2, <2>3, <2>4, <2>5, CallSteps DEF Inside
<1> QED
  BY <1>2, <1>3 DEF RebindPromotion

LEMMA EnterStep ==
  ASSUME RecordInv, NEW c \in Callers, Enter(c)
  PROVE  RecordInv'
<1>1. UNCHANGED <<record, locked, epoch, world, acked>> /\ acked \subseteq used /\ record \in Record /\ Earned(record)'
  BY DEF Enter, RecordInv, TypeOK, RecordsEarned, Earned, world
<1>2. CASE Ended(c)
  BY <1>1, <1>2, EndSteps
<1>3. ASSUME NEW pc \in {"add", "final", "work"}, Reads(c, pc),
             pc = "add" => record.kind # "pending" /\ MayStart(c),
             pc # "add" => record.kind = "pending",
             pc = "final" => record.ack
      PROVE  RecordInv'
  <2> DEFINE k == [calls[c] EXCEPT !.pc = pc, !.read = record]
  <2>1. calls[c] \in Call /\ slot \in [Keys -> Callers \cup {None}]
    BY DEF RecordInv, TypeOK
  <2>2. k \in Call /\ k.pc = pc /\ k.read = record /\ k.gid = calls[c].gid /\ k.epoch = calls[c].epoch
    BY <1>1, <2>1 DEF Call, Stages
  <2>3. calls' = [calls EXCEPT ![c] = k] /\ calls'[c] = k
    BY <1>3 DEF RecordInv, TypeOK, Reads
  <2>4. slot' \in [Keys -> Callers \cup {None}]
    BY <1>3, <2>1 DEF Reads
  <2>5. k.gid = None /\ LockFree(k.epoch)
    BY <2>2 DEF Enter, At, RecordInv, CallsFit, CallFits
  <2>6. CallFits(c)'
    BY <1>1, <1>3, <2>2, <2>3, <2>5 DEF RecordInv, CallsFit, CallFits, MayStart
  <2>7. epoch = 0 /\ k.pc \in {"final", "query", "work"} => Nowhere(k.read.gid)
    BY <1>3, <2>2 DEF RecordInv, NotAhead
  <2> HIDE DEF k
  <2> QED
    BY <1>1, <2>2, <2>3, <2>4, <2>5, <2>6, <2>7, CallSteps
<1> QED
  BY <1>2, <1>3 DEF Enter, MayFinalize

(* What the manager stores, or does not.                                     *)
LEMMA ManagerStep ==
  ASSUME RecordInv, NEW c \in Callers,
         \/ StartStores(c) \/ AcknowledgeStores(c) \/ FinalizeCompletes(c) \/ FinalizeWantsMore(c)
         \/ FinalizeRefused(c) \/ CommitIfActivated(c) \/ ManagerFails(c)
  PROVE  RecordInv'
<1> USE DEF RecordInv, At
<1>1. calls[c] \in Call /\ calls[c].read \in Record /\ CallFits(c) /\ acked \subseteq used /\ Earned(calls[c].read)
  BY DEF TypeOK, Call, CallsFit, RecordsEarned
<1>2. CASE StartStores(c)
  <2>1. calls[c].gid \in OwnGids /\ calls[c].gid \in used
    BY <1>1, <1>2 DEF StartStores, Added, Call, CallFits
  <2>2. Pending(calls[c].gid) \in Record /\ Earned(Pending(calls[c].gid))
    BY <2>1, RecordsMade DEF Pending, Earned
  <2>3. WritesWell(c, Pending(calls[c].gid))
    <3>1. \A d \in Callers \ {c} : calls[d].gid # calls[c].gid
      BY <1>2 DEF StartStores, AddedIsNew
    <3>2. \A d \in Callers : calls[d].read.gid # calls[c].gid
      BY <1>2 DEF StartStores, AddedIsNew
    <3>3. \A g : MaFile(g).gid = g /\ MaFile(g).kind = "mafile"
      BY DEF MaFile
    <3> QED
      BY <3>1, <3>2, <3>3 DEF WritesWell, Pending
  <2> QED
    BY <1>1, <1>2, <2>2, <2>3, EndSteps DEF StartStores, Earned, world
<1>3. CASE AcknowledgeStores(c)
  <2> DEFINE r == [calls[c].read EXCEPT !.ack = TRUE]
  <2>1. calls[c].read.kind = "pending" /\ calls[c].read.gid \in OwnGids /\ calls[c].read.gid \in used
    BY <1>1, <1>3, RecordsByPart DEF AcknowledgeStores, CallFits, AsRecord, Earned
  <2>2. r.kind = "pending" /\ r.gid = calls[c].read.gid /\ AsRecord(r)
    BY <1>1, <2>1, RecordsByPart DEF AsRecord
  <2>3. record' = r /\ Ended(c) /\ UNCHANGED <<locked, epoch, world>> /\ acked' = acked \cup {calls[c].read.gid}
    BY <1>3 DEF AcknowledgeStores
  <2> HIDE DEF r
  <2>4. r \in Record /\ Earned(record)'
    BY <2>1, <2>2, <2>3, RecordsByPart DEF Earned, world
  <2>5. WritesWell(c, r)
    BY <1>3, <2>2, PendingWritesWell DEF AcknowledgeStores
  <2> QED
    BY <1>1, <2>1, <2>3, <2>4, <2>5, EndSteps
<1>4. CASE FinalizeCompletes(c)
  <2>1. calls[c].read.gid \in proved
    BY <1>1, <1>4 DEF FinalizeCompletes, CallFits
  <2> QED
    BY <1>1, <1>4, <2>1, AuthenticatorsWriteWell, EndSteps DEF FinalizeCompletes, Earned, world
<1>5. CASE FinalizeWantsMore(c)
  <2>1. WritesWell(c, calls[c].read)
    BY <1>1, <1>5, PendingWritesWell DEF FinalizeWantsMore, CallFits
  <2> QED
    BY <1>1, <1>5, <2>1, EndSteps DEF FinalizeWantsMore, Earned, world
<1>6. CASE FinalizeRefused(c)
  <2> DEFINE k == [calls[c] EXCEPT !.pc = "query"]
  <2>1. k \in Call /\ k.pc = "query" /\ k.read = calls[c].read /\ k.gid = calls[c].gid /\ k.epoch = calls[c].epoch
    BY <1>1 DEF Call, Stages
  <2>2. calls' = [calls EXCEPT ![c] = k] /\ calls'[c] = k /\ UNCHANGED <<slot, record, locked, epoch, world, acked>>
    BY <1>6 DEF FinalizeRefused, Go, TypeOK
  <2>3. CallFits(c)'
    BY <1>1, <1>6, <2>1, <2>2 DEF CallFits, FinalizeRefused, world
  <2>4. slot' \in [Keys -> Callers \cup {None}] /\ record' \in Record /\ Earned(record)'
    BY <2>2 DEF TypeOK, RecordsEarned, Earned, world
  <2>5. calls[c].pc = "final" /\ (epoch = 0 => Nowhere(k.read.gid))
    BY <1>6, <2>1 DEF FinalizeRefused, NotAhead
  <2> HIDE DEF k
  <2> QED
    BY <1>1, <2>1, <2>2, <2>3, <2>4, <2>5, CallSteps DEF Inside
<1>7. CASE CommitIfActivated(c)
  <2>1. calls[c].read.gid \in OwnGids /\ calls[c].read.gid = steam.active
    BY <1>1, <1>7, RecordsByPart DEF CommitIfActivated, SteamActivated, CallFits, AsRecord
  <2>2. calls[c].read.gid \in proved
    BY <2>1 DEF RecordsEarned
  <2> QED
    BY <1>1, <1>7, <2>2, AuthenticatorsWriteWell, EndSteps DEF CommitIfActivated, Earned, world
<1>8. CASE ManagerFails(c)
  BY <1>1, <1>8, EndSteps DEF ManagerFails, TypeOK, RecordsEarned, Earned, world
<1> QED
  BY <1>2, <1>3, <1>4, <1>5, <1>6, <1>7, <1>8

(* Steam answers.                                                            *)
LEMMA SteamStep ==
  ASSUME RecordInv, NEW c \in Callers, SteamAdds(c) \/ SteamFinalizes(c)
  PROVE  RecordInv'
<1> USE DEF RecordInv, At
<1>1. calls[c] \in Call /\ CallFits(c)
  BY DEF TypeOK, CallsFit
<1>2. ASSUME NEW g \in OwnGids, calls' = [calls EXCEPT ![c].gid = g],
             UNCHANGED <<record, locked, epoch, slot, acked>>,
             used \subseteq used', used' \subseteq OwnGids, proved \subseteq proved', proved' \subseteq used', g \in used',
             steam' \in [active : Gids \cup {None}, half : OwnGids \cup {None}],
             steam'.active \in OwnGids => steam'.active \in proved',
             steam'.half \in OwnGids => steam'.half \in used',
             calls[c].gid = None,
             \/ At(c, "add") /\ g \notin used
             \/ At(c, "final") /\ g = calls[c].read.gid /\ g \in proved'
      PROVE  RecordInv'
  <2> DEFINE k == [calls[c] EXCEPT !.gid = g]
  <2>1. k \in Call /\ k.pc = calls[c].pc /\ k.read = calls[c].read /\ k.gid = g /\ k.epoch = calls[c].epoch
    BY <1>1 DEF Call
  <2>2. calls' \in [Callers -> Call] /\ calls'[c] = k /\ \A d \in Callers \ {c} : calls'[d] = calls[d]
    BY <1>2, <2>1 DEF TypeOK
  <2> HIDE DEF k
  <2>3. TypeOK'
    BY <1>2, <2>2 DEF TypeOK
  <2>4. \A d \in Callers : calls'[d].read = calls[d].read /\ calls'[d].pc = calls[d].pc /\ calls'[d].epoch = calls[d].epoch
    BY <2>1, <2>2
  <2>5. RecordsEarned'
    BY <1>2, <2>4 DEF RecordsEarned, Earned
  <2>6. CallsFit'
    <3>1. CallFits(c)'
      BY <1>1, <1>2, <2>1, <2>2 DEF CallFits
    <3>2. \A d \in Callers \ {c} : CallFits(d)'
      BY <1>2, <2>2 DEF CallsFit, CallFits
    <3> QED
      BY <3>1, <3>2 DEF CallsFit
  <2>7. AddedIsNew'
    <3>1. record.gid # None /\ record.gid \in OwnGids => record.gid \in used
      BY DEF RecordsEarned, Earned
    <3>2. \A d \in Callers : calls[d].read.gid \in OwnGids => calls[d].read.gid \in used
      BY DEF RecordsEarned, Earned
    <3>3. \A d \in Callers : calls[d].gid # None => calls[d].gid \in used
      BY DEF CallsFit, CallFits
    <3>4. CASE At(c, "add") /\ g \notin used
      BY <1>2, <2>1, <2>2, <2>4, <3>1, <3>2, <3>3, <3>4 DEF AddedIsNew, Added
    <3>5. CASE At(c, "final") /\ g = calls[c].read.gid
      BY <1>2, <2>1, <2>2, <2>4, <3>5 DEF AddedIsNew, Added
    <3> QED
      BY <1>2, <3>4, <3>5
  <2>8. OneInside' /\ NotAhead'
    BY <1>2, <2>4 DEF OneInside, NotAhead, Nowhere
  <2> QED
    BY <2>3, <2>5, <2>6, <2>7, <2>8
<1>3. CASE SteamAdds(c)
  <2>1. PICK g \in OwnGids \ used :
            /\ used' = used \cup {g} /\ calls' = [calls EXCEPT ![c].gid = g]
            /\ Activate(g, None) \/ Activate(None, g)
    BY <1>3 DEF SteamAdds
  <2>2. proved' \subseteq used' /\ proved \subseteq proved' /\ used' \subseteq OwnGids /\ used \subseteq used'
    BY <2>1 DEF Activate, TypeOK
  <2>3. steam' \in [active : Gids \cup {None}, half : OwnGids \cup {None}]
    BY <2>1 DEF Activate, Gids
  <2>4. /\ steam'.active \in OwnGids => steam'.active \in proved'
        /\ steam'.half \in OwnGids => steam'.half \in used'
    BY <2>1 DEF Activate
  <2> QED
    BY <1>2, <1>3, <2>1, <2>2, <2>3, <2>4 DEF SteamAdds
<1>4. CASE SteamFinalizes(c)
  <2> DEFINE g == calls[c].read.gid
  <2>1. g \in OwnGids /\ g \in used
    <3>1. calls[c].read \in Record /\ calls[c].read.kind = "pending" /\ Earned(calls[c].read)
      BY <1>1, <1>4 DEF SteamFinalizes, CallFits, Call, RecordsEarned
    <3> QED
      BY <3>1, RecordsByPart DEF AsRecord, Earned
  <2>2. calls' = [calls EXCEPT ![c].gid = g] /\ UNCHANGED <<record, locked, epoch, slot, used, acked>> /\ Activate(g, None)
    BY <1>4 DEF SteamFinalizes
  <2>3. /\ steam' \in [active : Gids \cup {None}, half : OwnGids \cup {None}]
        /\ steam'.active = g /\ steam'.half = None /\ proved' = proved \cup {g}
    BY <2>1, <2>2 DEF Activate, Gids
  <2>4. used' \subseteq OwnGids /\ proved' \subseteq used' /\ used \subseteq used'
    BY <2>1, <2>2, <2>3 DEF TypeOK
  <2>5. calls[c].gid = None /\ At(c, "final")
    BY <1>4 DEF SteamFinalizes
  <2> HIDE DEF g
  <2> QED
    BY <1>2, <2>1, <2>2, <2>3, <2>4, <2>5 DEF g
<1> QED
  BY <1>3, <1>4

(* The user, a cancel, a lock and a crash.                                   *)
LEMMA CancelStep ==
  ASSUME RecordInv, NEW c \in Callers, CancelSteamGuardEnrollment(c)
  PROVE  RecordInv'
<1> DEFINE k == [NoCall EXCEPT !.op = "resume", !.pc = "lock", !.epoch = epoch]
<1> USE DEF RecordInv, At
<1>1. k \in Call /\ k.pc = "lock" /\ k.read = NoRecord /\ k.gid = None /\ k.epoch = epoch
  <2>1. epoch \in 0 .. MaxLocks
    BY DEF TypeOK
  <2> QED
    BY <2>1, NoCallIsOne DEF NoCall, Call, Ops, Stages
<1>2. calls'[c] = k
  BY DEF CancelSteamGuardEnrollment
<1>3. \A d \in Callers \ {c} : /\ calls'[d] \in Call /\ calls'[d].pc = calls[d].pc /\ calls'[d].read = calls[d].read
                               /\ calls'[d].gid = calls[d].gid /\ calls'[d].epoch = calls[d].epoch
  <2> SUFFICES ASSUME NEW d \in Callers \ {c}
               PROVE  /\ calls'[d] \in Call /\ calls'[d].pc = calls[d].pc /\ calls'[d].read = calls[d].read
                      /\ calls'[d].gid = calls[d].gid /\ calls'[d].epoch = calls[d].epoch
    OBVIOUS
  <2>1. calls'[d] = [calls[d] EXCEPT !.cancelled = @ \/ slot["account"] = d]
    BY DEF CancelSteamGuardEnrollment
  <2>2. calls[d] \in Call
    BY DEF TypeOK
  <2> QED
    BY <2>1, <2>2 DEF Call
<1> HIDE DEF k
<1>4. UNCHANGED <<record, locked, epoch, world, acked>>
  BY DEF CancelSteamGuardEnrollment
<1>5. TypeOK'
  <2>1. calls' \in [Callers -> Call]
    BY <1>1, <1>2, <1>3 DEF CancelSteamGuardEnrollment
  <2>2. slot' \in [Keys -> Callers \cup {None}]
    BY DEF CancelSteamGuardEnrollment, TypeOK, Keys
  <2> QED
    BY <1>4, <2>1, <2>2 DEF TypeOK, world
<1>6. RecordsEarned'
  BY <1>1, <1>2, <1>3, <1>4 DEF RecordsEarned, Earned, world, NoRecord
<1>7. CallsFit'
  BY <1>1, <1>2, <1>3, <1>4 DEF CallsFit, CallFits, world, TypeOK
<1>8. AddedIsNew' /\ OneInside'
  BY <1>1, <1>2, <1>3, <1>4 DEF AddedIsNew, Added, OneInside, Inside, NoRecord
<1>9. NotAhead'
  <2>1. \A g : NoRecord # MaFile(g)
    BY DEF NoRecord, MaFile
  <2>2. \A g : Nowhere(g) => Nowhere(g)'
    BY <1>1, <1>2, <1>3, <1>4, <2>1 DEF Nowhere
  <2> QED
    BY <1>1, <1>2, <1>3, <1>4, <2>2 DEF NotAhead
<1> QED
  BY <1>5, <1>6, <1>7, <1>8, <1>9

LEMMA LockStep ==
  ASSUME RecordInv, LockNow \/ LeaseEnds \/ Unlock \/ OtherDevice
  PROVE  RecordInv'
<1> USE DEF RecordInv, At
<1>1. CASE LeaseEnds \/ Unlock
  <2>1. UNCHANGED <<record, epoch, calls, slot, steam, used, proved, acked>> /\ locked' \in BOOLEAN
    BY <1>1 DEF LeaseEnds, Unlock, world
  <2>2. TypeOK'
    BY <2>1 DEF TypeOK
  <2> QED
    BY <2>1, <2>2 DEF RecordsEarned, Earned, CallsFit, CallFits, AddedIsNew, Added, OneInside, NotAhead, Nowhere
<1>2. CASE OtherDevice
  <2>1. UNCHANGED <<record, locked, epoch, calls, slot, used, acked>> /\ proved' = proved
    BY <1>2 DEF OtherDevice, Activate
  <2>2. steam' \in [active : Gids \cup {None}, half : OwnGids \cup {None}] /\ steam'.active \notin OwnGids /\ steam'.half = None
    BY <1>2 DEF OtherDevice, Activate, Gids
  <2> QED
    BY <2>1, <2>2 DEF TypeOK, RecordsEarned, Earned, CallsFit, CallFits, AddedIsNew, Added, OneInside, NotAhead, Nowhere
<1>3. CASE LockNow
  <2>1. \A d \in Callers : /\ calls'[d] \in Call /\ calls'[d].pc = calls[d].pc /\ calls'[d].read = calls[d].read
                           /\ calls'[d].gid = calls[d].gid /\ calls'[d].epoch = calls[d].epoch
    <3> SUFFICES ASSUME NEW d \in Callers
                 PROVE  /\ calls'[d] \in Call /\ calls'[d].pc = calls[d].pc /\ calls'[d].read = calls[d].read
                        /\ calls'[d].gid = calls[d].gid /\ calls'[d].epoch = calls[d].epoch
      OBVIOUS
    <3>1. calls'[d] = [calls[d] EXCEPT !.cancelled = @ \/ \E key \in Keys : slot[key] = d]
      BY <1>3 DEF LockNow
    <3>2. calls[d] \in Call
      BY DEF TypeOK
    <3> QED
      BY <3>1, <3>2 DEF Call
  <2>2. UNCHANGED <<record, world, acked>> /\ epoch' = epoch + 1 /\ epoch' \in 0 .. MaxLocks /\ epoch \in Nat
    BY <1>3 DEF LockNow, TypeOK
  <2>3. TypeOK'
    <3>1. calls' \in [Callers -> Call] /\ slot' \in [Keys -> Callers \cup {None}] /\ locked' = TRUE
      BY <1>3, <2>1 DEF LockNow
    <3> QED
      BY <2>2, <3>1 DEF TypeOK, world
  <2>4. RecordsEarned' /\ AddedIsNew' /\ OneInside'
    BY <2>1, <2>2 DEF RecordsEarned, Earned, AddedIsNew, Added, OneInside, world
  <2>5. CallsFit'
    BY <2>1, <2>2 DEF CallsFit, CallFits, world, TypeOK, Call
  <2>6. NotAhead'
    BY <2>2 DEF NotAhead
  <2> QED
    BY <2>3, <2>4, <2>5, <2>6
<1> QED
  BY <1>1, <1>2, <1>3

LEMMA CrashStep ==
  ASSUME RecordInv, Crash
  PROVE  RecordInv'
<1> USE DEF RecordInv, At
<1>1. \A d \in Callers : calls'[d] = NoCall
  BY DEF Crash
<1>2. UNCHANGED <<record, world, acked>> /\ epoch' = 0
  BY DEF Crash
<1>3. TypeOK'
  <2>1. calls' \in [Callers -> Call] /\ slot' \in [Keys -> Callers \cup {None}] /\ locked' = TRUE
    BY NoCallIsOne DEF Crash
  <2> QED
    BY <1>2, <2>1 DEF TypeOK, world
<1>4. NoCall.pc = "idle" /\ NoCall.gid = None /\ NoCall.read = NoRecord /\ NoCall.epoch = 0
  BY DEF NoCall
<1>5. RecordsEarned'
  BY <1>1, <1>2, <1>4 DEF RecordsEarned, Earned, world, NoRecord
<1>6. CallsFit' /\ AddedIsNew' /\ OneInside'
  BY <1>1, <1>2, <1>4 DEF CallsFit, CallFits, AddedIsNew, Added, OneInside, Inside
<1>7. NotAhead'
  <2>1. record.kind = "pending" => \A g : record # MaFile(g)
    BY DEF MaFile
  <2>2. \A g : NoRecord # MaFile(g)
    BY DEF NoRecord, MaFile
  <2> QED
    BY <1>1, <1>2, <1>4, <2>1, <2>2 DEF NotAhead, Nowhere
<1> QED
  BY <1>3, <1>5, <1>6, <1>7

LEMMA RecordStep == RecordInv /\ [Next]_vars => RecordInv'
<1> SUFFICES ASSUME RecordInv, [Next]_vars
             PROVE  RecordInv'
  OBVIOUS
<1>1. ASSUME NEW c \in Callers, Begin(c)
      PROVE  RecordInv'
  <2>1. CASE CancelSteamGuardEnrollment(c)
    BY <2>1, CancelStep
  <2>2. CASE ~CancelSteamGuardEnrollment(c)
    <3>1. TypeOK
      BY DEF RecordInv
    <3>2. PICK k : Fresh(k) /\ calls' = [calls EXCEPT ![c] = k]
      BY <1>1, <2>2, <3>1, BeginSays
    <3>3. slot' \in [Keys -> Callers \cup {None}] /\ UNCHANGED <<record, locked, epoch, world, acked>>
      BY <1>1, <2>2, <3>1, BeginSays
    <3>4. k \in Call /\ CallFits(c)' /\ k.gid = None /\ k.pc \notin Inside /\ k.pc # "add" /\ k.read \in {NoRecord, record}
      <4>1. calls'[c] = k
        BY <3>2 DEF RecordInv, TypeOK
      <4>2. epoch \in Nat
        BY DEF RecordInv, TypeOK
      <4> QED
        BY <3>2, <3>3, <4>1, <4>2 DEF Fresh, CallFits, Inside
    <3>5. record' \in Record /\ Earned(record)' /\ acked \subseteq acked' /\ acked' \subseteq used
      BY <3>3 DEF RecordInv, TypeOK, RecordsEarned, Earned, world
    <3> QED
      BY <3>2, <3>3, <3>4, <3>5, CallSteps DEF Inside
  <2> QED
    BY <2>1, <2>2
<1>2. ASSUME NEW c \in Callers, Proceed(c)
      PROVE  RecordInv'
  BY <1>2, RenewalStep, CheckedStep, RebindStep, ManagerStep DEF Proceed
<1>3. ASSUME NEW c \in Callers, Enter(c) \/ SteamAdds(c) \/ SteamFinalizes(c)
      PROVE  RecordInv'
  BY <1>3, EnterStep, SteamStep
<1>4. CASE LockNow \/ LeaseEnds \/ Unlock \/ Crash \/ OtherDevice
  BY <1>4, LockStep, CrashStep
<1>5. CASE UNCHANGED vars
  BY <1>5 DEF vars, RecordInv, TypeOK, RecordsEarned, Earned, CallsFit, CallFits, AddedIsNew, Added, At, OneInside, NotAhead, Nowhere
<1> QED
  BY <1>1, <1>2, <1>3, <1>4, <1>5 DEF Next

(* What each call of the enrollment flow and the vault knows of an           *)
(* authenticator is earned, new to it when Steam has just added it, and not  *)
(* ahead of the record while there is one manager (enrollmentflow).          *)
THEOREM RecordInvariant == Spec => []RecordInv
  BY RecordInitial, RecordStep, PTL DEF Spec

(* Every variable keeps its type: in particular whatever the vault holds, or *)
(* a call writes back, is a record of one of the four kinds.                 *)
THEOREM RecordTypeCorrect == Spec => []TypeOK
<1>1. RecordInv => TypeOK
  BY DEF RecordInv
<1> QED
  BY <1>1, RecordInvariant, PTL

(* What the vault calls an authenticator of ours is one that Steam did put   *)
(* in force, for a user who has proved to hold its revocation code           *)
(* (commitIfSteamAlreadyActivated, AcknowledgeRevocationCode).               *)
THEOREM AuthenticatorsAreEarned == Spec => []ActiveIsEarned
<1>1. RecordInv => ActiveIsEarned
  <2> SUFFICES ASSUME RecordInv, record.kind = "mafile", record.gid \in OwnGids
               PROVE  record.gid \in proved \cap acked
    BY DEF ActiveIsEarned
  <2>1. record.ack
    BY RecordsByPart DEF RecordInv, TypeOK, AsRecord
  <2> QED
    BY <2>1 DEF RecordInv, RecordsEarned, Earned
<1> QED
  BY <1>1, RecordInvariant, PTL

-----------------------------------------------------------------------------
(* What a write does to an enrollment.                                       *)

KeptBy(g) ==
    \/ record'.gid # g /\ \E c \in Callers : calls'[c] # calls[c] /\ ~KnewOf(c, g)
    \/ record'.gid = g /\ (epoch = 0 => Progress(record') >= Progress(record))

LEMMA UnwrittenKept ==
  ASSUME NEW g, record.gid = g, UNCHANGED record
  PROVE  KeptBy(g)
  BY DEF KeptBy, Progress

(* A call that writes ends, or goes on without what it had read.             *)
LEMMA WriteKeeps ==
  ASSUME NEW c \in Callers, NEW g, calls'[c] # calls[c],
         record'.gid # g => ~KnewOf(c, g),
         record'.gid = g /\ epoch = 0 => Progress(record') >= Progress(record)
  PROVE  KeptBy(g)
  BY DEF KeptBy

LEMMA EndsChange ==
  ASSUME TypeOK, NEW c \in Callers, Ended(c), ~Idle(c)
  PROVE  calls'[c] # calls[c]
  BY DEF TypeOK, Ended, Idle, NoCall

(* While there is one manager, nobody has made an authenticator of what it   *)
(* is at work on.                                                            *)
LEMMA StillPending ==
  ASSUME RecordInv, NEW c \in Callers, calls[c].pc \in {"final", "query", "work"}, epoch = 0,
         record.gid = calls[c].read.gid, record.gid \in OwnGids
  PROVE  record.kind = "pending"
<1>1. AsRecord(record) /\ record # MaFile(record.gid)
  BY RecordsByPart DEF RecordInv, TypeOK, NotAhead, Nowhere
<1>2. record.kind # "mafile"
  BY <1>1 DEF AsRecord, MaFile
<1> QED
  BY <1>1, <1>2 DEF AsRecord

LEMMA ManagerKeeps ==
  ASSUME RecordInv, NEW c \in Callers, NEW g \in OwnGids, record.gid = g,
         \/ StartStores(c) \/ AcknowledgeStores(c) \/ FinalizeCompletes(c) \/ FinalizeWantsMore(c)
         \/ CommitIfActivated(c)
  PROVE  KeptBy(g)
<1> USE DEF RecordInv, At
<1> DEFINE r == calls[c].read
<1>1. AsRecord(r) /\ CallFits(c) /\ calls'[c] # calls[c]
  <2>1. Ended(c) /\ ~Idle(c)
    BY DEF StartStores, AcknowledgeStores, FinalizeCompletes, FinalizeWantsMore, CommitIfActivated, Idle
  <2> QED
    BY <2>1, EndsChange, RecordsByPart DEF TypeOK, Call, CallsFit
<1>2. CASE StartStores(c)
  <2>1. record'.gid # g
    BY <1>2 DEF StartStores, Pending, AddedIsNew
  <2>2. ~KnewOf(c, g)
    BY <1>1, <1>2 DEF StartStores, CallFits, AsRecord, KnewOf
  <2> QED
    BY <1>1, <2>1, <2>2, WriteKeeps
<1>3. ASSUME calls[c].pc \in {"final", "query", "work"}, record'.gid = r.gid,
             record'.kind = "mafile" \/ record'.ack
      PROVE  KeptBy(g)
  <2>1. record'.gid # g => ~KnewOf(c, g)
    BY <1>3 DEF KnewOf
  <2>2. ASSUME record'.gid = g, epoch = 0
        PROVE  Progress(record') >= Progress(record)
    <3>1. record.kind = "pending"
      BY <1>3, <2>2, StillPending
    <3> QED
      BY <1>3, <3>1 DEF Progress
  <2> HIDE DEF r
  <2> QED
    BY <1>1, <2>1, <2>2, WriteKeeps
<1>4. CASE AcknowledgeStores(c)
  <2>1. record' = [r EXCEPT !.ack = TRUE]
    BY <1>4 DEF AcknowledgeStores
  <2>2. record'.gid = r.gid /\ record'.ack
    BY <1>1, <2>1 DEF AsRecord
  <2> QED
    BY <1>3, <1>4, <2>2 DEF AcknowledgeStores
<1>5. CASE FinalizeCompletes(c) \/ CommitIfActivated(c)
  BY <1>3, <1>5 DEF FinalizeCompletes, CommitIfActivated, MaFile
<1>6. CASE FinalizeWantsMore(c)
  BY <1>1, <1>3, <1>6 DEF FinalizeWantsMore, CallFits
<1> QED
  BY <1>2, <1>4, <1>5, <1>6

LEMMA SessionsKeep ==
  ASSUME RecordInv, NEW c \in Callers, NEW g \in OwnGids, record.gid = g, RenewalWrites(c) \/ CheckedWrites(c)
  PROVE  KeptBy(g)
<1> USE DEF RecordInv, At
<1> DEFINE r == calls[c].read
<1>1. AsRecord(r) /\ CallFits(c)
  BY RecordsByPart DEF TypeOK, Call, CallsFit
<1>2. calls'[c] # calls[c]
  <2>1. CASE Ended(c)
    BY <2>1, EndsChange DEF RenewalWrites, CheckedWrites, Idle
  <2>2. CASE calls' = [calls EXCEPT ![c].pc = "rebind", ![c].read = NoRecord] /\ At(c, "remote")
    BY <2>2 DEF TypeOK, Call
  <2> QED
    BY <2>1, <2>2 DEF RenewalWrites, CheckedWrites
<1>3. CASE record' = r /\ HasSession(r)
  <2>1. r.gid = g => r.kind = "mafile"
    BY <1>1, <1>3 DEF AsRecord, HasSession
  <2>2. r.gid = g => Progress(r) >= Progress(record)
    BY <2>1 DEF Progress
  <2> QED
    BY <1>2, <1>3, <2>2, WriteKeeps DEF KnewOf
<1>4. CASE record'.gid # g /\ (calls[c].op = "import" \/ r.kind \in {"none", "login"})
  BY <1>1, <1>2, <1>4, WriteKeeps DEF KnewOf, AsRecord
<1>5. CASE UNCHANGED record
  BY <1>5, UnwrittenKept
<1>6. LoginOnly.gid = None /\ NoRecord.gid = None /\ MaFile(FileGid).gid = FileGid
  BY DEF LoginOnly, NoRecord, MaFile
<1>7. CASE RenewalWrites(c)
  BY <1>1, <1>3, <1>7 DEF RenewalWrites, CallFits
<1>8. CASE CheckedWrites(c)
  BY <1>3, <1>4, <1>5, <1>6, <1>8 DEF CheckedWrites, PutLoginOnlyAllowed
<1> QED
  BY <1>7, <1>8

(* Secrets of an authenticator of ours leave the vault only by an import or  *)
(* by the write of a call that had not seen them, and with one manager an    *)
(* enrollment never goes back a step (the account lock of                    *)
(* enrollmentflow.Manager, ErrAlreadyEnrolled, ErrNotAuthenticator).         *)
THEOREM EnrollmentsAreKept == Spec => EnrollmentKept
<1>1. RecordInv /\ [Next]_vars =>
        [\A g \in OwnGids : record.gid = g => KeptBy(g)]_vars
  <2> SUFFICES ASSUME RecordInv, Next, NEW g \in OwnGids, record.gid = g
               PROVE  KeptBy(g)
    OBVIOUS
  <2>1. ASSUME NEW c \in Callers, Begin(c)
        PROVE  KeptBy(g)
    <3>1. UNCHANGED record
      BY <2>1, BeginSays DEF RecordInv, CancelSteamGuardEnrollment
    <3> QED
      BY <3>1, UnwrittenKept
  <2>2. ASSUME NEW c \in Callers, Proceed(c)
        PROVE  KeptBy(g)
    <3>1. CASE RenewalFails(c) \/ CheckedRefuses(c) \/ RebindPromotion(c) \/ FinalizeRefused(c) \/ ManagerFails(c)
      BY <3>1, UnwrittenKept DEF RenewalFails, CheckedRefuses, RebindPromotion, FinalizeRefused, ManagerFails
    <3> QED
      BY <2>2, <3>1, SessionsKeep, ManagerKeeps DEF Proceed
  <2>3. ASSUME NEW c \in Callers, Enter(c) \/ SteamAdds(c) \/ SteamFinalizes(c)
        PROVE  KeptBy(g)
    BY <2>3, UnwrittenKept DEF Enter, SteamAdds, SteamFinalizes
  <2>4. CASE LockNow \/ LeaseEnds \/ Unlock \/ Crash \/ OtherDevice
    BY <2>4, UnwrittenKept DEF LockNow, LeaseEnds, Unlock, Crash, OtherDevice
  <2> QED
    BY <2>1, <2>2, <2>3, <2>4 DEF Next
<1>2. [][\A g \in OwnGids : record.gid = g => KeptBy(g)]_vars => EnrollmentKept
  BY PTL DEF EnrollmentKept, KeptBy
<1> QED
  BY <1>1, <1>2, RecordInvariant, PTL DEF Spec
=============================================================================
