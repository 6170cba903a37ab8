------------------------- MODULE SavedAccounts_proofs -------------------------
(* Theorems about SavedAccounts, for every set of accounts, sessions, keys   *)
(* and passwords and every number of failures: types; that a listed account  *)
(* keeps a copy of its session through two failures; and that it gives the   *)
(* session back, and nothing is lost, through one.                           *)
EXTENDS SavedAccounts, SequenceTheorems, TLAPS

USE MarkersAreNoData, OverlapKinds, MishapBound, NoneIsNoFile

(* Where a security operation of each kind can be, and what it has by then.  *)
Sealing == {"enable", "reenable"}
Opening == {"disable", "remove"}
Lowered == {"blobs", "raise", "clean", "unset"}
Raised == {"sweep", "extract", "quarantine", "lower", "unraise", "undo"}
OpFits ==
    /\ op.pc = "idle" => op = NoOp
    /\ op.pc # "idle" => /\ file # None /\ op.kind # "none"
                         /\ op.password \in Passwords /\ op.key \in {file.key, Wiped}
    /\ op.kind \in Sealing => op.pc \in {"scan", "blobs", "raise", "sweep"}
    /\ op.kind \in Opening => op.pc \in {"scan", "clean", "unset"} \cup (Raised \ {"sweep"})
    /\ op.kind = "change" => op.pc \in {"rewrap", "store"} /\ op.new \in Passwords
    /\ op.key = Wiped \/ op.shared => op.kind \in Sealing
    /\ op.pc \in Lowered => ~file.encrypted
    /\ op.pc \in Raised => file.encrypted
    /\ op.pc = "scan" => op.done = {} /\ op.failed = {}
    /\ op.done \subseteq op.accounts /\ op.failed \subseteq op.accounts
    /\ op.pc = "extract" => op.failed \subseteq op.done
    /\ op.pc = "quarantine" => op.done \subseteq op.failed
SaveFits ==
    /\ save.pc = "idle" => save = NoSave
    /\ save.pc # "idle" => save.account \in Accounts
    /\ save.pc \notin {"idle", "purge"} => save.value \in Values
(* Memory has the key that security.json wraps; a report lists what it has.  *)
KeyFits == master # None => file # None /\ master = file.key
ReportsFit ==
    /\ \A i \in DOMAIN quarantine : \A a \in Accounts :
          quarantine[i].blobs[a] # None => a \in quarantine[i].accounts
    /\ op.pc = "quarantine" => quarantine # <<>> /\ quarantine[Newest].accounts = op.failed
TypeInv == TypeOK /\ OpFits /\ SaveFits /\ KeyFits /\ ReportsFit

-----------------------------------------------------------------------------
(* What keeps a copy, as long as no save runs beside a security operation.   *)
Alone == OpIdle \/ SaveIdle

Owed(a) == a \in listed \ imported /\ saved[a] # None
InBlob(a) == blob[a] # None /\ blob[a].value = saved[a]
Moved(r, a) == r.blobs[a] # None /\ r.blobs[a].value = saved[a]
Beside(a) == saved[a] \in aside[a] \/ \E i \in DOMAIN quarantine : Moved(quarantine[i], a)

(* The side that the flag names has the session, or it was put out of the    *)
(* way.  A blob under a wiped key keeps the flag up, by the outer layer.     *)
Kept(a) ==
    \/ Beside(a)
    \/ ~Encrypted /\ plain[a] = saved[a]
    \/ Encrypted /\ InBlob(a) /\ (blob[a].key = file.key \/ outer = Wiped)
Standing == \A a \in Accounts : Owed(a) => Kept(a)

(* What was sealed so far is as the directory it was read from.              *)
SealingFits == op.pc \in {"blobs", "raise"} =>
    /\ op.accounts = {a \in listed : plain[a] # None}
    /\ op.pc = "raise" => op.done = op.accounts
    /\ \A a \in op.done : /\ blob[a] # None /\ blob[a].value = plain[a]
                          /\ \/ blob[a].key = file.key
                             \/ IF op.pc = "blobs" THEN op.key = Wiped ELSE outer = Wiped
(* What was opened so far is as its blob; a blob that could have been opened *)
(* and is not in quarantine has cost a failure for every step it missed.     *)
Opened == IF op.pc = "extract" THEN op.done \ op.failed ELSE op.accounts \ op.failed
Cost(a) == IF op.pc = "extract" THEN 1
           ELSE IF op.pc = "quarantine" THEN (IF a \in op.done THEN 2 ELSE 1) ELSE 3
OpeningFits == op.pc \in {"extract", "quarantine", "lower", "unraise"} =>
    /\ \A a \in listed : blob[a] # None => a \in op.accounts
    /\ op.pc \in {"extract", "quarantine"} => op.accounts \subseteq listed
    /\ op.pc = "extract" => \A a \in op.accounts : blob[a] # None
    /\ op.pc = "quarantine" => \A a \in op.failed \ op.done : quarantine[Newest].blobs[a] = None
    /\ \A a \in Opened : blob[a] # None /\ plain[a] = blob[a].value
    /\ \A a \in op.failed \cap listed : Decrypts(a, file.key) => mishaps >= Cost(a)
    /\ op.pc = "unraise" => outer # Wiped
(* A save works under the flag that it saw.                                  *)
SavingFits ==
    /\ save.pc \notin {"idle", "purge"} => save.encrypted = Encrypted
    /\ save.pc = "install" => ~Encrypted /\ plain[save.account] = None
    /\ save.pc = "dropplain" => Encrypted
    /\ save.pc = "purge" => save.account \notin listed /\ saved[save.account] = None
    /\ save.pc \in {"dropplain", "enlist"} =>
          /\ Encrypted => blob[save.account] = [value |-> save.value, key |-> file.key]
          /\ ~Encrypted => plain[save.account] = save.value
          /\ save.account \in listed => saved[save.account] = save.value

KeepInv ==
    /\ TypeInv /\ Alone /\ SealingFits /\ OpeningFits /\ SavingFits
    /\ mishaps <= 2 => Standing

-----------------------------------------------------------------------------
(* What gives the session back after one failure, as long as nothing runs    *)
(* beside a security operation.                                              *)
Due(a) == a \notin imported /\ saved[a] # None
UnderKey(a) == InBlob(a) /\ blob[a].key = file.key
Straight(a) == IF Encrypted THEN UnderKey(a) ELSE plain[a] = saved[a]
(* An interrupted save has left the session aside, and nothing in its place. *)
Replacing(a) == save.pc = "install" /\ save.account = a
AsideOnly(a) ==
    /\ plain[a] = None /\ saved[a] \in aside[a]
    /\ IF Replacing(a) THEN save.backup = saved[a] ELSE blob[a] = None
(* A session that did not extract is still in its blob, or in the report     *)
(* that is being written; that was the failure.                              *)
Failing(a) ==
    /\ op.pc \in {"extract", "quarantine"} /\ mishaps >= 1
    /\ IF op.pc = "quarantine" /\ a \in op.done
       THEN Moved(quarantine[Newest], a) /\ quarantine[Newest].blobs[a].key = file.key
       ELSE UnderKey(a)
InReport(a) == \E i \in DOMAIN quarantine :
    Moved(quarantine[i], a) /\ quarantine[i].blobs[a].key = quarantine[i].opens
Placed(a) ==
    \/ a \in listed \ op.failed /\ (Straight(a) \/ AsideOnly(a))
    \/ a \in listed \cap op.failed /\ Failing(a)
    \/ a \notin listed /\ InReport(a)
InPlace == \A a \in Accounts : Due(a) => Placed(a)

(* While nothing has failed no blob is left where the flag is down, and the  *)
(* ones there are open.                                                      *)
InUse(a) ==
    IF Encrypted
    THEN /\ blob[a].key = file.key
         /\ a \in listed \/ (a = save.account /\ save.pc \in {"dropplain", "enlist", "purge"})
    ELSE \/ op.pc \in {"blobs", "raise"} /\ a \in op.done
         \/ op.pc = "clean" /\ a \in op.accounts \ op.done
Spotless ==
    /\ op.failed = {}
    /\ ~Encrypted /\ op.pc # "raise" => outer = None
    /\ \A a \in Accounts : blob[a] # None => InUse(a)
NotWiped == op.key # Wiped /\ outer # Wiped /\ (op.pc = "unraise" => outer = None)
OneInv == KeepInv /\ NotWiped /\ (mishaps <= 1 => InPlace) /\ (mishaps = 0 => Spotless)

-----------------------------------------------------------------------------
(* Types.                                                                    *)

LEMMA NothingTyped ==
    /\ NoOp \in Op /\ NoSave \in SaveOp
    /\ Nothing \in [Accounts -> Blob \cup {None}]
    /\ NoOp.pc = "idle" /\ NoSave.pc = "idle"
  BY DEF NoOp, NoSave, Nothing, Op, SaveOp, OpKinds, OpStages, SaveStages

LEMMA TypesInitially == Init => TypeInv
<1> SUFFICES ASSUME Init
             PROVE  TypeInv
  OBVIOUS
<1> USE DEF Init
<1>1. TypeOK
  BY NothingTyped DEF TypeOK, Nothing
<1>2. OpFits /\ SaveFits /\ KeyFits /\ ReportsFit
  BY DEF OpFits, SaveFits, KeyFits, ReportsFit, NoOp, NoSave, Sealing, Opening, Lowered, Raised
<1> QED
  BY <1>1, <1>2 DEF TypeInv

(* An element of a sequence is replaced, added or removed.                   *)
LEMMA ReportReplaced ==
  ASSUME quarantine \in Seq(Report), quarantine # <<>>, NEW r \in Report
  PROVE  [quarantine EXCEPT ![Newest] = r] \in Seq(Report)
  BY DEF Newest

LEMMA OthersRemain ==
  ASSUME quarantine \in Seq(Report), NEW i \in DOMAIN quarantine
  PROVE  /\ RemoveAt(quarantine, i) \in Seq(Report)
         /\ \A k \in DOMAIN RemoveAt(quarantine, i) :
               \E j \in DOMAIN quarantine \ {i} : RemoveAt(quarantine, i)[k] = quarantine[j]
         /\ \A j \in DOMAIN quarantine \ {i} :
               \E k \in DOMAIN RemoveAt(quarantine, i) : RemoveAt(quarantine, i)[k] = quarantine[j]
<1> DEFINE older == SubSeq(quarantine, 1, i - 1)
           newer == SubSeq(quarantine, i + 1, Len(quarantine))
<1>1. Len(quarantine) \in Nat /\ i \in 1 .. Len(quarantine) /\ DOMAIN quarantine = 1 .. Len(quarantine)
  OBVIOUS
<1>2. /\ older \in Seq(Report) /\ Len(older) = i - 1
      /\ \A k \in 1 .. i - 1 : older[k] = quarantine[k]
  <2>1. \A k \in 1 .. i - 1 : k \in 1 .. Len(quarantine)
    BY <1>1
  <2> QED
    BY <1>1, <2>1, SubSeqProperties
<1>3. /\ newer \in Seq(Report) /\ Len(newer) = Len(quarantine) - i
      /\ \A k \in 1 .. Len(quarantine) - i : newer[k] = quarantine[i + k]
  <2>1. \A k \in i + 1 .. Len(quarantine) : k \in 1 .. Len(quarantine)
    BY <1>1
  <2>2. newer \in Seq(Report) /\ Len(newer) = Len(quarantine) - i
    BY <1>1, <2>1, SubSeqProperties
  <2> QED
    BY <1>1, <2>1, <2>2, SubSeqProperties
<1>4. RemoveAt(quarantine, i) = older \o newer
  BY DEF RemoveAt
<1> HIDE DEF older, newer
<1>5. /\ older \o newer \in Seq(Report) /\ Len(older \o newer) = Len(quarantine) - 1
      /\ \A k \in 1 .. Len(quarantine) - 1 :
            (older \o newer)[k] = IF k <= i - 1 THEN older[k] ELSE newer[k - (i - 1)]
  <2>1. Len(older) + Len(newer) = Len(quarantine) - 1
    BY <1>1, <1>2, <1>3
  <2>2. /\ older \o newer \in Seq(Report)
        /\ Len(older \o newer) = Len(older) + Len(newer)
        /\ \A k \in 1 .. Len(older) + Len(newer) :
              (older \o newer)[k] = IF k <= Len(older) THEN older[k] ELSE newer[k - Len(older)]
    <3>1. older \in Seq(Report) /\ newer \in Seq(Report)
      BY <1>2, <1>3
    <3> QED
      BY ONLY <3>1, ConcatProperties
  <2> QED
    BY <1>2, <2>1, <2>2
<1>6. \A k \in 1 .. Len(quarantine) - 1 :
         (older \o newer)[k] = IF k < i THEN quarantine[k] ELSE quarantine[k + 1]
  <2> SUFFICES ASSUME NEW k \in 1 .. Len(quarantine) - 1
               PROVE  (older \o newer)[k] = IF k < i THEN quarantine[k] ELSE quarantine[k + 1]
    OBVIOUS
  <2>1. CASE k < i
    BY <1>1, <1>2, <1>5, <2>1
  <2>2. CASE ~(k < i)
    <3>1. k - (i - 1) \in 1 .. Len(quarantine) - i /\ i + (k - (i - 1)) = k + 1 /\ ~(k <= i - 1)
      BY <1>1, <2>2
    <3> QED
      BY <1>3, <1>5, <2>2, <3>1
  <2> QED
    BY <2>1, <2>2
<1>7. DOMAIN (older \o newer) = 1 .. Len(quarantine) - 1
  BY <1>5
<1>8. ASSUME NEW k \in 1 .. Len(quarantine) - 1
      PROVE  \E j \in DOMAIN quarantine \ {i} : (older \o newer)[k] = quarantine[j]
  <2>1. CASE k < i
    <3>1. k \in DOMAIN quarantine \ {i}
      BY <1>1, <2>1
    <3>2. (older \o newer)[k] = quarantine[k]
      BY <1>6, <2>1
    <3> QED
      BY <3>1, <3>2
  <2>2. CASE ~(k < i)
    <3>1. k + 1 \in DOMAIN quarantine \ {i}
      BY <1>1, <2>2
    <3>2. (older \o newer)[k] = quarantine[k + 1]
      BY <1>6, <2>2
    <3> QED
      BY <3>1, <3>2
  <2> QED
    BY <2>1, <2>2
<1>9. ASSUME NEW j \in DOMAIN quarantine \ {i}
      PROVE  \E k \in 1 .. Len(quarantine) - 1 : (older \o newer)[k] = quarantine[j]
  <2>1. CASE j < i
    <3>1. j \in 1 .. Len(quarantine) - 1
      BY <1>1, <2>1
    <3>2. (older \o newer)[j] = quarantine[j]
      BY <1>6, <2>1, <3>1
    <3> QED
      BY <3>1, <3>2
  <2>2. CASE ~(j < i)
    <3>1. j - 1 \in 1 .. Len(quarantine) - 1 /\ ~(j - 1 < i) /\ (j - 1) + 1 = j
      BY <1>1, <2>2
    <3>2. (older \o newer)[j - 1] = quarantine[j]
      BY <1>6, <3>1
    <3> QED
      BY <3>1, <3>2
  <2> QED
    BY <2>1, <2>2
<1> QED
  BY <1>4, <1>5, <1>7, <1>8, <1>9

(* What each stage of a security operation belongs to.                       *)
LEMMA KindAt ==
  ASSUME TypeInv
  PROVE  /\ op.pc \in {"rewrap", "store"} => op.kind = "change" /\ op.new \in Passwords
         /\ op.pc \in {"blobs", "raise", "sweep"} => op.kind \in Sealing
         /\ op.pc \in {"extract", "quarantine", "lower", "unraise", "undo", "clean", "unset"} =>
               op.kind \in Opening /\ op.key = file.key /\ ~op.shared
         /\ op.pc # "idle" => /\ file \in SecurityFile /\ file.key \in Keys
                              /\ op.key \in {file.key, Wiped} /\ op.password \in Passwords
<1>1. op \in Op /\ op.kind \in OpKinds
  BY DEF TypeInv, TypeOK, Op
<1>2. file # None => file \in SecurityFile /\ file.key \in Keys
  BY DEF TypeInv, TypeOK, SecurityFile
<1> QED
  BY <1>1, <1>2 DEF TypeInv, OpFits, OpKinds, Sealing, Opening, Raised

LEMMA TypesKept ==
  ASSUME TypeInv, Next
  PROVE  TypeOK'
<1> USE DEF TypeInv, TypeOK, disk, steam, history, Smooth, Mishap, TwoMishaps
<1>0. NoOp \in Op /\ NoSave \in SaveOp
  BY NothingTyped
<1>1. ASSUME NEW pw \in Passwords, SetAppPassword(pw)
      PROVE  TypeOK'
  BY <1>1 DEF SetAppPassword, SettingsPage, ReplaceMasterKey, SecurityFile
<1>2. ASSUME UnlockApp
      PROVE  TypeOK'
  BY <1>2 DEF UnlockApp, ReplaceMasterKey, WipedBuffer, EnableOuter, SecurityFile, Op
<1>3. ASSUME Lock
      PROVE  TypeOK'
  BY <1>3 DEF Lock, ReplaceMasterKey, WipedBuffer, Op
<1>4. ASSUME NEW pw \in Passwords, ChangePassword(pw)
      PROVE  TypeOK'
  BY <1>0, <1>4 DEF ChangePassword, Op, NoOp, SecurityFile, OpKinds, OpStages
<1>5. ASSUME Rewrap
      PROVE  TypeOK'
  BY <1>0, <1>5 DEF Rewrap, Op, OpStages
<1>6. ASSUME StorePassword
      PROVE  TypeOK'
  <2>1. file' \in SecurityFile
    BY <1>6, KindAt DEF StorePassword, SecurityFile
  <2>2. master' \in Keys \cup {None, Wiped}
    BY <1>6 DEF StorePassword, ReplaceMasterKey, Op
  <2> QED
    BY <1>0, <1>6, <2>1, <2>2 DEF StorePassword
<1>7. ASSUME StorePasswordFails
      PROVE  TypeOK'
  <2>1. mishaps' \in 0 .. MaxMishaps
    BY <1>7 DEF StorePasswordFails
  <2>2. recovery' \in Passwords \cup {None}
    BY <1>7 DEF StorePasswordFails, Op
  <2> QED
    BY <1>0, <1>7, <2>1, <2>2 DEF StorePasswordFails
<1>8. ASSUME Enable
      PROVE  TypeOK'
  BY <1>0, <1>8 DEF Enable, ReplaceMasterKey, Op, NoOp, SecurityFile, OpKinds, OpStages
<1>9. ASSUME ScanPlain
      PROVE  TypeOK'
  BY <1>0, <1>9 DEF ScanPlain, Op, OpStages
<1>10. ASSUME NEW a \in Accounts, WriteBlob(a)
      PROVE  TypeOK'
  <2>1. op' \in Op
    BY <1>10 DEF WriteBlob, Op, OpStages
  <2>2. [value |-> plain[a], key |-> op.key] \in Blob
    BY <1>10 DEF WriteBlob, Blob, Op, OpFits, SecurityFile
  <2>3. blob' \in [Accounts -> Blob \cup {None}]
    BY <1>10, <2>1, <2>2 DEF WriteBlob
  <2> QED
    BY <1>10, <2>1, <2>2, <2>3 DEF WriteBlob
<1>11. ASSUME NEW a \in Accounts, WriteBlobFails(a)
      PROVE  TypeOK'
  BY <1>0, <1>11 DEF WriteBlobFails, UndoBlobs, Op
<1>12. ASSUME NEW a \in Accounts, SweepPlain(a)
      PROVE  TypeOK'
  <2>1. op' \in Op
    BY <1>12 DEF SweepPlain, Op, OpStages
  <2>2. plain' \in [Accounts -> Values \cup {None, Torn}]
    BY <1>12 DEF SweepPlain, RemovePlain
  <2>3. mishaps' \in 0 .. MaxMishaps
    BY <1>12 DEF SweepPlain, RemovePlain
  <2> QED
    BY <1>12, <2>1, <2>2, <2>3 DEF SweepPlain
<1>13. ASSUME RaiseOuter
      PROVE  TypeOK'
  BY <1>13 DEF RaiseOuter, EnableOuter, Op, OpStages
<1>14. ASSUME RaiseOuterFails
      PROVE  TypeOK'
  BY <1>0, <1>14 DEF RaiseOuterFails, UndoBlobs, Op
<1>15. ASSUME RaiseFlag
      PROVE  TypeOK'
  <2>1. file' \in SecurityFile
    BY <1>15 DEF RaiseFlag, SecurityFile, OpFits
  <2>2. op' \in Op
    BY <1>15 DEF RaiseFlag, Op, OpStages
  <2> QED
    BY <1>15, <2>1, <2>2 DEF RaiseFlag
<1>16. ASSUME RaiseFlagFails
      PROVE  TypeOK'
  BY <1>0, <1>16 DEF RaiseFlagFails, UndoBlobs, DisableOuter, Op
<1>17. ASSUME Swept
      PROVE  TypeOK'
  BY <1>0, <1>17 DEF Swept
<1>18. ASSUME Disable
      PROVE  TypeOK'
  BY <1>0, <1>18 DEF Disable, Op, NoOp, SecurityFile, OpKinds, OpStages
<1>19. ASSUME RemoveAppPassword
      PROVE  TypeOK'
  BY <1>0, <1>19 DEF RemoveAppPassword, ReplaceMasterKey, Op, NoOp, SecurityFile, OpKinds, OpStages
<1>20. ASSUME ScanBlobs
      PROVE  TypeOK'
  BY <1>0, <1>20 DEF ScanBlobs, Op, OpStages
<1>21. ASSUME NEW a \in Accounts, Extract(a)
      PROVE  TypeOK'
  BY <1>21 DEF Extract, Op, Blob, Decrypts
<1>22. ASSUME NEW a \in Accounts, ExtractFails(a)
      PROVE  TypeOK'
  <2>1. op' \in Op
    BY <1>22 DEF ExtractFails, Op, OpStages
  <2>2. plain' \in [Accounts -> Values \cup {None, Torn}]
    BY <1>22 DEF ExtractFails
  <2>3. mishaps' \in 0 .. MaxMishaps
    BY <1>22 DEF ExtractFails
  <2> QED
    BY <1>22, <2>1, <2>2, <2>3 DEF ExtractFails
<1>23. ASSUME Extracted
      PROVE  TypeOK'
  <2>1. op' \in Op
    BY <1>23 DEF Extracted, Op, OpStages
  <2>2. Nothing \in [Accounts -> Blob \cup {None}]
    BY <1>23 DEF Extracted, Nothing
  <2>3. op.failed \in SUBSET Accounts
    BY <1>23 DEF Extracted, Op
  <2>4. [accounts |-> op.failed, blobs |-> Nothing, opens |-> None] \in Report
    BY <1>23, <2>1, <2>2, <2>3 DEF Extracted, Report
  <2>5. quarantine' \in Seq(Report)
    BY <1>23, <2>1, <2>2, <2>3, <2>4 DEF Extracted
  <2> QED
    BY <1>23, <2>1, <2>2, <2>3, <2>4, <2>5 DEF Extracted
<1>24. ASSUME NEW a \in Accounts, Quarantine(a)
      PROVE  TypeOK'
  <2>1. op' \in Op
    BY <1>24 DEF Quarantine, Op, OpStages
  <2>2. mishaps' \in 0 .. MaxMishaps
    BY <1>24 DEF Quarantine
  <2>3. blob' \in [Accounts -> Blob \cup {None}]
    BY <1>24, <2>1, <2>2 DEF Quarantine
  <2>4. quarantine # <<>> /\ quarantine[Newest] \in Report
    BY <1>24 DEF Quarantine, ReportsFit, Newest
  <2>5. [quarantine[Newest] EXCEPT !.blobs = [@ EXCEPT ![a] = blob[a]]] \in Report
    BY <1>24, <2>1, <2>2, <2>3, <2>4 DEF Quarantine, Report
  <2>6. quarantine' \in Seq(Report)
    <3>1. [quarantine EXCEPT ![Newest].blobs[a] = blob[a]]
            = [quarantine EXCEPT ![Newest] = [quarantine[Newest] EXCEPT !.blobs = [@ EXCEPT ![a] = blob[a]]]]
      OBVIOUS
    <3>2. [quarantine EXCEPT ![Newest] = [quarantine[Newest] EXCEPT !.blobs = [@ EXCEPT ![a] = blob[a]]]]
            \in Seq(Report)
      BY <2>4, <2>5, ReportReplaced
    <3>3. quarantine' \in {quarantine, [quarantine EXCEPT ![Newest].blobs[a] = blob[a]]}
      BY <1>24 DEF Quarantine
    <3> QED
      BY <3>1, <3>2, <3>3
  <2> QED
    BY <1>24, <2>1, <2>2, <2>3, <2>4, <2>5, <2>6 DEF Quarantine
<1>25. ASSUME WriteReport
      PROVE  TypeOK'
  <2>1. op' \in Op
    BY <1>25 DEF WriteReport, Op, OpStages
  <2>2. mishaps' \in 0 .. MaxMishaps
    BY <1>25 DEF WriteReport
  <2>3. listed' \in SUBSET Accounts
    BY <1>25 DEF WriteReport, Op
  <2>4. op.key \in Keys \cup {None}
    BY <1>25 DEF WriteReport, OpFits, SecurityFile
  <2>5. quarantine # <<>> /\ quarantine[Newest] \in Report
    BY <1>25 DEF WriteReport, ReportsFit, Newest
  <2>6. [quarantine[Newest] EXCEPT !.opens = op.key] \in Report
    BY <1>25, <2>1, <2>2, <2>3, <2>4, <2>5 DEF WriteReport, Report
  <2>7. quarantine' \in Seq(Report)
    BY <1>25, <2>1, <2>2, <2>3, <2>4, <2>5, <2>6, ReportReplaced DEF WriteReport, Newest
  <2> QED
    BY <1>25, <2>1, <2>2, <2>3, <2>4, <2>5, <2>6, <2>7 DEF WriteReport
<1>26. ASSUME WriteReportFails
      PROVE  TypeOK'
  <2>1. op' \in Op
    BY <1>26 DEF WriteReportFails, Op, OpStages, Undo
  <2>2. mishaps' \in 0 .. MaxMishaps
    BY <1>26 DEF WriteReportFails
  <2> QED
    BY <1>26, <2>1, <2>2 DEF WriteReportFails
<1>27. ASSUME LowerOuter
      PROVE  TypeOK'
  BY <1>27 DEF LowerOuter, DisableOuter, Op, OpStages
<1>28. ASSUME LowerOuterFails
      PROVE  TypeOK'
  <2>1. op' \in Op
    BY <1>28 DEF LowerOuterFails, Op, OpStages, Undo
  <2>2. mishaps' \in 0 .. MaxMishaps
    BY <1>28 DEF LowerOuterFails
  <2> QED
    BY <1>28, <2>1, <2>2 DEF LowerOuterFails
<1>29. ASSUME LowerFlag
      PROVE  TypeOK'
  <2>1. file' \in SecurityFile
    BY <1>29 DEF LowerFlag, SecurityFile, OpFits
  <2>2. op' \in Op
    BY <1>29 DEF LowerFlag, Op, OpStages
  <2> QED
    BY <1>29, <2>1, <2>2 DEF LowerFlag
<1>30. ASSUME LowerFlagFails
      PROVE  TypeOK'
  <2>1. op' \in Op
    BY <1>30 DEF LowerFlagFails, Op, OpStages, Undo
  <2>2. mishaps' \in 0 .. MaxMishaps
    BY <1>30 DEF LowerFlagFails
  <2>3. outer' \in Keys \cup {None, Wiped} /\ recovery' \in Passwords \cup {None}
    BY <1>30 DEF LowerFlagFails, EnableOuter, Op, OpFits, SecurityFile
  <2> QED
    BY <1>30, <2>1, <2>2, <2>3 DEF LowerFlagFails
<1>31. ASSUME NEW a \in Accounts, CleanBlob(a)
      PROVE  TypeOK'
  <2>1. op' \in Op
    BY <1>31 DEF CleanBlob, Op, OpStages
  <2>2. blob' \in [Accounts -> Blob \cup {None}]
    BY <1>31, <2>1 DEF CleanBlob, RemoveBlob
  <2>3. mishaps' \in 0 .. MaxMishaps
    BY <1>31 DEF CleanBlob, RemoveBlob
  <2> QED
    BY <1>31, <2>1, <2>2, <2>3 DEF CleanBlob
<1>32. ASSUME Cleaned
      PROVE  TypeOK'
  BY <1>0, <1>32 DEF Cleaned, Op, OpStages
<1>33. ASSUME RemoveSecurityFile
      PROVE  TypeOK'
  BY <1>0, <1>33 DEF RemoveSecurityFile, ReplaceMasterKey
<1>34. ASSUME RemoveSecurityFileFails
      PROVE  TypeOK'
  <2>1. op.key \in Keys \cup {Wiped} /\ op.password \in Passwords
    BY <1>34, KindAt DEF RemoveSecurityFileFails
  <2>2. op' \in Op
    <3>1. CASE op.disabled
      <4>1. op' = [kind |-> "reenable", pc |-> "scan", password |-> op.password, key |-> op.key,
                   shared |-> TRUE, new |-> None, accounts |-> {}, done |-> {}, failed |-> {},
                   disabled |-> FALSE]
        BY <1>34, <3>1 DEF RemoveSecurityFileFails, NoOp
      <4> QED
        BY ONLY <2>1, <4>1 DEF Op, OpStages, OpKinds
    <3>2. CASE ~op.disabled
      BY <1>0, <1>34, <3>2 DEF RemoveSecurityFileFails
    <3> QED
      BY <3>1, <3>2
  <2>3. mishaps' \in 0 .. MaxMishaps
    BY <1>34 DEF RemoveSecurityFileFails
  <2>4. master' \in Keys \cup {None, Wiped}
    BY <1>34 DEF RemoveSecurityFileFails, ReplaceMasterKey, OpFits, SecurityFile
  <2> QED
    BY <1>34, <2>1, <2>2, <2>3, <2>4 DEF RemoveSecurityFileFails
<1>35. ASSUME NEW i \in DOMAIN quarantine, DeleteQuarantine(i)
      PROVE  TypeOK'
  <2>1. quarantine' \in Seq(Report)
    BY <1>35, OthersRemain DEF DeleteQuarantine
  <2> QED
    BY <1>35, <2>1 DEF DeleteQuarantine
<1>36. ASSUME NEW i \in DOMAIN quarantine, RetryQuarantineImport(i)
      PROVE  TypeOK'
  <2>1. quarantine[i] \in Report
    OBVIOUS
  <2>2. plain' \in [Accounts -> Values \cup {None, Torn}]
    BY <1>36, <2>1 DEF RetryQuarantineImport, Import, Imports, Report, Blob
  <2>3. listed' \in SUBSET Accounts /\ imported' \in SUBSET Accounts
    BY <1>36, <2>1 DEF RetryQuarantineImport, Import, Imports, Report
  <2>4. quarantine' \in Seq(Report)
    BY <1>36, OthersRemain DEF RetryQuarantineImport
  <2>5. mishaps' \in 0 .. MaxMishaps
    BY <1>36 DEF RetryQuarantineImport
  <2> QED
    BY <1>36, <2>2, <2>3, <2>4, <2>5 DEF RetryQuarantineImport
<1>37. ASSUME NEW a \in Accounts, NEW v \in Values, BeginAccountSave(a, v)
      PROVE  TypeOK'
  BY <1>37 DEF BeginAccountSave, SaveOp, NoSave, SaveStages, Encrypted, SecurityFile
<1>38. ASSUME InstallFirst
      PROVE  TypeOK'
  <2>1. save' \in SaveOp
    BY <1>38 DEF InstallFirst, SaveOp, SaveStages, Save
  <2>2. plain' \in [Accounts -> Values \cup {None, Torn}]
    BY <1>38 DEF InstallFirst, SaveOp, SaveFits
  <2>3. saved' \in [Accounts -> Values \cup {None}] /\ imported' \in SUBSET Accounts
    BY <1>38 DEF InstallFirst, SavedIfListed, NowSaved, SaveOp, SaveFits
  <2> QED
    BY <1>38, <2>1, <2>2, <2>3 DEF InstallFirst
<1>39. ASSUME SetAside
      PROVE  TypeOK'
  <2>1. save.account \in Accounts /\ plain[save.account] \in Values \cup {Torn}
    BY <1>39 DEF SetAside, SaveFits
  <2>2. save' \in SaveOp
    BY <1>39, <2>1 DEF SetAside, SaveOp, SaveStages
  <2>3. plain' \in [Accounts -> Values \cup {None, Torn}]
    BY <1>39 DEF SetAside
  <2>4. aside' \in [Accounts -> SUBSET (Values \cup {Torn})]
    BY <1>39, <2>1, <2>2, <2>3 DEF SetAside
  <2> QED
    BY <1>39, <2>1, <2>2, <2>3, <2>4 DEF SetAside
<1>40. ASSUME Install
      PROVE  TypeOK'
  <2>1. save' \in SaveOp
    BY <1>40 DEF Install, SaveOp, SaveStages, Save
  <2>2. plain' \in [Accounts -> Values \cup {None, Torn}]
    BY <1>40 DEF Install, SaveOp, SaveFits
  <2>3. aside' \in [Accounts -> SUBSET (Values \cup {Torn})]
    BY <1>40, <2>1, <2>2 DEF Install, DropBackup
  <2>4. saved' \in [Accounts -> Values \cup {None}] /\ imported' \in SUBSET Accounts
    BY <1>40 DEF Install, SavedIfListed, NowSaved, SaveOp, SaveFits
  <2> QED
    BY <1>40, <2>1, <2>2, <2>3, <2>4 DEF Install
<1>41. ASSUME InstallFails
      PROVE  TypeOK'
  BY <1>0, <1>41 DEF InstallFails, DropBackup, SaveOp
<1>42. ASSUME SealSession
      PROVE  TypeOK'
  <2>1. save' \in SaveOp
    BY <1>42 DEF SealSession, SaveOp, SaveStages, Save
  <2>2. saved' \in [Accounts -> Values \cup {None}] /\ imported' \in SUBSET Accounts
    BY <1>42 DEF SealSession, SavedIfListed, NowSaved, SaveOp, SaveFits
  <2>3. [value |-> save.value, key |-> master] \in Blob
    BY <1>42 DEF SealSession, Blob, SaveFits
  <2>4. blob' \in [Accounts -> Blob \cup {None}]
    BY <1>42, <2>1, <2>2, <2>3 DEF SealSession
  <2> QED
    BY <1>42, <2>1, <2>2, <2>3, <2>4 DEF SealSession
<1>43. ASSUME DropPlain
      PROVE  TypeOK'
  <2>1. save' \in SaveOp
    BY <1>43 DEF DropPlain, SaveOp, SaveStages, Save
  <2>2. plain' \in [Accounts -> Values \cup {None, Torn}]
    BY <1>43 DEF DropPlain, RemovePlain
  <2>3. mishaps' \in 0 .. MaxMishaps
    BY <1>43 DEF DropPlain, RemovePlain
  <2> QED
    BY <1>43, <2>1, <2>2, <2>3 DEF DropPlain
<1>44. ASSUME SaveFails
      PROVE  TypeOK'
  BY <1>0, <1>44 DEF SaveFails
<1>45. ASSUME EnlistAccount
      PROVE  TypeOK'
  <2>1. saved' \in [Accounts -> Values \cup {None}] /\ imported' \in SUBSET Accounts
    BY <1>45 DEF EnlistAccount, SavedIfListed, NowSaved, SaveOp, SaveFits
  <2>2. listed' \in SUBSET Accounts
    BY <1>45 DEF EnlistAccount, SaveFits
  <2> QED
    BY <1>0, <1>45, <2>1, <2>2 DEF EnlistAccount
<1>46. ASSUME RemoveAccountCache
      PROVE  TypeOK'
  BY <1>0, <1>46 DEF RemoveAccountCache, RemovePlain, SaveOp
<1>47. ASSUME NEW a \in Accounts, ForgetAccount(a)
      PROVE  TypeOK'
  BY <1>47 DEF ForgetAccount, SaveOp, NoSave, SaveStages
<1>48. ASSUME Crash
      PROVE  TypeOK'
  BY <1>0, <1>48 DEF Crash
<1> QED
  BY <1>1, <1>2, <1>3, <1>4, <1>5, <1>6, <1>7, <1>8, <1>9, <1>10, <1>11, <1>12, <1>13, <1>14, <1>15, <1>16, <1>17, <1>18, <1>19, <1>20, <1>21, <1>22, <1>23, <1>24, <1>25, <1>26, <1>27, <1>28, <1>29, <1>30, <1>31, <1>32, <1>33, <1>34, <1>35, <1>36, <1>37, <1>38, <1>39, <1>40, <1>41, <1>42, <1>43, <1>44, <1>45, <1>46, <1>47, <1>48 DEF Next, PasswordNext, EnableNext, DisableNext, QuarantineNext, SaveNext

LEMMA OpFitsKept ==
  ASSUME TypeInv, Next
  PROVE  OpFits'
<1>0. op \in Op /\ (file # None => file \in SecurityFile)
  BY DEF TypeInv, TypeOK
<1> USE DEF OpFits, disk, steam, history
<1>1. ASSUME NEW pw \in Passwords, SetAppPassword(pw)
      PROVE  OpFits'
  BY <1>1, KindAt DEF TypeInv, SetAppPassword, SettingsPage, Op, NoOp, Sealing, Opening, Lowered, Raised
<1>2. ASSUME UnlockApp
      PROVE  OpFits'
  <2>1. file' = file /\ op' = WipedBuffer(op)
    BY <1>2 DEF UnlockApp
  <2>2. CASE ~op.shared
    BY <2>1, <2>2 DEF TypeInv, WipedBuffer, Sealing, Opening, Lowered, Raised
  <2>3. CASE op.shared
    <3>1. op' = [op EXCEPT !.key = Wiped, !.shared = FALSE]
      BY <2>1, <2>3 DEF WipedBuffer
    <3>2. /\ op.pc # "idle" /\ op.kind \in Sealing
          /\ op'.key = Wiped /\ op'.pc = op.pc /\ op'.kind = op.kind /\ op'.password = op.password
          /\ op'.new = op.new /\ op'.accounts = op.accounts /\ op'.done = op.done /\ op'.failed = op.failed
      BY <1>0, <2>3, <3>1 DEF TypeInv, NoOp, Op
    <3> QED
      BY <2>1, <3>2 DEF TypeInv, Sealing, Opening, Lowered, Raised
  <2> QED
    BY <2>2, <2>3
<1>3. ASSUME Lock
      PROVE  OpFits'
  <2>1. file' = file /\ op' = WipedBuffer(op)
    BY <1>3 DEF Lock
  <2>2. CASE ~op.shared
    BY <2>1, <2>2 DEF TypeInv, WipedBuffer, Sealing, Opening, Lowered, Raised
  <2>3. CASE op.shared
    <3>1. op' = [op EXCEPT !.key = Wiped, !.shared = FALSE]
      BY <2>1, <2>3 DEF WipedBuffer
    <3>2. /\ op.pc # "idle" /\ op.kind \in Sealing
          /\ op'.key = Wiped /\ op'.pc = op.pc /\ op'.kind = op.kind /\ op'.password = op.password
          /\ op'.new = op.new /\ op'.accounts = op.accounts /\ op'.done = op.done /\ op'.failed = op.failed
      BY <1>0, <2>3, <3>1 DEF TypeInv, NoOp, Op
    <3> QED
      BY <2>1, <3>2 DEF TypeInv, Sealing, Opening, Lowered, Raised
  <2> QED
    BY <2>2, <2>3
<1>4. ASSUME NEW pw \in Passwords, ChangePassword(pw)
      PROVE  OpFits'
  <2>1. op' = [kind |-> "change", pc |-> "rewrap", password |-> file.password, key |-> file.key,
             shared |-> FALSE, new |-> pw, accounts |-> {}, done |-> {}, failed |-> {}, disabled |-> FALSE]
    BY <1>4 DEF ChangePassword, NoOp
  <2>2. file' = file /\ file \in SecurityFile
    BY <1>0, <1>4 DEF ChangePassword
  <2> QED
    BY <2>1, <2>2 DEF SecurityFile, Sealing, Opening, Lowered, Raised
<1>5. ASSUME Rewrap
      PROVE  OpFits'
  <2>1. file' = file /\ (op' = NoOp \/ (op.pc = "rewrap" /\ op' = [op EXCEPT !.pc = "store"]))
    BY <1>5 DEF Rewrap
  <2>2. CASE op' = NoOp
    BY <2>1, <2>2 DEF NoOp, Sealing, Opening, Lowered, Raised
  <2>3. CASE op.pc = "rewrap" /\ op' = [op EXCEPT !.pc = "store"]
    BY <1>0, <2>1, <2>3, KindAt DEF TypeInv, Op, Sealing, Opening, Lowered, Raised
  <2> QED
    BY <2>1, <2>2, <2>3
<1>6. ASSUME StorePassword
      PROVE  OpFits'
  BY <1>6, KindAt DEF TypeInv, StorePassword, Op, NoOp, Sealing, Opening, Lowered, Raised
<1>7. ASSUME StorePasswordFails
      PROVE  OpFits'
  BY <1>7, KindAt DEF TypeInv, StorePasswordFails, Op, NoOp, Sealing, Opening, Lowered, Raised
<1>8. ASSUME Enable
      PROVE  OpFits'
  <2>1. op' = [kind |-> "enable", pc |-> "scan", password |-> file.password, key |-> file.key,
             shared |-> TRUE, new |-> None, accounts |-> {}, done |-> {}, failed |-> {}, disabled |-> FALSE]
    BY <1>8 DEF Enable, NoOp
  <2>2. file' = file /\ file \in SecurityFile
    BY <1>0, <1>8 DEF Enable
  <2> QED
    BY <2>1, <2>2 DEF SecurityFile, Sealing, Opening, Lowered, Raised
<1>9. ASSUME ScanPlain
      PROVE  OpFits'
  <2>1. file' = file /\ file # None /\ file \in SecurityFile
    BY <1>0, <1>9, KindAt DEF ScanPlain
  <2>2. CASE op' = NoOp
    BY <2>1, <2>2 DEF NoOp, Sealing, Opening, Lowered, Raised
  <2>3. CASE op' # NoOp
    <3>1. /\ op.kind \in Sealing /\ op.pc = "scan" /\ ~file.encrypted
          /\ op' = [op EXCEPT !.pc = "blobs", !.accounts = {a \in listed : plain[a] # None}]
      BY <1>9, <2>3 DEF ScanPlain, Sealing
    <3>2. /\ op'.pc = "blobs" /\ op'.kind = op.kind /\ op'.password = op.password /\ op'.key = op.key
          /\ op'.shared = op.shared /\ op'.new = op.new /\ op'.done = {} /\ op'.failed = {}
      BY <1>0, <3>1 DEF TypeInv, Op
    <3> QED
      BY <2>1, <3>1, <3>2 DEF TypeInv, Sealing, Opening, Lowered, Raised
  <2> QED
    BY <2>2, <2>3
<1>10. ASSUME NEW a \in Accounts, WriteBlob(a)
      PROVE  OpFits'
  BY <1>10, KindAt DEF TypeInv, WriteBlob, Op, NoOp, Sealing, Opening, Lowered, Raised
<1>11. ASSUME NEW a \in Accounts, WriteBlobFails(a)
      PROVE  OpFits'
  BY <1>11, KindAt DEF TypeInv, WriteBlobFails, UndoBlobs, Op, NoOp, Sealing, Opening, Lowered, Raised
<1>12. ASSUME NEW a \in Accounts, SweepPlain(a)
      PROVE  OpFits'
  BY <1>12, KindAt DEF TypeInv, SweepPlain, Op, NoOp, Sealing, Opening, Lowered, Raised
<1>13. ASSUME RaiseOuter
      PROVE  OpFits'
  BY <1>13, KindAt DEF TypeInv, RaiseOuter, Op, NoOp, Sealing, Opening, Lowered, Raised
<1>14. ASSUME RaiseOuterFails
      PROVE  OpFits'
  BY <1>14, KindAt DEF TypeInv, RaiseOuterFails, UndoBlobs, Op, NoOp, Sealing, Opening, Lowered, Raised
<1>15. ASSUME RaiseFlag
      PROVE  OpFits'
  <2>1. file \in SecurityFile /\ op.pc # "idle"
    BY <1>15, KindAt DEF RaiseFlag
  <2>2. file'.key = file.key /\ file'.encrypted = TRUE /\ file' # None
    <3>1. file' = [file EXCEPT !.encrypted = TRUE] /\ file' \in SecurityFile
      BY <1>15, <2>1 DEF RaiseFlag, SecurityFile
    <3> QED
      BY <2>1, <3>1 DEF SecurityFile
  <2> QED
    BY <1>0, <1>15, <2>1, <2>2, KindAt DEF RaiseFlag, TypeInv, Op, Sealing, Opening, Lowered, Raised
<1>16. ASSUME RaiseFlagFails
      PROVE  OpFits'
  BY <1>16, KindAt DEF TypeInv, RaiseFlagFails, UndoBlobs, Op, NoOp, Sealing, Opening, Lowered, Raised
<1>17. ASSUME Swept
      PROVE  OpFits'
  BY <1>17, KindAt DEF TypeInv, Swept, Op, NoOp, Sealing, Opening, Lowered, Raised
<1>18. ASSUME Disable
      PROVE  OpFits'
  <2>1. op' = [kind |-> "disable", pc |-> "scan", password |-> file.password, key |-> file.key,
             shared |-> FALSE, new |-> None, accounts |-> {}, done |-> {}, failed |-> {}, disabled |-> FALSE]
    BY <1>18 DEF Disable, NoOp
  <2>2. file' = file /\ file \in SecurityFile
    BY <1>0, <1>18 DEF Disable
  <2> QED
    BY <2>1, <2>2 DEF SecurityFile, Sealing, Opening, Lowered, Raised
<1>19. ASSUME RemoveAppPassword
      PROVE  OpFits'
  <2>1. op' = [kind |-> "remove", pc |-> IF file.encrypted THEN "scan" ELSE "unset", password |-> file.password, key |-> file.key,
             shared |-> FALSE, new |-> None, accounts |-> {}, done |-> {}, failed |-> {}, disabled |-> FALSE]
    BY <1>19 DEF RemoveAppPassword, NoOp
  <2>2. file' = file /\ file \in SecurityFile
    BY <1>0, <1>19 DEF RemoveAppPassword
  <2> QED
    BY <2>1, <2>2 DEF SecurityFile, Sealing, Opening, Lowered, Raised
<1>20. ASSUME ScanBlobs
      PROVE  OpFits'
  <2>1. file' = file /\ file # None /\ file \in SecurityFile
    BY <1>0, <1>20, KindAt DEF ScanBlobs
  <2>2. CASE op' = NoOp
    BY <2>1, <2>2 DEF NoOp, Sealing, Opening, Lowered, Raised
  <2>3. CASE op' # NoOp
    <3>1. /\ op.kind \in Opening /\ op.pc = "scan" /\ file.encrypted
          /\ op' = [op EXCEPT !.pc = "extract", !.accounts = {a \in listed : blob[a] # None}]
      BY <1>20, <2>3 DEF ScanBlobs, Opening
    <3>2. /\ op'.pc = "extract" /\ op'.kind = op.kind /\ op'.password = op.password /\ op'.key = op.key
          /\ op'.shared = op.shared /\ op'.new = op.new /\ op'.done = {} /\ op'.failed = {}
      BY <1>0, <3>1 DEF TypeInv, Op
    <3> QED
      BY <2>1, <3>1, <3>2 DEF TypeInv, Sealing, Opening, Lowered, Raised
  <2> QED
    BY <2>2, <2>3
<1>21. ASSUME NEW a \in Accounts, Extract(a)
      PROVE  OpFits'
  BY <1>21, KindAt DEF TypeInv, Extract, Op, NoOp, Sealing, Opening, Lowered, Raised
<1>22. ASSUME NEW a \in Accounts, ExtractFails(a)
      PROVE  OpFits'
  BY <1>22, KindAt DEF TypeInv, ExtractFails, Op, NoOp, Sealing, Opening, Lowered, Raised
<1>23. ASSUME Extracted
      PROVE  OpFits'
  BY <1>23, KindAt DEF TypeInv, Extracted, Op, NoOp, Sealing, Opening, Lowered, Raised
<1>24. ASSUME NEW a \in Accounts, Quarantine(a)
      PROVE  OpFits'
  BY <1>24, KindAt DEF TypeInv, Quarantine, Op, NoOp, Sealing, Opening, Lowered, Raised
<1>25. ASSUME WriteReport
      PROVE  OpFits'
  BY <1>25, KindAt DEF TypeInv, WriteReport, Op, NoOp, Sealing, Opening, Lowered, Raised
<1>26. ASSUME WriteReportFails
      PROVE  OpFits'
  BY <1>26, KindAt DEF TypeInv, WriteReportFails, Undo, Op, NoOp, Sealing, Opening, Lowered, Raised
<1>27. ASSUME LowerOuter
      PROVE  OpFits'
  BY <1>27, KindAt DEF TypeInv, LowerOuter, Op, NoOp, Sealing, Opening, Lowered, Raised
<1>28. ASSUME LowerOuterFails
      PROVE  OpFits'
  BY <1>28, KindAt DEF TypeInv, LowerOuterFails, Undo, Op, NoOp, Sealing, Opening, Lowered, Raised
<1>29. ASSUME LowerFlag
      PROVE  OpFits'
  <2>1. file \in SecurityFile /\ op.pc # "idle"
    BY <1>29, KindAt DEF LowerFlag
  <2>2. file'.key = file.key /\ file'.encrypted = FALSE /\ file' # None
    <3>1. file' = [file EXCEPT !.encrypted = FALSE] /\ file' \in SecurityFile
      BY <1>29, <2>1 DEF LowerFlag, SecurityFile
    <3> QED
      BY <2>1, <3>1 DEF SecurityFile
  <2> QED
    BY <1>0, <1>29, <2>1, <2>2, KindAt DEF LowerFlag, TypeInv, Op, Sealing, Opening, Lowered, Raised
<1>30. ASSUME LowerFlagFails
      PROVE  OpFits'
  BY <1>30, KindAt DEF TypeInv, LowerFlagFails, Undo, Op, NoOp, Sealing, Opening, Lowered, Raised
<1>31. ASSUME NEW a \in Accounts, CleanBlob(a)
      PROVE  OpFits'
  BY <1>31, KindAt DEF TypeInv, CleanBlob, Op, NoOp, Sealing, Opening, Lowered, Raised
<1>32. ASSUME Cleaned
      PROVE  OpFits'
  BY <1>32, KindAt DEF TypeInv, Cleaned, Op, NoOp, Sealing, Opening, Lowered, Raised
<1>33. ASSUME RemoveSecurityFile
      PROVE  OpFits'
  BY <1>33, KindAt DEF TypeInv, RemoveSecurityFile, Op, NoOp, Sealing, Opening, Lowered, Raised
<1>34. ASSUME RemoveSecurityFileFails
      PROVE  OpFits'
  <2>1. file' = file /\ file \in SecurityFile /\ op.key \in {file.key, Wiped} /\ op.password \in Passwords
    BY <1>34, KindAt DEF RemoveSecurityFileFails
  <2>2. CASE ~op.disabled
    BY <1>34, <2>1, <2>2 DEF RemoveSecurityFileFails, NoOp, Sealing, Opening, Lowered, Raised
  <2>3. CASE op.disabled
    <3>1. op' = [kind |-> "reenable", pc |-> "scan", password |-> op.password, key |-> op.key,
                 shared |-> TRUE, new |-> None, accounts |-> {}, done |-> {}, failed |-> {}, disabled |-> FALSE]
      BY <1>34, <2>3 DEF RemoveSecurityFileFails, NoOp
    <3> QED
      BY <2>1, <3>1 DEF SecurityFile, Sealing, Opening, Lowered, Raised
  <2> QED
    BY <2>2, <2>3
<1>35. ASSUME Crash
      PROVE  OpFits'
  BY <1>35, KindAt DEF TypeInv, Crash, Op, NoOp, Sealing, Opening, Lowered, Raised
<1>36. ASSUME QuarantineNext \/ SaveNext
      PROVE  OpFits'
  <2>1. UNCHANGED <<op, file>>
    BY <1>36 DEF QuarantineNext, SaveNext, DeleteQuarantine, RetryQuarantineImport, BeginAccountSave, InstallFirst, SetAside, Install, InstallFails, SealSession, DropPlain, SaveFails, EnlistAccount, RemoveAccountCache, ForgetAccount
  <2> QED
    BY <2>1 DEF TypeInv, Lowered, Raised, Sealing, Opening
<1> QED
  BY <1>1, <1>2, <1>3, <1>4, <1>5, <1>6, <1>7, <1>8, <1>9, <1>10, <1>11, <1>12, <1>13, <1>14, <1>15, <1>16, <1>17, <1>18, <1>19, <1>20, <1>21, <1>22, <1>23, <1>24, <1>25, <1>26, <1>27, <1>28, <1>29, <1>30, <1>31, <1>32, <1>33, <1>34, <1>35, <1>36 DEF Next, PasswordNext, EnableNext, DisableNext

(* Which actions leave a save alone, and the key.                            *)
LEMMA SaveFitsKept ==
  ASSUME TypeInv, Next
  PROVE  SaveFits'
<1> USE DEF SaveFits, disk, steam, history
<1>0. save \in SaveOp
  BY DEF TypeInv, TypeOK
<1>1. ASSUME PasswordNext \/ EnableNext \/ DisableNext \/ QuarantineNext
      PROVE  SaveFits'
  <2>1. save' = save
    <3>1. CASE PasswordNext
      BY <3>1 DEF PasswordNext, SetAppPassword, ChangePassword, UnlockApp, Lock, Rewrap, StorePassword,
                  StorePasswordFails
    <3>2. CASE EnableNext
      BY <3>2 DEF EnableNext, Enable, ScanPlain, RaiseOuter, RaiseOuterFails, RaiseFlag, RaiseFlagFails,
                  Swept, WriteBlob, WriteBlobFails, SweepPlain
    <3>3. CASE DisableNext
      BY <3>3 DEF DisableNext, Disable, RemoveAppPassword, ScanBlobs, Extracted, WriteReport,
                  WriteReportFails, LowerOuter, LowerOuterFails, LowerFlag, LowerFlagFails, Cleaned,
                  RemoveSecurityFile, RemoveSecurityFileFails, Extract, ExtractFails, Quarantine, CleanBlob
    <3>4. CASE QuarantineNext
      BY <3>4 DEF QuarantineNext, DeleteQuarantine, RetryQuarantineImport
    <3> QED
      BY <1>1, <3>1, <3>2, <3>3, <3>4
  <2> QED
    BY <2>1 DEF TypeInv
<1>2. ASSUME NEW a \in Accounts, NEW v \in Values, BeginAccountSave(a, v)
      PROVE  SaveFits'
  BY <1>2 DEF BeginAccountSave, NoSave
<1>3. ASSUME NEW a \in Accounts, ForgetAccount(a)
      PROVE  SaveFits'
  BY <1>3 DEF ForgetAccount, NoSave
<1>4. ASSUME InstallFirst \/ Install \/ SealSession \/ DropPlain \/ SetAside
      PROVE  SaveFits'
  <2>1. save.account \in Accounts /\ save.value \in Values
    BY <1>4 DEF TypeInv, InstallFirst, Install, SealSession, DropPlain, SetAside
  <2>2. save'.account = save.account /\ save'.value = save.value /\ save'.pc \in {"enlist", "dropplain", "install"}
    BY <1>0, <1>4 DEF InstallFirst, Install, SealSession, DropPlain, SetAside, Save, SaveOp
  <2> QED
    BY <2>1, <2>2
<1>5. ASSUME InstallFails \/ SaveFails \/ EnlistAccount \/ RemoveAccountCache \/ Crash
      PROVE  SaveFits'
  BY <1>5 DEF InstallFails, SaveFails, EnlistAccount, RemoveAccountCache, Crash, NoSave
<1> QED
  BY <1>1, <1>2, <1>3, <1>4, <1>5 DEF Next, SaveNext

LEMMA KeyFitsKept ==
  ASSUME TypeInv, Next
  PROVE  KeyFits'
<1> USE DEF KeyFits, disk, steam, history
<1>1. KeyFits /\ (file # None => file \in SecurityFile)
  BY DEF TypeInv, TypeOK
<1>2. ASSUME NEW pw \in Passwords, SetAppPassword(pw)
      PROVE  KeyFits'
  <2>1. PICK key \in Keys : file' = [password |-> pw, key |-> key, encrypted |-> FALSE] /\ master' = key
    BY <1>2 DEF SetAppPassword, ReplaceMasterKey
  <2>2. file' \in SecurityFile
    BY <2>1 DEF SecurityFile
  <2> QED
    BY <2>1, <2>2
<1>3. ASSUME UnlockApp \/ Lock \/ Enable \/ RemoveAppPassword \/ RemoveSecurityFile \/ Crash
      PROVE  KeyFits'
  BY <1>3 DEF UnlockApp, Lock, Enable, RemoveAppPassword, RemoveSecurityFile, Crash, ReplaceMasterKey
<1>4. ASSUME RemoveSecurityFileFails
      PROVE  KeyFits'
  BY <1>1, <1>4, KindAt DEF RemoveSecurityFileFails, ReplaceMasterKey
<1>5. ASSUME StorePassword
      PROVE  KeyFits'
  <2>1. op.key = file.key /\ file \in SecurityFile
    BY <1>5, KindAt DEF StorePassword, TypeInv, OpFits, Sealing
  <2>2. master' = op.key /\ file' = [file EXCEPT !.password = op.new]
    BY <1>5 DEF StorePassword, ReplaceMasterKey
  <2>3. file'.key = file.key /\ file' \in SecurityFile
    BY <1>5, <2>1, <2>2, KindAt DEF StorePassword, SecurityFile
  <2> QED
    BY <2>1, <2>2, <2>3
<1>6. ASSUME RaiseFlag \/ LowerFlag
      PROVE  KeyFits'
  <2>1. file \in SecurityFile /\ master' = master
    BY <1>6, KindAt DEF RaiseFlag, LowerFlag
  <2>2. file' \in {[file EXCEPT !.encrypted = TRUE], [file EXCEPT !.encrypted = FALSE]}
    BY <1>6 DEF RaiseFlag, LowerFlag
  <2> QED
    BY <1>1, <2>1, <2>2 DEF SecurityFile
<1>7. ASSUME QuarantineNext \/ SaveNext
      PROVE  KeyFits'
  <2>1. UNCHANGED <<file, master>>
    BY <1>7 DEF QuarantineNext, SaveNext, DeleteQuarantine, RetryQuarantineImport, BeginAccountSave,
         InstallFirst, SetAside, Install, InstallFails, SealSession, DropPlain, SaveFails, EnlistAccount,
         RemoveAccountCache, ForgetAccount
  <2> QED
    BY <1>1, <2>1
<1>8. ASSUME \/ ScanPlain \/ RaiseOuter \/ RaiseOuterFails \/ RaiseFlagFails \/ Swept
             \/ \E a \in Accounts : WriteBlob(a) \/ WriteBlobFails(a) \/ SweepPlain(a)
      PROVE  KeyFits'
  BY <1>1, <1>8 DEF ScanPlain, RaiseOuter, RaiseOuterFails, RaiseFlagFails, Swept, WriteBlob,
                    WriteBlobFails, SweepPlain
<1>9. ASSUME \/ Disable \/ ScanBlobs \/ Extracted \/ WriteReport \/ WriteReportFails
             \/ LowerOuter \/ LowerOuterFails \/ LowerFlagFails \/ Cleaned
             \/ \E a \in Accounts : Extract(a) \/ ExtractFails(a) \/ Quarantine(a) \/ CleanBlob(a)
      PROVE  KeyFits'
  BY <1>1, <1>9 DEF Disable, ScanBlobs, Extracted, WriteReport, WriteReportFails, LowerOuter,
                    LowerOuterFails, LowerFlagFails, Cleaned, Extract, ExtractFails, Quarantine, CleanBlob
<1>10. ASSUME \/ Rewrap \/ StorePasswordFails
              \/ \E pw \in Passwords : ChangePassword(pw)
       PROVE  KeyFits'
  BY <1>1, <1>10 DEF Rewrap, StorePasswordFails, ChangePassword
<1> QED
  BY <1>2, <1>3, <1>4, <1>5, <1>6, <1>7, <1>8, <1>9, <1>10 DEF Next, PasswordNext, EnableNext, DisableNext

(* A report that is replaced keeps its place, and the others theirs.         *)
LEMMA NewestReplaced ==
  ASSUME quarantine \in Seq(Report), quarantine # <<>>, NEW r \in Report
  PROVE  /\ DOMAIN [quarantine EXCEPT ![Newest] = r] = DOMAIN quarantine
         /\ Newest \in DOMAIN quarantine
         /\ Len([quarantine EXCEPT ![Newest] = r]) = Newest
         /\ [quarantine EXCEPT ![Newest] = r][Newest] = r
         /\ \A i \in DOMAIN quarantine : i # Newest => [quarantine EXCEPT ![Newest] = r][i] = quarantine[i]
  BY DEF Newest

LEMMA Reported ==
  ASSUME quarantine \in Seq(Report), NEW r \in Report
  PROVE  /\ Len(Append(quarantine, r)) = Newest + 1 /\ DOMAIN Append(quarantine, r) = 1 .. Newest + 1
         /\ DOMAIN quarantine = 1 .. Newest /\ Newest \in Nat
         /\ Append(quarantine, r)[Newest + 1] = r
         /\ \A i \in DOMAIN quarantine : Append(quarantine, r)[i] = quarantine[i]
  BY DEF Newest

LEMMA ReportsFitKept ==
  ASSUME TypeInv, Next
  PROVE  ReportsFit'
<1> USE DEF disk, steam, history
<1>0. quarantine \in Seq(Report) /\ op \in Op /\ ReportsFit
  BY DEF TypeInv, TypeOK
<1>1. ASSUME quarantine' = quarantine, op'.pc = op.pc, op'.failed = op.failed
      PROVE  ReportsFit'
  BY <1>0, <1>1 DEF ReportsFit, Newest
<1>2. ASSUME quarantine' = quarantine, op'.pc # "quarantine"
      PROVE  ReportsFit'
  BY <1>0, <1>2 DEF ReportsFit, Newest
<1>3. ASSUME UnlockApp \/ Lock
      PROVE  ReportsFit'
  <2>1. quarantine' = quarantine /\ op' = WipedBuffer(op)
    BY <1>3 DEF UnlockApp, Lock
  <2>2. op'.pc = op.pc /\ op'.failed = op.failed
    BY <1>0, <2>1 DEF WipedBuffer, Op
  <2> QED
    BY <1>1, <2>1, <2>2
<1>4. ASSUME NEW a \in Accounts,
             WriteBlob(a) \/ Extract(a) \/ SweepPlain(a) \/ CleanBlob(a)
      PROVE  ReportsFit'
  <2>1. quarantine' = quarantine /\ op' = [op EXCEPT !.done = @ \cup {a}]
    BY <1>4 DEF WriteBlob, Extract, SweepPlain, CleanBlob
  <2>2. op'.pc = op.pc /\ op'.failed = op.failed
    BY <1>0, <2>1 DEF Op
  <2> QED
    BY <1>1, <2>1, <2>2
<1>5. ASSUME \/ StorePassword \/ StorePasswordFails \/ RaiseOuterFails \/ RaiseFlagFails \/ Swept
             \/ RemoveSecurityFile \/ Crash
             \/ \E a \in Accounts : WriteBlobFails(a)
      PROVE  ReportsFit'
  <2>1. quarantine' = quarantine /\ op' = NoOp
    BY <1>5 DEF StorePassword, StorePasswordFails, RaiseOuterFails, RaiseFlagFails, Swept, RemoveSecurityFile,
                Crash, WriteBlobFails, UndoBlobs
  <2> QED
    BY <1>2, <2>1 DEF NoOp
<1>6. ASSUME \/ Enable \/ Disable \/ RemoveAppPassword \/ RemoveSecurityFileFails
             \/ \E pw \in Passwords : ChangePassword(pw)
      PROVE  ReportsFit'
  <2>1. CASE RemoveSecurityFileFails
    <3>1. quarantine' = quarantine /\ op'.pc \in {"idle", "scan"}
      <4>1. CASE op.disabled
        BY <2>1, <4>1 DEF RemoveSecurityFileFails, NoOp
      <4>2. CASE ~op.disabled
        BY <2>1, <4>2 DEF RemoveSecurityFileFails, NoOp
      <4> QED
        BY <4>1, <4>2
    <3> QED
      BY <1>2, <3>1
  <2>2. CASE ~RemoveSecurityFileFails
    <3>1. quarantine' = quarantine /\ op'.pc \in {"scan", "unset", "rewrap"}
      BY <1>6, <2>2 DEF Enable, Disable, RemoveAppPassword, ChangePassword, NoOp
    <3> QED
      BY <1>2, <3>1
  <2> QED
    BY <2>1, <2>2
<1>7. ASSUME \/ Rewrap \/ ScanPlain \/ RaiseOuter \/ RaiseFlag \/ ScanBlobs \/ WriteReportFails \/ LowerOuter
             \/ LowerOuterFails \/ LowerFlag \/ LowerFlagFails \/ Cleaned
             \/ \E a \in Accounts : ExtractFails(a)
      PROVE  ReportsFit'
  <2> SUFFICES op'.pc # "quarantine"
    <3>1. quarantine' = quarantine
      BY <1>7 DEF Rewrap, ScanPlain, RaiseOuter, RaiseFlag, ScanBlobs, WriteReportFails, LowerOuter,
                  LowerOuterFails, LowerFlag, LowerFlagFails, Cleaned, ExtractFails
    <3> QED
      BY <1>2, <3>1
  <2>1. CASE Rewrap
    BY <1>0, <2>1 DEF Rewrap, NoOp, Op
  <2>2. CASE ScanPlain
    BY <1>0, <2>2 DEF ScanPlain, NoOp, Op
  <2>3. CASE RaiseOuter
    BY <1>0, <2>3 DEF RaiseOuter, NoOp, Op
  <2>4. CASE RaiseFlag
    BY <1>0, <2>4 DEF RaiseFlag, NoOp, Op
  <2>5. CASE ScanBlobs
    BY <1>0, <2>5 DEF ScanBlobs, NoOp, Op
  <2>6. CASE WriteReportFails
    BY <1>0, <2>6 DEF WriteReportFails, Undo, NoOp, Op
  <2>7. CASE LowerOuter
    BY <1>0, <2>7 DEF LowerOuter, NoOp, Op
  <2>8. CASE LowerOuterFails
    BY <1>0, <2>8 DEF LowerOuterFails, Undo, NoOp, Op
  <2>9. CASE LowerFlag
    BY <1>0, <2>9 DEF LowerFlag, NoOp, Op
  <2>10. CASE LowerFlagFails
    BY <1>0, <2>10 DEF LowerFlagFails, Undo, NoOp, Op
  <2>11. CASE Cleaned
    BY <1>0, <2>11 DEF Cleaned, NoOp, Op
  <2>12. ASSUME NEW a \in Accounts, ExtractFails(a)
         PROVE  op'.pc # "quarantine"
    BY <1>0, <2>12 DEF ExtractFails, Op
  <2> QED
    BY <1>7, <2>1, <2>2, <2>3, <2>4, <2>5, <2>6, <2>7, <2>8, <2>9, <2>10, <2>11, <2>12
<1>8. ASSUME SaveNext \/ \E pw \in Passwords : SetAppPassword(pw)
      PROVE  ReportsFit'
  <2>1. UNCHANGED <<quarantine, op>>
    BY <1>8 DEF SaveNext, BeginAccountSave, InstallFirst, SetAside, Install, InstallFails, SealSession, DropPlain,
                SaveFails, EnlistAccount, RemoveAccountCache, ForgetAccount, SetAppPassword
  <2> QED
    BY <1>1, <2>1
<1>9. ASSUME Extracted
      PROVE  ReportsFit'
  <2>1. CASE op.failed = {}
    <3>1. quarantine' = quarantine /\ op'.pc # "quarantine"
      BY <1>0, <1>9, <2>1 DEF Extracted, Op
    <3> QED
      BY <1>2, <3>1
  <2>2. CASE op.failed # {}
    <3> DEFINE r == [accounts |-> op.failed, blobs |-> Nothing, opens |-> None]
    <3>1. quarantine' = Append(quarantine, r) /\ op'.failed = op.failed
      BY <1>0, <1>9, <2>2 DEF Extracted, Op
    <3>2. r \in Report
      BY <1>0, NothingTyped DEF Op, Report
    <3>3. r.accounts = op.failed /\ \A a \in Accounts : r.blobs[a] = None
      BY DEF Nothing
    <3> HIDE DEF r
    <3>4. /\ Len(quarantine') = Newest + 1 /\ quarantine'[Newest + 1] = r /\ Newest \in Nat
          /\ DOMAIN quarantine' = 1 .. Newest + 1 /\ DOMAIN quarantine = 1 .. Newest
          /\ \A i \in DOMAIN quarantine : quarantine'[i] = quarantine[i]
      BY <1>0, <3>1, <3>2, Reported
    <3>5. \A i \in DOMAIN quarantine' : i \in DOMAIN quarantine \/ i = Newest + 1
      BY <3>4
    <3>6. (\A i \in DOMAIN quarantine : \A a \in Accounts :
              quarantine[i].blobs[a] # None => a \in quarantine[i].accounts)'
      BY <1>0, <3>3, <3>4, <3>5 DEF ReportsFit
    <3>7. quarantine' # <<>> /\ Newest' = Newest + 1
      BY <3>4 DEF Newest
    <3> QED
      BY <3>1, <3>3, <3>4, <3>6, <3>7 DEF ReportsFit
  <2> QED
    BY <2>1, <2>2
<1>10. ASSUME NEW a \in Accounts, Quarantine(a)
       PROVE  ReportsFit'
  <2>1. op'.pc = op.pc /\ op'.failed = op.failed /\ op.pc = "quarantine" /\ a \in op.failed
    BY <1>0, <1>10 DEF Quarantine, Op
  <2>2. CASE quarantine' = quarantine
    BY <1>1, <2>1, <2>2
  <2>3. CASE quarantine' = [quarantine EXCEPT ![Newest].blobs[a] = blob[a]]
    <3> DEFINE r == [quarantine[Newest] EXCEPT !.blobs = [@ EXCEPT ![a] = blob[a]]]
    <3>1. quarantine # <<>> /\ quarantine[Newest] \in Report /\ quarantine[Newest].accounts = op.failed
          /\ Newest \in DOMAIN quarantine
      BY <1>0, <2>1 DEF ReportsFit, Newest
    <3>2. r \in Report /\ r.accounts = op.failed
          /\ \A b \in Accounts : r.blobs[b] # None => b = a \/ quarantine[Newest].blobs[b] # None
      BY <3>1 DEF TypeInv, TypeOK, Report
    <3>3. quarantine' = [quarantine EXCEPT ![Newest] = r]
      BY <2>3
    <3> HIDE DEF r
    <3>4. /\ DOMAIN quarantine' = DOMAIN quarantine /\ Len(quarantine') = Newest /\ quarantine'[Newest] = r
          /\ \A i \in DOMAIN quarantine : i # Newest => quarantine'[i] = quarantine[i]
      BY <1>0, <3>1, <3>2, <3>3, NewestReplaced
    <3>5. (\A i \in DOMAIN quarantine : \A b \in Accounts :
              quarantine[i].blobs[b] # None => b \in quarantine[i].accounts)'
      BY <1>0, <2>1, <3>1, <3>2, <3>4 DEF ReportsFit
    <3>6. quarantine' # <<>> /\ Newest' = Newest
      BY <3>1, <3>4 DEF Newest
    <3> QED
      BY <2>1, <3>2, <3>4, <3>5, <3>6 DEF ReportsFit
  <2> QED
    BY <1>10, <2>2, <2>3 DEF Quarantine
<1>11. ASSUME WriteReport
       PROVE  ReportsFit'
  <2> DEFINE r == [quarantine[Newest] EXCEPT !.opens = op.key]
  <2>1. quarantine # <<>> /\ quarantine[Newest] \in Report /\ op'.pc # "quarantine"
        /\ Newest \in DOMAIN quarantine
    BY <1>0, <1>11 DEF ReportsFit, Newest, WriteReport, Op
  <2>2. r \in Report /\ r.accounts = quarantine[Newest].accounts /\ r.blobs = quarantine[Newest].blobs
    BY <1>0, <1>11, <2>1, KindAt DEF Report, WriteReport
  <2>3. quarantine' = [quarantine EXCEPT ![Newest] = r]
    BY <1>11 DEF WriteReport
  <2> HIDE DEF r
  <2>4. /\ DOMAIN quarantine' = DOMAIN quarantine /\ quarantine'[Newest] = r
        /\ \A i \in DOMAIN quarantine : i # Newest => quarantine'[i] = quarantine[i]
    BY <1>0, <2>1, <2>2, <2>3, NewestReplaced
  <2> QED
    BY <1>0, <2>1, <2>2, <2>4 DEF ReportsFit
<1>12. ASSUME NEW i \in DOMAIN quarantine, DeleteQuarantine(i) \/ RetryQuarantineImport(i)
       PROVE  ReportsFit'
  <2>1. OpIdle /\ op' = op
    BY <1>12 DEF DeleteQuarantine, RetryQuarantineImport, SettingsPage
  <2>2. CASE quarantine' = quarantine
    BY <1>1, <2>1, <2>2
  <2>3. CASE quarantine' = RemoveAt(quarantine, i)
    <3>1. \A k \in DOMAIN quarantine' : \E j \in DOMAIN quarantine : quarantine'[k] = quarantine[j]
      BY <1>0, <2>3, OthersRemain
    <3> QED
      BY <1>0, <2>1, <3>1 DEF ReportsFit, OpIdle
  <2> QED
    BY <1>12, <2>2, <2>3 DEF DeleteQuarantine, RetryQuarantineImport
<1> QED
  BY <1>3, <1>4, <1>5, <1>6, <1>7, <1>8, <1>9, <1>10, <1>11, <1>12
     DEF Next, PasswordNext, EnableNext, DisableNext, QuarantineNext

LEMMA TypesAlways ==
  ASSUME TypeInv, [Next]_vars
  PROVE  TypeInv'
<1>1. CASE Next
  BY <1>1, TypesKept, OpFitsKept, SaveFitsKept, KeyFitsKept, ReportsFitKept DEF TypeInv
<1>2. CASE UNCHANGED vars
  BY <1>2 DEF vars, TypeInv, TypeOK, OpFits, SaveFits, KeyFits, ReportsFit, Newest, Lowered, Raised
<1> QED
  BY <1>1, <1>2

(* The program's memory and disk stay what Init and the actions describe:    *)
(* whatever runs beside what and however often the disk refuses, every       *)
(* operation in flight is of its kind.                                       *)
THEOREM SavedTypeCorrect == Spec => []TypeOK
<1>1. TypeInv => TypeOK
  BY DEF TypeInv
<1> QED
  BY <1>1, TypesInitially, TypesAlways, PTL DEF Spec

(* Memory never holds another key than security.json wraps, however the app  *)
(* is locked, unlocked or given another password while a security operation  *)
(* or a save runs: replaceMasterKey always hands over the file's key or none.*)
THEOREM KeyIsTheFiles == Spec => []KeyFits
<1>1. TypeInv => KeyFits
  BY DEF TypeInv
<1> QED
  BY <1>1, TypesInitially, TypesAlways, PTL DEF Spec

-----------------------------------------------------------------------------
(* No save runs beside a security operation.                                 *)

(* A security operation steps while no save is in flight, a save while no    *)
(* operation is; the app may be locked and unlocked beside either.           *)
LEMMA Apart ==
  ASSUME "save" \notin Overlap, TypeInv, Alone, Next
  PROVE  \/ SaveIdle /\ save' = save /\ (PasswordNext \/ EnableNext \/ DisableNext \/ QuarantineNext)
         \/ save' = save /\ op'.pc = op.pc /\ (UnlockApp \/ Lock)
         \/ OpIdle /\ op' = op /\ SaveNext
         \/ Crash
<1> USE DEF Alone, OpIdle, SaveIdle, SettingsPage, disk, steam, history
<1>1. ASSUME UnlockApp \/ Lock
      PROVE  save' = save /\ op'.pc = op.pc
  <2>1. op \in Op
    BY DEF TypeInv, TypeOK
  <2> QED
    BY <1>1, <2>1 DEF UnlockApp, Lock, WipedBuffer, Op
<1>2. ASSUME \/ \E pw \in Passwords : SetAppPassword(pw) \/ ChangePassword(pw)
             \/ Rewrap \/ StorePassword \/ StorePasswordFails
      PROVE  SaveIdle /\ save' = save
  BY <1>2 DEF SetAppPassword, ChangePassword, Rewrap, StorePassword, StorePasswordFails
<1>3. ASSUME EnableNext
      PROVE  SaveIdle /\ save' = save
  BY <1>3 DEF EnableNext, Enable, ScanPlain, RaiseOuter, RaiseOuterFails, RaiseFlag, RaiseFlagFails, Swept,
              WriteBlob, WriteBlobFails, SweepPlain
<1>4. ASSUME DisableNext
      PROVE  SaveIdle /\ save' = save
  BY <1>4 DEF DisableNext, Disable, RemoveAppPassword, ScanBlobs, Extracted, WriteReport, WriteReportFails,
              LowerOuter, LowerOuterFails, LowerFlag, LowerFlagFails, Cleaned, RemoveSecurityFile,
              RemoveSecurityFileFails, Extract, ExtractFails, Quarantine, CleanBlob
<1>5. ASSUME QuarantineNext
      PROVE  SaveIdle /\ save' = save
  BY <1>5 DEF QuarantineNext, DeleteQuarantine, RetryQuarantineImport
<1>6. ASSUME SaveNext
      PROVE  OpIdle /\ op' = op
  BY <1>6 DEF SaveNext, BeginAccountSave, InstallFirst, SetAside, Install, InstallFails, SealSession, DropPlain,
              SaveFails, EnlistAccount, RemoveAccountCache, ForgetAccount, MaySave
<1> QED
  BY <1>1, <1>2, <1>3, <1>4, <1>5, <1>6 DEF Next, PasswordNext

LEMMA AloneKept ==
  ASSUME "save" \notin Overlap, TypeInv, Alone, Next
  PROVE  Alone'
<1>1. CASE Crash
  BY <1>1, NothingTyped DEF Crash, Alone, OpIdle, SaveIdle
<1>2. CASE SaveIdle /\ save' = save
  BY <1>2 DEF Alone, SaveIdle
<1>3. CASE save' = save /\ op'.pc = op.pc
  BY <1>3 DEF Alone, OpIdle, SaveIdle
<1>4. CASE OpIdle /\ op' = op
  BY <1>4 DEF Alone, OpIdle
<1> QED
  BY <1>1, <1>2, <1>3, <1>4, Apart

(* A session that was put out of the way stays there as long as the reports  *)
(* that have it do.                                                          *)
LEMMA StaysBeside ==
  ASSUME NEW a \in Accounts, Beside(a), saved'[a] = saved[a],
         saved[a] \in aside[a] => saved[a] \in aside'[a],
         \A i \in DOMAIN quarantine : Moved(quarantine[i], a) =>
            \E j \in DOMAIN quarantine' : quarantine'[j].blobs[a] = quarantine[i].blobs[a]
  PROVE  Beside(a)'
<1>1. CASE saved[a] \in aside[a]
  BY <1>1 DEF Beside
<1>2. CASE \E i \in DOMAIN quarantine : Moved(quarantine[i], a)
  <2>1. PICK i \in DOMAIN quarantine : Moved(quarantine[i], a)
    BY <1>2
  <2>2. PICK j \in DOMAIN quarantine' : quarantine'[j].blobs[a] = quarantine[i].blobs[a]
    BY <2>1
  <2>3. quarantine'[j].blobs[a] # None /\ quarantine'[j].blobs[a].value = saved'[a]
    BY <2>1, <2>2 DEF Moved
  <2> QED
    BY <2>2, <2>3 DEF Beside, Moved
<1> QED
  BY <1>1, <1>2 DEF Beside

(* A report is written and extended while it is the newest, then only        *)
(* removed as a whole.                                                       *)
LEMMA ReportsStay ==
  ASSUME TypeInv, Next
  PROVE  \/ \A i \in DOMAIN quarantine :
               /\ i \in DOMAIN quarantine'
               /\ quarantine'[i] = quarantine[i] \/ (i = Newest /\ op.pc = "quarantine")
               /\ quarantine'[i].blobs = quarantine[i].blobs \/ \E a \in Accounts : Quarantine(a)
         \/ \E i \in DOMAIN quarantine : (DeleteQuarantine(i) \/ RetryQuarantineImport(i))
                                         /\ quarantine' = RemoveAt(quarantine, i)
<1> USE DEF disk, steam, history
<1>0. quarantine \in Seq(Report) /\ op \in Op /\ ReportsFit
  BY DEF TypeInv, TypeOK
<1> DEFINE Stay == \A i \in DOMAIN quarantine :
                      /\ i \in DOMAIN quarantine'
                      /\ quarantine'[i] = quarantine[i] \/ (i = Newest /\ op.pc = "quarantine")
                      /\ quarantine'[i].blobs = quarantine[i].blobs \/ \E a \in Accounts : Quarantine(a)
<1>1. ASSUME quarantine' = quarantine
      PROVE  Stay
  BY <1>1
<1>2. ASSUME Extracted
      PROVE  Stay
  <2>1. CASE op.failed = {}
    BY <1>2, <2>1 DEF Extracted
  <2>2. CASE op.failed # {}
    <3> DEFINE r == [accounts |-> op.failed, blobs |-> Nothing, opens |-> None]
    <3>1. quarantine' = Append(quarantine, r)
      BY <1>2, <2>2 DEF Extracted
    <3>2. r \in Report
      BY <1>0, NothingTyped DEF Op, Report
    <3> HIDE DEF r
    <3> QED
      BY <1>0, <3>1, <3>2, Reported
  <2> QED
    BY <2>1, <2>2
<1>3. ASSUME WriteReport \/ \E a \in Accounts : Quarantine(a)
      PROVE  Stay
  <2>1. op.pc = "quarantine" /\ quarantine # <<>> /\ quarantine[Newest] \in Report
        /\ blob \in [Accounts -> Blob \cup {None}]
    BY <1>0, <1>3 DEF ReportsFit, Newest, WriteReport, Quarantine, TypeInv, TypeOK
  <2>2. PICK r \in Report :
           /\ quarantine' = quarantine \/ quarantine' = [quarantine EXCEPT ![Newest] = r]
           /\ r.blobs = quarantine[Newest].blobs \/ \E a \in Accounts : Quarantine(a)
    <3>1. CASE WriteReport
      <4> DEFINE r == [quarantine[Newest] EXCEPT !.opens = op.key]
      <4>1. r \in Report /\ r.blobs = quarantine[Newest].blobs
        BY <1>0, <2>1, <3>1, KindAt DEF Report, WriteReport
      <4>2. quarantine' = [quarantine EXCEPT ![Newest] = r]
        BY <3>1 DEF WriteReport
      <4> QED
        BY <4>1, <4>2
    <3>2. ASSUME NEW a \in Accounts, Quarantine(a)
          PROVE  \E r \in Report :
                    /\ quarantine' = quarantine \/ quarantine' = [quarantine EXCEPT ![Newest] = r]
                    /\ \E b \in Accounts : Quarantine(b)
      <4> DEFINE r == [quarantine[Newest] EXCEPT !.blobs = [@ EXCEPT ![a] = blob[a]]]
      <4>1. r \in Report
        BY <2>1 DEF Report
      <4>2. quarantine' = quarantine \/ quarantine' = [quarantine EXCEPT ![Newest] = r]
        BY <3>2 DEF Quarantine
      <4> QED
        BY <3>2, <4>1, <4>2
    <3> QED
      BY <1>3, <3>1, <3>2
  <2> QED
    BY <1>0, <2>1, <2>2, NewestReplaced
<1>4. ASSUME NEW i \in DOMAIN quarantine, DeleteQuarantine(i) \/ RetryQuarantineImport(i)
      PROVE  quarantine' = quarantine \/ quarantine' = RemoveAt(quarantine, i)
  BY <1>4 DEF DeleteQuarantine, RetryQuarantineImport
<1>5. ASSUME PasswordNext \/ EnableNext \/ SaveNext \/ Crash
      PROVE  quarantine' = quarantine
  BY <1>5 DEF PasswordNext, EnableNext, SaveNext, Crash, SetAppPassword, ChangePassword, UnlockApp, Lock, Rewrap,
     StorePassword, StorePasswordFails, Enable, ScanPlain, RaiseOuter, RaiseOuterFails, RaiseFlag,
     RaiseFlagFails, Swept, WriteBlob, WriteBlobFails, SweepPlain, BeginAccountSave, InstallFirst, SetAside,
     Install, InstallFails, SealSession, DropPlain, SaveFails, EnlistAccount, RemoveAccountCache, ForgetAccount
<1>6. ASSUME DisableNext, ~Extracted, ~WriteReport, ~\E a \in Accounts : Quarantine(a)
      PROVE  quarantine' = quarantine
  BY <1>6 DEF DisableNext, Disable, RemoveAppPassword, ScanBlobs, WriteReportFails, LowerOuter, LowerOuterFails,
     LowerFlag, LowerFlagFails, Cleaned, RemoveSecurityFile, RemoveSecurityFileFails, Extract, ExtractFails,
     CleanBlob
<1> HIDE DEF Stay
<1>7. ASSUME QuarantineNext, ~Stay
      PROVE  \E i \in DOMAIN quarantine : (DeleteQuarantine(i) \/ RetryQuarantineImport(i))
                                          /\ quarantine' = RemoveAt(quarantine, i)
  <2>1. PICK i \in DOMAIN quarantine : DeleteQuarantine(i) \/ RetryQuarantineImport(i)
    BY <1>7 DEF QuarantineNext
  <2>2. quarantine' = RemoveAt(quarantine, i)
    BY <1>1, <1>4, <1>7, <2>1
  <2> QED
    BY <2>1, <2>2
<1>8. CASE Stay
  BY <1>8 DEF Stay
<1>9. CASE ~Stay
  <2>1. QuarantineNext
    BY <1>1, <1>2, <1>3, <1>5, <1>6, <1>9 DEF Next
  <2> QED
    BY <1>7, <1>9, <2>1
<1> QED
  BY <1>8, <1>9

LEMMA MishapsGrow ==
  ASSUME TypeInv, Next
  PROVE  mishaps' >= mishaps /\ mishaps \in Nat /\ mishaps' \in Nat
<1> USE DEF disk, steam, history, Mishap, TwoMishaps, Smooth
<1>1. mishaps \in Nat /\ mishaps' \in Nat
  BY TypesKept DEF TypeInv, TypeOK
<1>2. CASE PasswordNext
  <2>1. ASSUME UnlockApp \/ Lock \/ StorePassword
         PROVE  mishaps' >= mishaps
    BY <1>1, <2>1 DEF UnlockApp, Lock, StorePassword
  <2>4. ASSUME NEW pw \in Passwords, SetAppPassword(pw) \/ ChangePassword(pw)
         PROVE  mishaps' >= mishaps
    BY <1>1, <2>4 DEF SetAppPassword, ChangePassword
  <2>2. ASSUME Rewrap
         PROVE  mishaps' >= mishaps
    BY <1>1, <2>2 DEF Rewrap
  <2>3. ASSUME StorePasswordFails
         PROVE  mishaps' >= mishaps
    BY <1>1, <2>3 DEF StorePasswordFails
  <2> QED
    BY <1>1, <1>2, <2>1, <2>2, <2>3, <2>4 DEF PasswordNext
<1>3. CASE EnableNext
  BY <1>1, <1>3 DEF EnableNext, Enable, ScanPlain, RaiseOuter, RaiseOuterFails, RaiseFlag, RaiseFlagFails,
                    Swept, WriteBlob, WriteBlobFails, SweepPlain, RemovePlain
<1>4. CASE DisableNext
  <2>1. ASSUME Disable \/ RemoveAppPassword \/ ScanBlobs \/ Extracted \/ LowerOuter \/ LowerFlag \/ Cleaned \/ RemoveSecurityFile
         PROVE  mishaps' >= mishaps
    BY <1>1, <2>1 DEF Disable, RemoveAppPassword, ScanBlobs, Extracted, LowerOuter, LowerFlag, Cleaned, RemoveSecurityFile
  <2>2. ASSUME WriteReport \/ WriteReportFails
         PROVE  mishaps' >= mishaps
    BY <1>1, <2>2 DEF WriteReport, WriteReportFails
  <2>3. ASSUME LowerOuterFails \/ LowerFlagFails
         PROVE  mishaps' >= mishaps
    BY <1>1, <2>3 DEF LowerOuterFails, LowerFlagFails
  <2>4. ASSUME RemoveSecurityFileFails
         PROVE  mishaps' >= mishaps
    BY <1>1, <2>4 DEF RemoveSecurityFileFails
  <2>5. ASSUME \E a \in Accounts : Extract(a) \/ ExtractFails(a)
         PROVE  mishaps' >= mishaps
    BY <1>1, <2>5 DEF Extract, ExtractFails
  <2>6. ASSUME \E a \in Accounts : Quarantine(a) \/ CleanBlob(a)
         PROVE  mishaps' >= mishaps
    BY <1>1, <2>6 DEF Quarantine, CleanBlob, RemoveBlob
  <2> QED
    BY <1>1, <1>4, <2>1, <2>2, <2>3, <2>4, <2>5, <2>6 DEF DisableNext
<1>5. CASE QuarantineNext
  BY <1>1, <1>5 DEF QuarantineNext, DeleteQuarantine, RetryQuarantineImport
<1>6. CASE SaveNext
  <2>1. ASSUME InstallFirst \/ SetAside \/ Install \/ SealSession \/ EnlistAccount
         PROVE  mishaps' >= mishaps
    BY <1>1, <2>1 DEF InstallFirst, SetAside, Install, SealSession, EnlistAccount
  <2>2. ASSUME NEW a \in Accounts, ForgetAccount(a)
         PROVE  mishaps' >= mishaps
    BY <1>1, <2>2 DEF ForgetAccount
  <2>7. ASSUME NEW a \in Accounts, NEW v \in Values, BeginAccountSave(a, v)
         PROVE  mishaps' >= mishaps
    BY <1>1, <2>7 DEF BeginAccountSave
  <2>3. ASSUME InstallFails
         PROVE  mishaps' >= mishaps
    BY <1>1, <2>3 DEF InstallFails
  <2>4. ASSUME SaveFails
         PROVE  mishaps' >= mishaps
    BY <1>1, <2>4 DEF SaveFails
  <2>5. ASSUME DropPlain
         PROVE  mishaps' >= mishaps
    BY <1>1, <2>5 DEF DropPlain, RemovePlain
  <2>6. ASSUME RemoveAccountCache
         PROVE  mishaps' >= mishaps
    BY <1>1, <2>6 DEF RemoveAccountCache, RemovePlain
  <2> QED
    BY <1>1, <1>6, <2>1, <2>2, <2>3, <2>4, <2>5, <2>6, <2>7 DEF SaveNext
<1>7. CASE Crash
  BY <1>1, <1>7 DEF Crash
<1> QED
  BY <1>1, <1>2, <1>3, <1>4, <1>5, <1>6, <1>7 DEF Next

LEMMA BesideKept ==
  ASSUME TypeInv, OpeningFits, Next, NEW a \in Accounts, Beside(a), saved'[a] = saved[a], saved[a] # None,
         a \notin imported', saved[a] \in aside[a] => saved[a] \in aside'[a]
  PROVE  Beside(a)'
<1>0. quarantine \in Seq(Report) /\ ReportsFit /\ blob \in [Accounts -> Blob \cup {None}]
  BY DEF TypeInv, TypeOK
<1>1. CASE \A i \in DOMAIN quarantine : i \in DOMAIN quarantine' /\ quarantine'[i].blobs = quarantine[i].blobs
  BY <1>1, StaysBeside
<1>2. ASSUME NEW b \in Accounts, Quarantine(b)
      PROVE  Beside(a)'
  <2>1. CASE quarantine' = quarantine
    BY <2>1, StaysBeside
  <2>2. CASE quarantine' = [quarantine EXCEPT ![Newest].blobs[b] = blob[b]]
    <3> DEFINE r == [quarantine[Newest] EXCEPT !.blobs = [@ EXCEPT ![b] = blob[b]]]
    <3>1. quarantine # <<>> /\ quarantine[Newest] \in Report /\ Newest \in DOMAIN quarantine
          /\ quarantine[Newest].blobs[b] = None
      BY <1>0, <1>2 DEF ReportsFit, Newest, Quarantine, OpeningFits
    <3>2. r \in Report /\ (a # b => r.blobs[a] = quarantine[Newest].blobs[a])
      BY <1>0, <3>1 DEF Report
    <3>3. quarantine' = [quarantine EXCEPT ![Newest] = r]
      BY <2>2
    <3> HIDE DEF r
    <3>4. /\ DOMAIN quarantine' = DOMAIN quarantine /\ quarantine'[Newest] = r
          /\ \A i \in DOMAIN quarantine : i # Newest => quarantine'[i] = quarantine[i]
      BY <1>0, <3>1, <3>2, <3>3, NewestReplaced
    <3>5. ASSUME NEW i \in DOMAIN quarantine, Moved(quarantine[i], a)
          PROVE  i \in DOMAIN quarantine' /\ quarantine'[i].blobs[a] = quarantine[i].blobs[a]
      BY <3>1, <3>2, <3>4, <3>5 DEF Moved
    <3> QED
      BY <3>5, StaysBeside
  <2> QED
    BY <1>2, <2>1, <2>2 DEF Quarantine
<1>3. ASSUME NEW i \in DOMAIN quarantine, DeleteQuarantine(i) \/ RetryQuarantineImport(i),
             quarantine' = RemoveAt(quarantine, i)
      PROVE  Beside(a)'
  <2>1. CASE quarantine' = quarantine
    BY <2>1, StaysBeside
  <2>2. CASE quarantine' # quarantine
    <3>1. quarantine[i].blobs[a] = None
      <4>1. CASE DeleteQuarantine(i)
        BY <4>1 DEF DeleteQuarantine
      <4>2. CASE RetryQuarantineImport(i)
        <5>1. imported' = imported \cup quarantine[i].accounts
          BY <2>2, <4>2 DEF RetryQuarantineImport, Import
        <5> QED
          BY <1>0, <5>1 DEF ReportsFit
      <4> QED
        BY <1>3, <4>1, <4>2
    <3>2. \A j \in DOMAIN quarantine \ {i} : \E k \in DOMAIN quarantine' : quarantine'[k] = quarantine[j]
      BY <1>0, <1>3, OthersRemain
    <3>3. \A j \in DOMAIN quarantine : Moved(quarantine[j], a) =>
             \E k \in DOMAIN quarantine' : quarantine'[k].blobs[a] = quarantine[j].blobs[a]
      BY <3>1, <3>2 DEF Moved
    <3> QED
      BY <3>3, StaysBeside
  <2> QED
    BY <2>1, <2>2
<1> QED
  BY <1>1, <1>2, <1>3, ReportsStay

(* Where the flag stands at each stage.                                      *)
LEMMA FlagAt ==
  ASSUME TypeInv
  PROVE  /\ op.pc \in {"blobs", "raise", "clean", "unset"} => ~Encrypted /\ file # None
         /\ op.pc \in {"sweep", "extract", "quarantine", "lower", "unraise", "undo"} => Encrypted
         /\ file # None => file \in SecurityFile /\ file.key \in Keys /\ file.key # Wiped /\ file.key # None
         /\ Encrypted => file # None
  BY DEF TypeInv, TypeOK, OpFits, Lowered, Raised, Encrypted, SecurityFile

(* What keeps a copy of an account's session where the flag looks for it.    *)
LEMMA KeptStays ==
  ASSUME TypeInv, OpeningFits, Next, NEW a \in Accounts, Kept(a), saved[a] # None, a \notin imported',
         saved'[a] = saved[a], saved[a] \in aside[a] => saved[a] \in aside'[a],
         Encrypted' = Encrypted,
         ~Encrypted => plain'[a] = plain[a],
         Encrypted => /\ blob'[a] = blob[a] /\ file'.key = file.key
                      /\ outer = Wiped => outer' = Wiped
  PROVE  Kept(a)'
<1>1. CASE Beside(a)
  BY <1>1, BesideKept DEF Kept
<1>2. CASE ~Encrypted /\ plain[a] = saved[a]
  BY <1>2 DEF Kept
<1>3. CASE Encrypted /\ InBlob(a) /\ (blob[a].key = file.key \/ outer = Wiped)
  BY <1>3 DEF Kept, InBlob
<1> QED
  BY <1>1, <1>2, <1>3 DEF Kept

(* Actions that touch no copy; actions that touch only blobs, with the flag  *)
(* down; and actions that touch only directories, with the flag up.          *)
Quiet == \/ UnlockApp \/ Lock \/ Rewrap \/ StorePassword \/ StorePasswordFails \/ Enable \/ ScanPlain \/ Swept
         \/ Disable \/ RemoveAppPassword \/ ScanBlobs \/ Extracted \/ WriteReportFails
         \/ LowerOuter \/ LowerOuterFails \/ LowerFlagFails \/ Cleaned
         \/ RemoveSecurityFile \/ RemoveSecurityFileFails \/ SaveFails \/ Crash
         \/ \E pw \in Passwords : SetAppPassword(pw) \/ ChangePassword(pw)
         \/ \E a \in Accounts, v \in Values : BeginAccountSave(a, v)

LEMMA CopiesUntouched ==
  ASSUME TypeInv, OpeningFits, Next, Quiet
  PROVE  /\ UNCHANGED <<plain, aside, blob, listed, saved, imported>>
         /\ Encrypted' = Encrypted
         /\ Encrypted => file'.key = file.key /\ (outer = Wiped => outer' = Wiped)
<1> USE DEF disk, steam, history
<1> DEFINE Untouched == UNCHANGED <<plain, aside, blob, listed, saved, imported>>
           Flagged == Encrypted' = Encrypted /\ (Encrypted => file'.key = file.key)
<1>1. ASSUME file' = file
      PROVE  Flagged
  BY <1>1 DEF Encrypted
<1>2. ASSUME NEW pw \in Passwords, SetAppPassword(pw)
      PROVE  Untouched /\ Flagged /\ outer' = outer
  <2>1. PICK key \in Keys : file' = [password |-> pw, key |-> key, encrypted |-> FALSE]
    BY <1>2 DEF SetAppPassword
  <2> QED
    BY <1>2, <2>1 DEF SetAppPassword, Encrypted
<1>3. ASSUME UnlockApp
      PROVE  Untouched /\ Flagged /\ (Encrypted /\ outer = Wiped => outer' = Wiped)
  <2>1. Encrypted => outer # Wiped
    BY <1>3, FlagAt DEF UnlockApp, Encrypted, OuterAccepts
  <2> QED
    BY <1>1, <1>3, <2>1 DEF UnlockApp
<1>4. ASSUME StorePassword
      PROVE  Untouched /\ Flagged /\ outer' = outer
  <2>1. file \in SecurityFile /\ file # None /\ file' = [file EXCEPT !.password = op.new] /\ file' # None
    BY <1>4, KindAt, TypesKept DEF StorePassword, TypeOK, TypeInv, OpFits, SecurityFile
  <2> QED
    BY <1>4, <2>1 DEF StorePassword, Encrypted, SecurityFile
<1>5. ASSUME RemoveSecurityFile
      PROVE  Untouched /\ Flagged /\ outer' = outer
  BY <1>5, FlagAt DEF RemoveSecurityFile, Encrypted
<1>6. ASSUME LowerOuter
      PROVE  Untouched /\ Flagged /\ outer # Wiped
  BY <1>1, <1>6, KindAt, FlagAt DEF LowerOuter, OuterAccepts
<1>7. ASSUME LowerFlagFails
      PROVE  Untouched /\ Flagged /\ outer # Wiped
  BY <1>1, <1>7 DEF LowerFlagFails, OpeningFits
<1>8. ASSUME \/ Lock \/ Rewrap \/ StorePasswordFails \/ Enable \/ ScanPlain \/ Swept \/ Cleaned \/ SaveFails \/ Crash
             \/ \E pw \in Passwords : ChangePassword(pw)
      PROVE  Untouched /\ Flagged /\ outer' = outer
  BY <1>1, <1>8 DEF Lock, Rewrap, StorePasswordFails, Enable, ScanPlain, Swept, Cleaned, SaveFails, Crash, ChangePassword
<1>9. ASSUME \/ Disable \/ RemoveAppPassword \/ ScanBlobs \/ Extracted \/ WriteReportFails \/ LowerOuterFails
             \/ RemoveSecurityFileFails
             \/ \E a \in Accounts, v \in Values : BeginAccountSave(a, v)
      PROVE  Untouched /\ Flagged /\ outer' = outer
  BY <1>1, <1>9 DEF Disable, RemoveAppPassword, ScanBlobs, Extracted, WriteReportFails, LowerOuterFails,
                    RemoveSecurityFileFails, BeginAccountSave
<1> HIDE DEF Untouched, Flagged
<1>10. Untouched /\ Flagged /\ (Encrypted /\ outer = Wiped => outer' = Wiped)
  BY <1>2, <1>3, <1>4, <1>5, <1>6, <1>7, <1>8, <1>9 DEF Quiet
<1> QED
  BY <1>10 DEF Untouched, Flagged

LEMMA BlobsTouched ==
  ASSUME TypeInv,
         \/ RaiseOuter \/ RaiseOuterFails \/ RaiseFlagFails
         \/ \E a \in Accounts : WriteBlob(a) \/ WriteBlobFails(a) \/ CleanBlob(a)
  PROVE  UNCHANGED <<file, plain, aside, listed, saved, imported>> /\ ~Encrypted
<1> USE DEF disk, steam, history
<1>1. CASE RaiseOuter \/ RaiseOuterFails \/ RaiseFlagFails
  BY <1>1, FlagAt DEF RaiseOuter, RaiseOuterFails, RaiseFlagFails
<1>2. ASSUME NEW a \in Accounts, WriteBlob(a) \/ WriteBlobFails(a) \/ CleanBlob(a)
      PROVE  UNCHANGED <<file, plain, aside, listed, saved, imported>> /\ ~Encrypted
  BY <1>2, FlagAt DEF WriteBlob, WriteBlobFails, CleanBlob
<1> QED
  BY <1>1, <1>2

LEMMA PlainTouched ==
  ASSUME TypeInv, SavingFits,
         \/ DropPlain
         \/ \E a \in Accounts : SweepPlain(a) \/ Extract(a) \/ ExtractFails(a)
  PROVE  UNCHANGED <<file, aside, blob, outer, listed, saved, imported>> /\ Encrypted
<1> USE DEF disk, steam, history
<1>1. CASE DropPlain
  BY <1>1 DEF DropPlain, SavingFits
<1>2. ASSUME NEW a \in Accounts, SweepPlain(a) \/ Extract(a) \/ ExtractFails(a)
      PROVE  UNCHANGED <<file, aside, blob, outer, listed, saved, imported>> /\ Encrypted
  BY <1>2, FlagAt DEF SweepPlain, Extract, ExtractFails
<1> QED
  BY <1>1, <1>2

(* The copy outlives the step of the flag in either direction.               *)
LEMMA FlagRaised ==
  ASSUME TypeInv, SealingFits, OpeningFits, Standing, RaiseFlag, Next
  PROVE  Standing'
<1>1. /\ file \in SecurityFile /\ file' = [file EXCEPT !.encrypted = TRUE] /\ ~Encrypted
      /\ UNCHANGED <<plain, aside, blob, outer, listed, saved, imported>>
  BY FlagAt DEF RaiseFlag, steam, history
<1>2. Encrypted' /\ file'.key = file.key
  BY <1>1 DEF Encrypted, SecurityFile
<1>3. ASSUME NEW a \in Accounts, Owed(a)'
      PROVE  Kept(a)'
  <2>1. Owed(a) /\ Kept(a)
    BY <1>1, <1>3 DEF Owed, Standing
  <2>2. CASE Beside(a)
    BY <1>1, <2>1, <2>2, BesideKept DEF Owed, Kept
  <2>3. CASE plain[a] = saved[a]
    <3>1. a \in op.done
      BY <2>1, <2>3 DEF SealingFits, RaiseFlag, Owed
    <3>2. InBlob(a) /\ (blob[a].key = file.key \/ outer = Wiped)
      BY <2>3, <3>1 DEF SealingFits, RaiseFlag, InBlob
    <3> QED
      BY <1>1, <1>2, <3>2 DEF Kept, InBlob
  <2> QED
    BY <1>1, <2>1, <2>2, <2>3 DEF Kept
<1> QED
  BY <1>3 DEF Standing

LEMMA FlagLowered ==
  ASSUME TypeInv, OpeningFits, Standing, mishaps <= 2, LowerFlag, Next
  PROVE  Standing'
<1>1. /\ file \in SecurityFile /\ file' = [file EXCEPT !.encrypted = FALSE] /\ Encrypted /\ mishaps \in Nat
      /\ UNCHANGED <<plain, aside, blob, outer, listed, saved, imported>>
  BY FlagAt DEF LowerFlag, steam, history, TypeInv, TypeOK
<1>2. ~Encrypted'
  BY <1>1 DEF Encrypted, SecurityFile
<1>3. ASSUME NEW a \in Accounts, Owed(a)'
      PROVE  Kept(a)'
  <2>1. Owed(a) /\ Kept(a)
    BY <1>1, <1>3 DEF Owed, Standing
  <2>2. CASE Beside(a)
    BY <1>1, <2>1, <2>2, BesideKept DEF Owed, Kept
  <2>3. CASE InBlob(a) /\ (blob[a].key = file.key \/ outer = Wiped)
    <3>1. a \in op.accounts /\ Decrypts(a, file.key)
      BY <2>1, <2>3 DEF OpeningFits, LowerFlag, Owed, InBlob, Decrypts
    <3>2. a \notin op.failed
      BY <1>1, <2>1, <3>1 DEF OpeningFits, LowerFlag, Owed, Cost
    <3>3. plain[a] = blob[a].value
      BY <3>1, <3>2 DEF OpeningFits, LowerFlag, Opened
    <3> QED
      BY <1>1, <1>2, <2>3, <3>3 DEF Kept, InBlob
  <2> QED
    BY <1>1, <2>1, <2>2, <2>3 DEF Kept
<1> QED
  BY <1>3 DEF Standing

(* A blob that moves into the quarantine keeps the session beside.           *)
LEMMA MovedIsBeside ==
  ASSUME TypeInv, OpeningFits, Next, NEW b \in Accounts, Quarantine(b)
  PROVE  /\ UNCHANGED <<file, plain, aside, outer, listed, saved, imported>> /\ Encrypted
         /\ \A a \in Accounts \ {b} : blob'[a] = blob[a]
         /\ blob' = blob \/ (InBlob(b) => Beside(b)')
<1>0. quarantine \in Seq(Report) /\ ReportsFit /\ blob \in [Accounts -> Blob \cup {None}]
  BY DEF TypeInv, TypeOK
<1>1. UNCHANGED <<file, plain, aside, outer, listed, saved, imported>> /\ Encrypted
  BY FlagAt DEF Quarantine, steam, history
<1>2. \A a \in Accounts \ {b} : blob'[a] = blob[a]
  BY <1>0 DEF Quarantine
<1>3. ASSUME blob' # blob, InBlob(b)
      PROVE  Beside(b)'
  <2>1. quarantine' = [quarantine EXCEPT ![Newest].blobs[b] = blob[b]]
    BY <1>3 DEF Quarantine
  <2>2. quarantine # <<>> /\ quarantine[Newest] \in Report /\ Newest \in DOMAIN quarantine
    BY <1>0 DEF ReportsFit, Newest, Quarantine
  <2>3. Newest \in DOMAIN quarantine' /\ quarantine'[Newest].blobs[b] = blob[b]
    BY <1>0, <2>1, <2>2 DEF Report
  <2> HIDE DEF Newest
  <2>4. \E i \in DOMAIN quarantine' : quarantine'[i].blobs[b] = blob[b]
    BY <2>3
  <2> QED
    BY <1>1, <1>3, <2>4 DEF Beside, Moved, InBlob
<1> QED
  BY <1>1, <1>2, <1>3

LEMMA BlobMoved ==
  ASSUME TypeInv, OpeningFits, Standing, Next, NEW b \in Accounts, Quarantine(b)
  PROVE  Standing'
<1>1. /\ UNCHANGED <<file, plain, aside, outer, listed, saved, imported>> /\ Encrypted
      /\ \A a \in Accounts \ {b} : blob'[a] = blob[a]
      /\ blob' = blob \/ (InBlob(b) => Beside(b)')
  BY MovedIsBeside
<1>2. Encrypted'
  BY <1>1 DEF Encrypted
<1>3. ASSUME NEW a \in Accounts, Owed(a)'
      PROVE  Kept(a)'
  <2>1. Owed(a) /\ Kept(a)
    BY <1>1, <1>3 DEF Owed, Standing
  <2>2. CASE blob'[a] = blob[a]
    BY <1>1, <1>2, <2>1, <2>2, KeptStays DEF Owed
  <2>3. CASE a = b /\ blob' # blob
    <3>1. CASE Beside(a)
      BY <1>1, <2>1, <3>1, BesideKept DEF Owed, Kept
    <3>2. CASE InBlob(a)
      BY <1>1, <2>3, <3>2 DEF Kept
    <3> QED
      BY <1>1, <2>1, <3>1, <3>2 DEF Kept
  <2> QED
    BY <1>1, <2>2, <2>3
<1> QED
  BY <1>3 DEF Standing

(* What a retry brings back counts as imported, and nothing else moves.      *)
LEMMA ImportedOnly ==
  ASSUME TypeInv, NEW i \in DOMAIN quarantine, RetryQuarantineImport(i)
  PROVE  /\ UNCHANGED <<file, aside, blob, outer, saved>> /\ OpIdle /\ op' = op
         /\ listed \subseteq listed' /\ imported \subseteq imported'
         /\ listed' \subseteq listed \cup imported'
         /\ \A a \in Accounts : a \notin imported' => plain'[a] = plain[a]
<1>1. UNCHANGED <<file, aside, blob, outer, saved, op>> /\ OpIdle
  BY DEF RetryQuarantineImport, SettingsPage, steam
<1>2. CASE \E done \in SUBSET Accounts : Import(quarantine[i], done)
  BY <1>1, <1>2 DEF Import
<1>3. CASE \E done \in SUBSET Imports(quarantine[i]), stuck \in Imports(quarantine[i]), left \in {None, Torn} :
             /\ plain' = [a \in Accounts |-> IF a = stuck THEN left
                             ELSE IF a \in done THEN quarantine[i].blobs[a].value ELSE plain[a]]
             /\ listed' = listed \cup (done \ {stuck})
             /\ imported' = imported \cup done \cup {stuck}
  BY <1>1, <1>3
<1>4. quarantine[i].accounts \in SUBSET Accounts /\ Imports(quarantine[i]) \in SUBSET Accounts
  <2>1. quarantine[i] \in Report
    BY DEF TypeInv, TypeOK
  <2> QED
    BY <2>1 DEF Report, Imports
<1> QED
  BY <1>1, <1>2, <1>3, <1>4 DEF RetryQuarantineImport

LEMMA QuarantinesLeft ==
  ASSUME TypeInv, OpeningFits, Standing, Next, NEW i \in DOMAIN quarantine,
         DeleteQuarantine(i) \/ RetryQuarantineImport(i)
  PROVE  Standing'
<1>1. ASSUME NEW a \in Accounts, Owed(a)'
      PROVE  /\ Owed(a) /\ saved'[a] = saved[a] /\ aside' = aside /\ Encrypted' = Encrypted
             /\ plain'[a] = plain[a] /\ blob' = blob /\ file' = file /\ outer' = outer
  <2>1. CASE DeleteQuarantine(i)
    BY <1>1, <2>1 DEF DeleteQuarantine, steam, Owed, Encrypted
  <2>2. CASE RetryQuarantineImport(i)
    BY <1>1, <2>2, ImportedOnly DEF Owed, Encrypted
  <2> QED
    BY <2>1, <2>2
<1>2. ASSUME NEW a \in Accounts, Owed(a)'
      PROVE  Kept(a)'
  <2>1. Kept(a) /\ a \notin imported' /\ saved[a] # None
    BY <1>1, <1>2 DEF Standing, Owed
  <2> QED
    BY <1>1, <1>2, <2>1, KeptStays
<1> QED
  BY <1>2 DEF Standing

(* A save in flight changes what is kept of its own account only.            *)
SaveSteps == InstallFirst \/ SetAside \/ Install \/ InstallFails \/ SealSession \/ DropPlain \/ SaveFails
             \/ EnlistAccount \/ RemoveAccountCache

LEMMA SaveTouches ==
  ASSUME TypeInv, SaveSteps
  PROVE  /\ UNCHANGED <<file, quarantine, outer, op>> /\ save.account \in Accounts
         /\ \A a \in Accounts \ {save.account} :
               /\ plain'[a] = plain[a] /\ aside'[a] = aside[a] /\ blob'[a] = blob[a] /\ saved'[a] = saved[a]
               /\ a \in listed' <=> a \in listed
               /\ a \in imported' <=> a \in imported
<1> USE DEF disk, steam, history
<1>0. TypeOK /\ SaveFits
  BY DEF TypeInv
<1>1. save.account \in Accounts
  BY <1>0 DEF SaveFits, SaveSteps, InstallFirst, SetAside, Install, InstallFails, SealSession, DropPlain, SaveFails,
              EnlistAccount, RemoveAccountCache
<1>2. CASE InstallFirst
  BY <1>0, <1>1, <1>2 DEF InstallFirst, SavedIfListed, NowSaved, TypeOK
<1>3. CASE SetAside
  BY <1>0, <1>1, <1>3 DEF SetAside, TypeOK
<1>4. CASE Install
  BY <1>0, <1>1, <1>4 DEF Install, DropBackup, SavedIfListed, NowSaved, TypeOK
<1>5. CASE InstallFails
  BY <1>0, <1>1, <1>5 DEF InstallFails, DropBackup, TypeOK
<1>6. CASE SealSession
  BY <1>0, <1>1, <1>6 DEF SealSession, SavedIfListed, NowSaved, TypeOK
<1>7. CASE DropPlain
  BY <1>0, <1>1, <1>7 DEF DropPlain, RemovePlain, TypeOK
<1>8. CASE SaveFails
  BY <1>1, <1>8 DEF SaveFails
<1>9. CASE EnlistAccount
  BY <1>0, <1>1, <1>9 DEF EnlistAccount, NowSaved, TypeOK
<1>10. CASE RemoveAccountCache
  <2>1. UNCHANGED <<file, quarantine, outer, op, aside, listed, saved, imported>>
    BY <1>10 DEF RemoveAccountCache
  <2>2. \A a \in Accounts \ {save.account} : plain'[a] = plain[a] /\ blob'[a] = blob[a]
    BY <1>0, <1>10 DEF RemoveAccountCache, RemovePlain, TypeOK
  <2> QED
    BY <1>1, <2>1, <2>2
<1> QED
  BY <1>2, <1>3, <1>4, <1>5, <1>6, <1>7, <1>8, <1>9, <1>10 DEF SaveSteps

(* What a step of a save does to its account.                                *)
LEMMA SaveSays ==
  ASSUME TypeInv, SaveSteps, NEW a \in Accounts, a = save.account
  PROVE  /\ InstallFirst => /\ save.pc = "staged" /\ ~save.encrypted /\ plain[a] = None
                            /\ plain'[a] = save.value /\ UNCHANGED <<aside, blob, listed>>
         /\ SetAside => /\ save.pc = "staged" /\ ~save.encrypted /\ plain'[a] = None
                        /\ aside'[a] = aside[a] \cup {plain[a]} /\ plain[a] # None
                        /\ UNCHANGED <<blob, listed, saved, imported>>
         /\ Install => /\ save.pc = "install" /\ plain'[a] = save.value /\ UNCHANGED <<blob, listed>>
                       /\ aside'[a] = aside[a] \ {save.backup}
         /\ InstallFails => /\ save.pc = "install" /\ UNCHANGED <<blob, listed, saved, imported>>
                            /\ \/ plain' = plain /\ aside' = aside
                               \/ plain'[a] = save.backup /\ aside'[a] = aside[a] \ {save.backup}
         /\ SealSession => /\ save.pc = "staged" /\ save.encrypted /\ file # None
                           /\ blob'[a] = [value |-> save.value, key |-> file.key]
                           /\ UNCHANGED <<plain, aside, listed>>
         /\ InstallFirst \/ Install \/ SealSession =>
               IF a \in listed THEN saved'[a] = save.value /\ imported' = imported \ {a}
               ELSE UNCHANGED <<saved, imported>>
         /\ DropPlain => save.pc = "dropplain" /\ UNCHANGED <<aside, blob, listed, saved, imported>>
         /\ EnlistAccount => /\ save.pc = "enlist" /\ UNCHANGED <<plain, aside, blob>>
                             /\ listed' = listed \cup {a} /\ saved'[a] = save.value /\ imported' = imported \ {a}
         /\ RemoveAccountCache => save.pc = "purge" /\ UNCHANGED <<aside, listed, saved, imported>>
<1> USE DEF disk, steam, history
<1>0. TypeOK
  BY DEF TypeInv
<1>1. InstallFirst => /\ save.pc = "staged" /\ ~save.encrypted /\ plain[a] = None
                      /\ plain'[a] = save.value /\ UNCHANGED <<aside, blob, listed>>
  BY <1>0 DEF InstallFirst, TypeOK
<1>2. SetAside => /\ save.pc = "staged" /\ ~save.encrypted /\ plain'[a] = None
                  /\ aside'[a] = aside[a] \cup {plain[a]} /\ plain[a] # None
                  /\ UNCHANGED <<blob, listed, saved, imported>>
  BY <1>0 DEF SetAside, TypeOK
<1>3. Install => /\ save.pc = "install" /\ plain'[a] = save.value /\ UNCHANGED <<blob, listed>>
                 /\ aside'[a] = aside[a] \ {save.backup}
  BY <1>0 DEF Install, DropBackup, TypeOK
<1>4. InstallFails => /\ save.pc = "install" /\ UNCHANGED <<blob, listed, saved, imported>>
                      /\ \/ plain' = plain /\ aside' = aside
                         \/ plain'[a] = save.backup /\ aside'[a] = aside[a] \ {save.backup}
  BY <1>0 DEF InstallFails, DropBackup, TypeOK
<1>5. SealSession => /\ save.pc = "staged" /\ save.encrypted /\ file # None
                     /\ blob'[a] = [value |-> save.value, key |-> file.key]
                     /\ UNCHANGED <<plain, aside, listed>>
  BY <1>0 DEF SealSession, TypeOK, TypeInv, KeyFits
<1>6. InstallFirst \/ Install \/ SealSession =>
         IF a \in listed THEN saved'[a] = save.value /\ imported' = imported \ {a}
         ELSE UNCHANGED <<saved, imported>>
  BY <1>0 DEF InstallFirst, Install, SealSession, SavedIfListed, NowSaved, TypeOK
<1>7. DropPlain => save.pc = "dropplain" /\ UNCHANGED <<aside, blob, listed, saved, imported>>
  BY DEF DropPlain
<1>8. EnlistAccount => /\ save.pc = "enlist" /\ UNCHANGED <<plain, aside, blob>>
                       /\ listed' = listed \cup {a} /\ saved'[a] = save.value /\ imported' = imported \ {a}
  BY <1>0 DEF EnlistAccount, NowSaved, TypeOK
<1>9. RemoveAccountCache => save.pc = "purge" /\ UNCHANGED <<aside, listed, saved, imported>>
  BY DEF RemoveAccountCache
<1> QED
  BY <1>1, <1>2, <1>3, <1>4, <1>5, <1>6, <1>7, <1>8, <1>9

LEMMA SaveKeeps ==
  ASSUME TypeInv, OpeningFits, SavingFits, Standing, Next, SaveSteps
  PROVE  Standing'
<1>1. /\ UNCHANGED <<file, quarantine, outer, op>> /\ save.account \in Accounts
      /\ Encrypted' = Encrypted
  BY SaveTouches DEF Encrypted
<1>2. ASSUME NEW a \in Accounts \ {save.account}, Owed(a)'
      PROVE  Kept(a)'
  <2>1. /\ plain'[a] = plain[a] /\ aside'[a] = aside[a] /\ blob'[a] = blob[a] /\ saved'[a] = saved[a]
        /\ a \in listed' <=> a \in listed
        /\ a \in imported' <=> a \in imported
    BY SaveTouches
  <2>2. Owed(a) /\ Kept(a)
    BY <1>2, <2>1 DEF Owed, Standing
  <2> QED
    BY <1>1, <1>2, <2>1, <2>2, KeptStays DEF Owed
<1>3. ASSUME NEW a \in Accounts, a = save.account, Owed(a)'
      PROVE  Kept(a)'
  <2>0. a \in listed' /\ a \notin imported' /\ saved'[a] # None
    BY <1>3 DEF Owed
  <2>1. CASE InstallFirst \/ Install
    <3>1. ~Encrypted /\ plain'[a] = save.value /\ UNCHANGED <<blob, listed>>
      BY <1>3, <2>1, SaveSays DEF SavingFits
    <3>2. saved'[a] = save.value
      BY <1>3, <2>0, <2>1, <3>1, SaveSays
    <3> QED
      BY <1>1, <3>1, <3>2 DEF Kept
  <2>2. CASE SetAside
    <3>1. ~Encrypted /\ aside'[a] = aside[a] \cup {plain[a]} /\ UNCHANGED <<blob, listed, saved, imported>>
      BY <1>3, <2>2, SaveSays DEF SavingFits
    <3>2. Kept(a) /\ saved[a] # None
      BY <1>3, <3>1 DEF Standing, Owed
    <3>3. CASE Beside(a)
      BY <1>3, <2>0, <3>1, <3>2, <3>3, BesideKept DEF Kept
    <3>4. CASE plain[a] = saved[a]
      BY <3>1, <3>4 DEF Kept, Beside
    <3> QED
      BY <3>1, <3>2, <3>3, <3>4 DEF Kept
  <2>3. CASE InstallFails
    <3>1. /\ ~Encrypted /\ UNCHANGED <<blob, listed, saved, imported>> /\ plain[a] = None
          /\ \/ plain' = plain /\ aside' = aside
             \/ plain'[a] = save.backup /\ aside'[a] = aside[a] \ {save.backup}
      BY <1>3, <2>3, SaveSays DEF SavingFits
    <3>2. Kept(a) /\ saved[a] # None
      BY <1>3, <3>1 DEF Standing, Owed
    <3>3. Beside(a)
      BY <3>1, <3>2 DEF Kept
    <3>4. CASE plain'[a] = saved[a]
      BY <1>1, <3>1, <3>4 DEF Kept
    <3>5. CASE plain'[a] # saved[a]
      BY <1>3, <2>0, <3>1, <3>2, <3>3, <3>5, BesideKept DEF Kept
    <3> QED
      BY <3>4, <3>5
  <2>4. CASE SealSession
    <3>1. Encrypted /\ blob'[a] = [value |-> save.value, key |-> file.key] /\ listed' = listed
      BY <1>3, <2>4, SaveSays DEF SavingFits
    <3>2. saved'[a] = save.value /\ blob'[a] \in Blob \cup {None} /\ file.key \in Keys
      BY <1>3, <2>0, <2>4, <3>1, SaveSays, FlagAt, TypesKept DEF TypeOK
    <3>3. blob'[a] # None
      <4>1. save.value \in Values
        BY <1>3, <2>4, SaveSays DEF TypeInv, SaveFits
      <4>2. blob'[a] \in Blob
        BY <3>1, <3>2, <4>1 DEF Blob
      <4> QED
        BY <4>2
    <3> QED
      BY <1>1, <3>1, <3>2, <3>3 DEF Kept, InBlob
  <2>5. CASE DropPlain
    <3>1. Encrypted /\ UNCHANGED <<aside, blob, listed, saved, imported>>
      BY <1>3, <2>5, SaveSays DEF SavingFits
    <3>2. Kept(a) /\ saved[a] # None
      BY <1>3, <3>1 DEF Standing, Owed
    <3> QED
      BY <1>1, <2>0, <3>1, <3>2, KeptStays
  <2>6. CASE SaveFails
    <3>1. UNCHANGED <<plain, aside, blob, listed, saved, imported>>
      BY <2>6 DEF SaveFails, disk, history
    <3>2. Kept(a) /\ saved[a] # None
      BY <1>3, <3>1 DEF Standing, Owed
    <3> QED
      BY <1>1, <2>0, <3>1, <3>2, KeptStays
  <2>7. CASE EnlistAccount
    <3>1. saved'[a] = save.value /\ UNCHANGED <<plain, aside, blob>> /\ save.pc = "enlist"
      BY <1>3, <2>7, SaveSays
    <3>2. CASE ~Encrypted
      BY <1>1, <1>3, <3>1, <3>2 DEF SavingFits, Kept
    <3>3. CASE Encrypted
      <4>1. blob[a] = [value |-> save.value, key |-> file.key] /\ file.key \in Keys /\ save.value \in Values
        BY <1>3, <3>1, <3>3, FlagAt DEF SavingFits, TypeInv, SaveFits
      <4>2. blob[a] \in Blob
        BY <4>1 DEF Blob
      <4> QED
        BY <1>1, <3>1, <3>3, <4>1, <4>2 DEF Kept, InBlob
    <3> QED
      BY <3>2, <3>3
  <2>8. CASE RemoveAccountCache
    BY <1>3, <2>0, <2>8, SaveSays DEF SavingFits
  <2> QED
    BY <2>1, <2>2, <2>3, <2>4, <2>5, <2>6, <2>7, <2>8 DEF SaveSteps
<1> QED
  BY <1>1, <1>2, <1>3 DEF Standing

(* Saves that begin, accounts that are forgotten.                            *)
LEMMA ForgetKeeps ==
  ASSUME TypeInv, OpeningFits, Standing, Next, NEW b \in Accounts, ForgetAccount(b)
  PROVE  Standing'
<1>1. /\ UNCHANGED <<file, plain, aside, blob, quarantine, outer, imported>> /\ Encrypted' = Encrypted
      /\ listed' = listed \ {b} /\ saved' = [saved EXCEPT ![b] = None]
  BY DEF ForgetAccount, steam, Encrypted
<1>2. ASSUME NEW a \in Accounts, Owed(a)'
      PROVE  Kept(a)'
  <2>1. a # b /\ saved'[a] = saved[a]
    BY <1>1, <1>2 DEF Owed, TypeInv, TypeOK
  <2>2. Owed(a) /\ Kept(a)
    BY <1>1, <1>2, <2>1 DEF Owed, Standing
  <2> QED
    BY <1>1, <1>2, <2>1, <2>2, KeptStays DEF Owed
<1> QED
  BY <1>2 DEF Standing

LEMMA StandingKept ==
  ASSUME TypeInv, SealingFits, OpeningFits, SavingFits, Standing, mishaps <= 2, Next
  PROVE  Standing'
<1>1. ASSUME UNCHANGED <<plain, aside, blob, saved, imported>>,
             Encrypted' = Encrypted,
             Encrypted => file'.key = file.key /\ (outer = Wiped => outer' = Wiped),
             listed' \subseteq listed
      PROVE  Standing'
  <2>1. ASSUME NEW a \in Accounts, Owed(a)'
        PROVE  Kept(a)'
    <3>1. Owed(a) /\ Kept(a)
      BY <1>1, <2>1 DEF Owed, Standing
    <3> QED
      BY <1>1, <2>1, <3>1, KeptStays DEF Owed
  <2> QED
    BY <2>1 DEF Standing
<1>2. ASSUME UNCHANGED <<file, plain, aside, listed, saved, imported>>, ~Encrypted
      PROVE  Standing'
  <2>1. ASSUME NEW a \in Accounts, Owed(a)'
        PROVE  Kept(a)'
    <3>1. Owed(a) /\ Kept(a) /\ Encrypted' = Encrypted
      BY <1>2, <2>1 DEF Owed, Standing, Encrypted
    <3> QED
      BY <1>2, <2>1, <3>1, KeptStays DEF Owed
  <2> QED
    BY <2>1 DEF Standing
<1>3. ASSUME UNCHANGED <<file, aside, blob, outer, listed, saved, imported>>, Encrypted
      PROVE  Standing'
  <2>1. ASSUME NEW a \in Accounts, Owed(a)'
        PROVE  Kept(a)'
    <3>1. Owed(a) /\ Kept(a) /\ Encrypted' = Encrypted
      BY <1>3, <2>1 DEF Owed, Standing, Encrypted
    <3> QED
      BY <1>3, <2>1, <3>1, KeptStays DEF Owed
  <2> QED
    BY <2>1 DEF Standing
<1>4. CASE Quiet
  BY <1>1, <1>4, CopiesUntouched
<1>5. CASE WriteReport
  <2>1. listed' \subseteq listed
    BY <1>5 DEF WriteReport, OpeningFits, TypeInv, OpFits
  <2>2. UNCHANGED <<file, plain, aside, blob, outer, saved, imported>>
    BY <1>5 DEF WriteReport, steam, history
  <2> QED
    BY <1>1, <2>1, <2>2 DEF Encrypted
<1>6. CASE \/ RaiseOuter \/ RaiseOuterFails \/ RaiseFlagFails
           \/ \E a \in Accounts : WriteBlob(a) \/ WriteBlobFails(a) \/ CleanBlob(a)
  BY <1>2, <1>6, BlobsTouched
<1>7. CASE \E a \in Accounts : SweepPlain(a) \/ Extract(a) \/ ExtractFails(a)
  BY <1>3, <1>7, PlainTouched
<1>8. CASE RaiseFlag
  BY <1>8, FlagRaised
<1>9. CASE LowerFlag
  BY <1>9, FlagLowered
<1>10. CASE \E b \in Accounts : Quarantine(b)
  BY <1>10, BlobMoved
<1>11. CASE QuarantineNext
  BY <1>11, QuarantinesLeft DEF QuarantineNext
<1>12. CASE SaveSteps
  BY <1>12, SaveKeeps
<1>13. CASE \E b \in Accounts : ForgetAccount(b)
  BY <1>13, ForgetKeeps
<1> QED
  BY <1>4, <1>5, <1>6, <1>7, <1>8, <1>9, <1>10, <1>11, <1>12, <1>13
     DEF Next, PasswordNext, EnableNext, DisableNext, SaveNext, SaveSteps, Quiet

(* The actions that go on with the sealing or the opening of sessions; any   *)
(* other leaves the operation in another stage, or none in flight.           *)
LEMMA Stages ==
  ASSUME "save" \notin Overlap, TypeInv, Alone, Next
  PROVE  \/ UnlockApp \/ Lock
         \/ ScanPlain \/ RaiseOuter \/ (\E a \in Accounts : WriteBlob(a))
         \/ ScanBlobs \/ Extracted \/ WriteReport \/ LowerOuter
         \/ (\E a \in Accounts : Extract(a) \/ ExtractFails(a) \/ Quarantine(a))
         \/ op'.pc \in {"idle", "scan", "sweep", "undo", "clean", "unset", "rewrap", "store"}
<1> DEFINE Elsewhere == op'.pc \in {"idle", "scan", "sweep", "undo", "clean", "unset", "rewrap", "store"}
<1>0. op \in Op
  BY DEF TypeInv, TypeOK
<1>1. ASSUME \/ StorePassword \/ StorePasswordFails \/ RaiseOuterFails \/ RaiseFlagFails \/ Swept
             \/ RemoveSecurityFile \/ Crash
             \/ \E a \in Accounts : WriteBlobFails(a)
      PROVE  Elsewhere
  <2>1. op' = NoOp
    BY <1>1 DEF StorePassword, StorePasswordFails, RaiseOuterFails, RaiseFlagFails, Swept, RemoveSecurityFile,
                Crash, WriteBlobFails, UndoBlobs
  <2> QED
    BY <2>1 DEF NoOp
<1>2. ASSUME \/ Enable \/ Disable \/ RemoveAppPassword
             \/ \E pw \in Passwords : ChangePassword(pw)
      PROVE  Elsewhere
  BY <1>2 DEF Enable, Disable, RemoveAppPassword, ChangePassword, NoOp
<1>3. ASSUME RemoveSecurityFileFails
      PROVE  Elsewhere
  <2>1. CASE op.disabled
    BY <1>3, <2>1 DEF RemoveSecurityFileFails, NoOp
  <2>2. CASE ~op.disabled
    BY <1>3, <2>2 DEF RemoveSecurityFileFails, NoOp
  <2> QED
    BY <2>1, <2>2
<1>4. ASSUME Rewrap
      PROVE  Elsewhere
  BY <1>0, <1>4 DEF Rewrap, NoOp, Op
<1>5. ASSUME RaiseFlag \/ LowerFlag
      PROVE  Elsewhere
  BY <1>0, <1>5 DEF RaiseFlag, LowerFlag, Op
<1>6. ASSUME WriteReportFails \/ LowerOuterFails \/ LowerFlagFails
      PROVE  Elsewhere
  <2>1. Undo
    BY <1>6 DEF WriteReportFails, LowerOuterFails, LowerFlagFails
  <2> QED
    BY <1>0, <2>1 DEF Undo, Op
<1>7. ASSUME Cleaned
      PROVE  Elsewhere
  BY <1>0, <1>7 DEF Cleaned, NoOp, Op
<1>8. ASSUME NEW a \in Accounts, SweepPlain(a) \/ CleanBlob(a)
      PROVE  Elsewhere
  BY <1>0, <1>8 DEF SweepPlain, CleanBlob, Op
<1>9. ASSUME QuarantineNext \/ \E pw \in Passwords : SetAppPassword(pw)
      PROVE  Elsewhere
  BY <1>9 DEF QuarantineNext, DeleteQuarantine, RetryQuarantineImport, SetAppPassword, SettingsPage, OpIdle
<1>10. ASSUME SaveNext
       PROVE  Elsewhere
  <2>1. OpIdle /\ op' = op
    BY <1>10 DEF Alone, OpIdle, SaveIdle, SaveNext, BeginAccountSave, InstallFirst, SetAside, Install, InstallFails,
                 SealSession, DropPlain, SaveFails, EnlistAccount, RemoveAccountCache, ForgetAccount, MaySave
  <2> QED
    BY <2>1 DEF OpIdle
<1> HIDE DEF Elsewhere
<1>11. CASE Elsewhere
  BY <1>11 DEF Elsewhere
<1>12. CASE ~Elsewhere
  BY <1>1, <1>2, <1>3, <1>4, <1>5, <1>6, <1>7, <1>8, <1>9, <1>10, <1>12
     DEF Next, PasswordNext, EnableNext, DisableNext
<1> QED
  BY <1>11, <1>12

LEMMA SealingFitsKept ==
  ASSUME "save" \notin Overlap, TypeInv, Alone, SealingFits, OpeningFits, Next
  PROVE  SealingFits'
<1> USE DEF disk, steam, history
<1>0. TypeOK /\ op \in Op /\ blob \in [Accounts -> Blob \cup {None}]
  BY DEF TypeInv, TypeOK
<1>1. ASSUME op'.pc \notin {"blobs", "raise"}
      PROVE  SealingFits'
  BY <1>1 DEF SealingFits
<1>2. ASSUME UnlockApp \/ Lock
      PROVE  SealingFits'
  <2>1. CASE op.pc \notin {"blobs", "raise"}
    BY <1>1, <1>2, <2>1, <1>0 DEF UnlockApp, Lock, WipedBuffer, Op
  <2>2. CASE op.pc \in {"blobs", "raise"}
    <3>1. UNCHANGED <<file, plain, blob, listed, outer>> /\ op' = WipedBuffer(op)
      BY <1>2, <2>2, FlagAt DEF UnlockApp, Lock, Encrypted
    <3>2. op'.pc = op.pc /\ op'.accounts = op.accounts /\ op'.done = op.done /\ op'.key \in {op.key, Wiped}
      BY <1>0, <3>1 DEF WipedBuffer, Op
    <3> QED
      BY <2>2, <3>1, <3>2 DEF SealingFits
  <2> QED
    BY <2>1, <2>2
<1>3. ASSUME ScanPlain
      PROVE  SealingFits'
  <2>1. CASE op' = NoOp
    BY <1>1, <2>1 DEF NoOp
  <2>2. CASE op' # NoOp
    <3>1. /\ op' = [op EXCEPT !.pc = "blobs", !.accounts = {a \in listed : plain[a] # None}]
          /\ UNCHANGED <<plain, listed>> /\ op.done = {}
      BY <1>3, <2>2 DEF ScanPlain, TypeInv, OpFits
    <3>2. op'.pc = "blobs" /\ op'.accounts = {a \in listed : plain[a] # None} /\ op'.done = {}
      BY <1>0, <3>1 DEF Op
    <3> QED
      BY <3>1, <3>2 DEF SealingFits
  <2> QED
    BY <2>1, <2>2
<1>4. ASSUME NEW b \in Accounts, WriteBlob(b)
      PROVE  SealingFits'
  <2>1. /\ op.pc = "blobs" /\ blob' = [blob EXCEPT ![b] = [value |-> plain[b], key |-> op.key]]
        /\ op' = [op EXCEPT !.done = @ \cup {b}] /\ UNCHANGED <<file, plain, listed, outer>>
        /\ op.key \in {file.key, Wiped} /\ file.key \in Keys
    BY <1>4, KindAt DEF WriteBlob
  <2>2. op'.pc = "blobs" /\ op'.accounts = op.accounts /\ op'.done = op.done \cup {b} /\ op'.key = op.key
    BY <1>0, <2>1 DEF Op
  <2>3. blob'[b] # None /\ blob'[b].value = plain[b] /\ blob'[b].key = op.key
    <3>1. blob'[b] = [value |-> plain[b], key |-> op.key]
      BY <1>0, <2>1
    <3>2. [value |-> plain[b], key |-> op.key] \in Blob
      BY <1>0, <1>4, <2>1 DEF WriteBlob, TypeOK, Blob
    <3> QED
      BY <3>1, <3>2
  <2>4. \A a \in Accounts \ {b} : blob'[a] = blob[a]
    BY <1>0, <2>1
  <2>5. op.done \subseteq Accounts
    BY <1>0 DEF Op
  <2>6. ASSUME NEW a \in op'.done
        PROVE  /\ blob'[a] # None /\ blob'[a].value = plain'[a]
               /\ blob'[a].key = file'.key \/ op'.key = Wiped
    <3>1. CASE a = b
      BY <2>1, <2>2, <2>3, <3>1
    <3>2. CASE a # b
      BY <2>1, <2>2, <2>4, <2>5, <3>2 DEF SealingFits
    <3> QED
      BY <3>1, <3>2
  <2>7. op'.accounts = {a \in listed' : plain'[a] # None}
    BY <2>1, <2>2 DEF SealingFits
  <2> QED
    BY <2>2, <2>6, <2>7 DEF SealingFits
<1>5. ASSUME RaiseOuter
      PROVE  SealingFits'
  <2>1. /\ op.pc = "blobs" /\ op.done = op.accounts /\ outer' = op.key
        /\ op' = [op EXCEPT !.pc = "raise"] /\ UNCHANGED <<file, plain, blob, listed>>
    BY <1>5 DEF RaiseOuter, EnableOuter
  <2>2. op'.pc = "raise" /\ op'.accounts = op.accounts /\ op'.done = op.done
    BY <1>0, <2>1 DEF Op
  <2> QED
    BY <2>1, <2>2 DEF SealingFits
<1>6. ASSUME ScanBlobs
      PROVE  op'.pc \notin {"blobs", "raise"}
  BY <1>0, <1>6 DEF ScanBlobs, NoOp, Op
<1>7. ASSUME Extracted \/ WriteReport \/ LowerOuter
      PROVE  op'.pc \notin {"blobs", "raise"}
  BY <1>0, <1>7 DEF Extracted, WriteReport, LowerOuter, Op
<1>8. ASSUME NEW a \in Accounts, Extract(a) \/ ExtractFails(a) \/ Quarantine(a)
      PROVE  op'.pc \notin {"blobs", "raise"}
  BY <1>0, <1>8 DEF Extract, ExtractFails, Quarantine, Op
<1> QED
  BY <1>1, <1>2, <1>3, <1>4, <1>5, <1>6, <1>7, <1>8, Stages

LEMMA OpeningFitsKept ==
  ASSUME "save" \notin Overlap, TypeInv, Alone, OpeningFits, Next
  PROVE  OpeningFits'
<1> USE DEF disk, steam, history
<1> DEFINE Stage == {"extract", "quarantine", "lower", "unraise"}
<1>0. /\ op \in Op /\ plain \in [Accounts -> Values \cup {None, Torn}] /\ blob \in [Accounts -> Blob \cup {None}]
      /\ mishaps \in Nat /\ mishaps' \in Nat /\ mishaps' >= mishaps /\ op.failed \subseteq op.accounts
      /\ op.done \subseteq op.accounts /\ op.accounts \subseteq Accounts /\ listed \subseteq Accounts
  BY MishapsGrow DEF TypeInv, TypeOK, OpFits, Op
<1>1. ASSUME op'.pc \notin Stage
      PROVE  OpeningFits'
  BY <1>1 DEF OpeningFits
<1>2. ASSUME UnlockApp \/ Lock
      PROVE  OpeningFits'
  <2>1. CASE op.pc \notin Stage
    BY <1>1, <1>2, <2>1, <1>0 DEF UnlockApp, Lock, WipedBuffer, Op
  <2>2. CASE op.pc \in Stage
    <3>1. UNCHANGED <<file, plain, blob, listed, quarantine, mishaps>> /\ op' = op
      BY <1>2, <2>2, KindAt DEF UnlockApp, Lock, WipedBuffer
    <3>2. outer' = outer \/ outer' # Wiped
      BY <1>2, FlagAt DEF UnlockApp, Lock, EnableOuter
    <3> QED
      BY <3>1, <3>2 DEF OpeningFits, Opened, Cost, Decrypts, Newest
  <2> QED
    BY <2>1, <2>2
<1>3. ASSUME ScanBlobs
      PROVE  OpeningFits'
  <2>1. CASE op' = NoOp
    BY <1>1, <2>1 DEF NoOp
  <2>2. CASE op' # NoOp
    <3>1. /\ op' = [op EXCEPT !.pc = "extract", !.accounts = {a \in listed : blob[a] # None}]
          /\ UNCHANGED <<file, plain, blob, listed>> /\ op.done = {} /\ op.failed = {}
      BY <1>3, <2>2 DEF ScanBlobs, TypeInv, OpFits
    <3>2. /\ op'.pc = "extract" /\ op'.accounts = {a \in listed : blob[a] # None}
          /\ op'.done = {} /\ op'.failed = {}
      BY <1>0, <3>1 DEF Op
    <3> QED
      BY <3>1, <3>2 DEF OpeningFits, Opened
  <2> QED
    BY <2>1, <2>2
<1>4. ASSUME NEW b \in Accounts, Extract(b)
      PROVE  OpeningFits'
  <2>1. /\ op.pc = "extract" /\ plain' = [plain EXCEPT ![b] = blob[b].value] /\ b \notin op.done /\ blob[b] # None
        /\ op' = [op EXCEPT !.done = @ \cup {b}] /\ UNCHANGED <<file, blob, listed, outer, mishaps>>
    BY <1>4 DEF Extract, Decrypts
  <2>2. /\ op'.pc = "extract" /\ op'.accounts = op.accounts /\ op'.done = op.done \cup {b}
        /\ op'.failed = op.failed
    BY <1>0, <2>1 DEF Op
  <2>3. \A a \in Accounts : plain'[a] = IF a = b THEN blob[b].value ELSE plain[a]
    BY <1>0, <2>1
  <2>4. \A a \in op'.done \ op'.failed : blob'[a] # None /\ plain'[a] = blob'[a].value
    BY <1>0, <2>1, <2>2, <2>3 DEF OpeningFits, Opened
  <2> QED
    BY <2>1, <2>2, <2>4 DEF OpeningFits, Opened, Cost, Decrypts
<1>5. ASSUME NEW b \in Accounts, ExtractFails(b)
      PROVE  OpeningFits'
  <2>1. /\ op.pc = "extract" /\ b \in op.accounts \ op.done
        /\ Decrypts(b, op.key) => mishaps' = mishaps + 1
        /\ op' = [op EXCEPT !.done = @ \cup {b}, !.failed = @ \cup {b}]
        /\ UNCHANGED <<file, blob, listed, outer>> /\ op.key = file.key
    BY <1>5, KindAt DEF ExtractFails, Mishap
  <2>2. /\ op'.pc = "extract" /\ op'.accounts = op.accounts /\ op'.done = op.done \cup {b}
        /\ op'.failed = op.failed \cup {b}
    BY <1>0, <2>1 DEF Op
  <2>3. \A a \in Accounts \ {b} : plain'[a] = plain[a]
    BY <1>0, <1>5 DEF ExtractFails
  <2>4. \A a \in op'.done \ op'.failed : blob'[a] # None /\ plain'[a] = blob'[a].value
    BY <1>0, <2>1, <2>2, <2>3 DEF OpeningFits, Opened
  <2>5. \A a \in op'.failed \cap listed' : Decrypts(a, file.key)' => mishaps' >= 1
    <3> SUFFICES ASSUME NEW a \in op'.failed \cap listed', Decrypts(a, file.key)
                 PROVE  mishaps' >= 1
      BY <2>1 DEF Decrypts
    <3>1. CASE a = b
      BY <1>0, <2>1, <3>1
    <3>2. CASE a # b
      BY <1>0, <2>1, <2>2, <3>2 DEF OpeningFits, Cost
    <3> QED
      BY <3>1, <3>2
  <2> QED
    BY <2>1, <2>2, <2>4, <2>5 DEF OpeningFits, Opened, Cost
<1>6. ASSUME Extracted
      PROVE  OpeningFits'
  <2>1. /\ op.pc = "extract" /\ op.done = op.accounts /\ UNCHANGED <<file, plain, blob, listed, outer, mishaps>>
        /\ op' = [op EXCEPT !.pc = IF op.failed = {} THEN "lower" ELSE "quarantine", !.done = {}]
    BY <1>6 DEF Extracted
  <2>2. /\ op'.pc = IF op.failed = {} THEN "lower" ELSE "quarantine"
        /\ op'.accounts = op.accounts /\ op'.done = {} /\ op'.failed = op.failed
    BY <1>0, <2>1 DEF Op
  <2>3. ASSUME op.failed # {}
        PROVE  \A a \in Accounts : quarantine'[Newest'].blobs[a] = None
    <3> DEFINE r == [accounts |-> op.failed, blobs |-> Nothing, opens |-> None]
    <3>1. quarantine' = Append(quarantine, r) /\ quarantine \in Seq(Report)
      BY <1>6, <2>3 DEF Extracted, TypeInv, TypeOK
    <3>2. r \in Report /\ \A a \in Accounts : r.blobs[a] = None
      BY <1>0, NothingTyped DEF Op, Report, Nothing
    <3> HIDE DEF r
    <3>3. quarantine'[Newest'] = r
      <4>1. Len(quarantine') = Newest + 1 /\ quarantine'[Newest + 1] = r
        BY <3>1, <3>2, Reported
      <4> QED
        BY <4>1 DEF Newest
    <3> QED
      BY <3>2, <3>3
  <2>4. \A a \in op.failed \cap listed : Decrypts(a, file.key)' => mishaps' >= 1
    BY <2>1 DEF OpeningFits, Cost, Decrypts
  <2>5. \A a \in op.accounts \ op.failed : blob'[a] # None /\ plain'[a] = blob'[a].value
    BY <2>1 DEF OpeningFits, Opened
  <2>6. op.accounts \subseteq listed /\ \A a \in listed : blob[a] # None => a \in op.accounts
    BY <2>1 DEF OpeningFits
  <2>7. CASE op.failed = {}
    BY <2>1, <2>2, <2>5, <2>6, <2>7 DEF OpeningFits, Opened
  <2>8. CASE op.failed # {}
    BY <1>0, <2>1, <2>2, <2>3, <2>4, <2>5, <2>6, <2>8 DEF OpeningFits, Opened, Cost
  <2> QED
    BY <2>7, <2>8
<1>7. ASSUME NEW b \in Accounts, Quarantine(b)
      PROVE  OpeningFits'
  <2>1. /\ op.pc = "quarantine" /\ b \in op.failed \ op.done /\ op' = [op EXCEPT !.done = @ \cup {b}]
        /\ UNCHANGED <<file, plain, listed, outer>>
        /\ \/ blob' = [blob EXCEPT ![b] = None] /\ quarantine' = [quarantine EXCEPT ![Newest].blobs[b] = blob[b]]
           \/ blob' = blob /\ quarantine' = quarantine /\ mishaps' = mishaps + 1
    BY <1>7 DEF Quarantine, Mishap
  <2>2. /\ op'.pc = "quarantine" /\ op'.accounts = op.accounts /\ op'.done = op.done \cup {b}
        /\ op'.failed = op.failed
    BY <1>0, <2>1 DEF Op
  <2>3. \A a \in Accounts : a # b => blob'[a] = blob[a]
    BY <1>0, <2>1
  <2>4. blob'[b] = None \/ (blob'[b] = blob[b] /\ mishaps' = mishaps + 1)
    BY <1>0, <2>1
  <2>5. \A a \in op.failed \ (op.done \cup {b}) : quarantine'[Newest'].blobs[a] = None
    <3>1. \A a \in op.failed \ op.done : a \in Accounts /\ quarantine[Newest].blobs[a] = None
      BY <1>0, <2>1 DEF OpeningFits
    <3>2. CASE quarantine' = quarantine
      BY <3>1, <3>2 DEF Newest
    <3>3. CASE quarantine' = [quarantine EXCEPT ![Newest].blobs[b] = blob[b]]
      <4> DEFINE r == [quarantine[Newest] EXCEPT !.blobs = [@ EXCEPT ![b] = blob[b]]]
      <4>1. quarantine \in Seq(Report) /\ quarantine # <<>> /\ quarantine[Newest] \in Report
        BY <2>1 DEF TypeInv, TypeOK, ReportsFit, Newest
      <4>2. r \in Report /\ \A a \in Accounts : a # b => r.blobs[a] = quarantine[Newest].blobs[a]
        BY <1>0, <4>1 DEF Report
      <4>3. quarantine' = [quarantine EXCEPT ![Newest] = r]
        BY <3>3
      <4> HIDE DEF r
      <4>4. Len(quarantine') = Newest /\ quarantine'[Newest] = r
        BY <4>1, <4>2, <4>3, NewestReplaced
      <4>5. Newest' = Newest
        BY <4>4 DEF Newest
      <4> QED
        BY <3>1, <4>2, <4>4, <4>5
    <3> QED
      BY <2>1, <3>2, <3>3
  <2>6. \A a \in op.failed \cap listed : Decrypts(a, file.key)' =>
           mishaps' >= (IF a \in op.done \cup {b} THEN 2 ELSE 1)
    <3> SUFFICES ASSUME NEW a \in op.failed \cap listed, blob'[a] # None, blob'[a].key = file.key
                 PROVE  mishaps' >= (IF a \in op.done \cup {b} THEN 2 ELSE 1)
      BY <2>1 DEF Decrypts
    <3>1. blob'[a] = blob[a]
      BY <1>0, <2>3, <2>4
    <3>2. mishaps >= (IF a \in op.done THEN 2 ELSE 1)
      BY <2>1, <3>1 DEF OpeningFits, Cost, Decrypts
    <3>3. CASE a = b
      BY <1>0, <2>1, <2>4, <3>2, <3>3
    <3>4. CASE a # b
      BY <1>0, <3>2, <3>4
    <3> QED
      BY <3>3, <3>4
  <2>7. \A a \in op.accounts \ op.failed : blob'[a] # None /\ plain'[a] = blob'[a].value
    BY <1>0, <2>1, <2>3 DEF OpeningFits, Opened
  <2>8. \A a \in listed : blob'[a] # None => a \in op.accounts
    BY <1>0, <2>1, <2>3 DEF OpeningFits
  <2>9. op.accounts \subseteq listed
    BY <2>1 DEF OpeningFits
  <2> QED
    BY <2>1, <2>2, <2>5, <2>6, <2>7, <2>8, <2>9 DEF OpeningFits, Opened, Cost
<1>8. ASSUME WriteReport
      PROVE  OpeningFits'
  <2>1. /\ op.pc = "quarantine" /\ op.done = op.failed /\ op' = [op EXCEPT !.pc = "lower", !.done = {}]
        /\ UNCHANGED <<file, plain, blob, outer>>
        /\ listed' \cap op.failed = {} \/ mishaps' = mishaps + 1
    BY <1>8 DEF WriteReport, Mishap
  <2>2. op'.pc = "lower" /\ op'.accounts = op.accounts /\ op'.done = {} /\ op'.failed = op.failed
    BY <1>0, <2>1 DEF Op
  <2>3. op.accounts \subseteq listed /\ listed' \subseteq listed
    BY <1>0, <1>8, <2>1 DEF OpeningFits, WriteReport
  <2>4. \A a \in op.failed \cap listed' : Decrypts(a, file.key)' => mishaps' >= 3
    <3> SUFFICES ASSUME NEW a \in op.failed \cap listed', Decrypts(a, file.key)
                 PROVE  mishaps' >= 3
      BY <2>1 DEF Decrypts
    <3>1. mishaps' = mishaps + 1
      BY <2>1
    <3>2. mishaps >= 2
      BY <2>1, <2>3 DEF OpeningFits, Cost
    <3> QED
      BY <1>0, <3>1, <3>2
  <2> QED
    BY <2>1, <2>2, <2>3, <2>4 DEF OpeningFits, Opened, Cost
<1>9. ASSUME LowerOuter
      PROVE  OpeningFits'
  <2>1. /\ op.pc = "lower" /\ op' = [op EXCEPT !.pc = "unraise"] /\ outer' = None
        /\ UNCHANGED <<file, plain, blob, listed, mishaps>>
    BY <1>9 DEF LowerOuter, DisableOuter
  <2>2. op'.pc = "unraise" /\ op'.accounts = op.accounts /\ op'.failed = op.failed
    BY <1>0, <2>1 DEF Op
  <2> QED
    BY <2>1, <2>2 DEF OpeningFits, Opened, Cost, Decrypts
<1>10. ASSUME ScanPlain
       PROVE  op'.pc \notin Stage
  BY <1>0, <1>10 DEF ScanPlain, NoOp, Op
<1>11. ASSUME RaiseOuter
       PROVE  op'.pc \notin Stage
  BY <1>0, <1>11 DEF RaiseOuter, Op
<1>12. ASSUME NEW a \in Accounts, WriteBlob(a)
       PROVE  op'.pc \notin Stage
  BY <1>0, <1>12 DEF WriteBlob, Op
<1> QED
  BY <1>1, <1>2, <1>3, <1>4, <1>5, <1>6, <1>7, <1>8, <1>9, <1>10, <1>11, <1>12, Stages

LEMMA SavingFitsKept ==
  ASSUME "save" \notin Overlap, TypeInv, Alone, SavingFits, OpeningFits, Next
  PROVE  SavingFits'
<1> USE DEF disk, steam, history
<1>0. TypeOK /\ save \in SaveOp /\ (save.pc # "idle" => save.account \in Accounts)
  BY DEF TypeInv, TypeOK, SaveFits
<1>1. ASSUME SaveIdle, save' = save
      PROVE  SavingFits'
  BY <1>1 DEF SavingFits, SaveIdle
<1>2. ASSUME UnlockApp \/ Lock
      PROVE  SavingFits'
  <2>1. UNCHANGED <<file, plain, blob, listed, saved, save>>
    BY <1>2 DEF UnlockApp, Lock
  <2> QED
    BY <2>1 DEF SavingFits, Encrypted
<1>3. ASSUME save' = NoSave
      PROVE  SavingFits'
  BY <1>3 DEF SavingFits, NoSave
<1>4. ASSUME NEW a \in Accounts, NEW v \in Values, BeginAccountSave(a, v)
      PROVE  SavingFits'
  <2>1. save' = [pc |-> "staged", account |-> a, value |-> v, encrypted |-> Encrypted, backup |-> None]
        /\ file' = file
    BY <1>4 DEF BeginAccountSave, NoSave
  <2> QED
    BY <2>1 DEF SavingFits, Encrypted
<1>5. ASSUME NEW a \in Accounts, ForgetAccount(a)
      PROVE  SavingFits'
  <2>1. save'.pc = "purge" /\ save'.account = a /\ listed' = listed \ {a} /\ saved'[a] = None
    BY <1>0, <1>5 DEF ForgetAccount, NoSave, TypeOK
  <2> QED
    BY <2>1 DEF SavingFits
<1>6. ASSUME InstallFirst \/ Install
      PROVE  SavingFits'
  <2>1. SaveSteps
    BY <1>6 DEF SaveSteps
  <2>2. save.pc \in {"staged", "install"} /\ save' = [save EXCEPT !.pc = "enlist"]
    BY <1>6 DEF InstallFirst, Install, Save
  <2>3. /\ save'.pc = "enlist" /\ save'.account = save.account /\ save'.value = save.value
        /\ save'.encrypted = save.encrypted
    BY <1>0, <2>2 DEF SaveOp
  <2>4. save.encrypted = Encrypted /\ Encrypted' = Encrypted /\ ~Encrypted
    BY <1>6, <2>1, <2>2, SaveTouches DEF SavingFits, Encrypted, InstallFirst, Install
  <2>5. plain'[save.account] = save.value
        /\ (save.account \in listed' => saved'[save.account] = save.value)
    BY <1>6, <2>1, SaveSays, SaveTouches
  <2> QED
    BY <2>3, <2>4, <2>5 DEF SavingFits
<1>7. ASSUME SetAside
      PROVE  SavingFits'
  <2>1. SaveSteps
    BY <1>7 DEF SaveSteps
  <2>2. save'.pc = "install" /\ save'.account = save.account /\ save'.encrypted = save.encrypted
    BY <1>0, <1>7 DEF SetAside, SaveOp
  <2>3. save.encrypted = Encrypted /\ Encrypted' = Encrypted /\ ~Encrypted
    BY <1>7, <2>1, SaveTouches DEF SavingFits, Encrypted, SetAside
  <2>4. plain'[save.account] = None
    BY <1>7, <2>1, SaveSays, SaveTouches
  <2> QED
    BY <2>2, <2>3, <2>4 DEF SavingFits
<1>8. ASSUME SealSession
      PROVE  SavingFits'
  <2>1. SaveSteps
    BY <1>8 DEF SaveSteps
  <2>2. /\ save'.pc = "dropplain" /\ save'.account = save.account /\ save'.value = save.value
        /\ save'.encrypted = save.encrypted
    BY <1>0, <1>8 DEF SealSession, Save, SaveOp
  <2>3. save.encrypted = Encrypted /\ Encrypted' = Encrypted /\ Encrypted /\ file' = file
    BY <1>8, <2>1, SaveTouches DEF SavingFits, Encrypted, SealSession
  <2>4. blob'[save.account] = [value |-> save.value, key |-> file.key]
        /\ (save.account \in listed' => saved'[save.account] = save.value)
    BY <1>8, <2>1, SaveSays, SaveTouches
  <2> QED
    BY <2>2, <2>3, <2>4 DEF SavingFits
<1>9. ASSUME DropPlain
      PROVE  SavingFits'
  <2>1. SaveSteps
    BY <1>9 DEF SaveSteps
  <2>2. /\ save.pc = "dropplain"
        /\ save'.pc = "enlist" /\ save'.account = save.account /\ save'.value = save.value
        /\ save'.encrypted = save.encrypted
    BY <1>0, <1>9 DEF DropPlain, Save, SaveOp
  <2>3. Encrypted /\ Encrypted' = Encrypted /\ UNCHANGED <<file, blob, listed, saved>>
    BY <1>9, <2>2 DEF SavingFits, Encrypted, DropPlain
  <2> QED
    BY <2>2, <2>3 DEF SavingFits
<1>10. ASSUME InstallFails \/ SaveFails \/ EnlistAccount \/ RemoveAccountCache \/ Crash
       PROVE  SavingFits'
  <2>1. save' = NoSave
    BY <1>10 DEF InstallFails, SaveFails, EnlistAccount, RemoveAccountCache, Crash
  <2> QED
    BY <1>3, <2>1
<1> QED
  BY <1>1, <1>2, <1>4, <1>5, <1>6, <1>7, <1>8, <1>9, <1>10, Apart DEF SaveNext

LEMMA KeptInitially == Init => KeepInv
<1> SUFFICES ASSUME Init
             PROVE  KeepInv
  OBVIOUS
<1>1. TypeInv /\ op = NoOp /\ save = NoSave /\ listed = {}
  BY TypesInitially DEF Init
<1> QED
  BY <1>1 DEF KeepInv, Alone, OpIdle, SaveIdle, SealingFits, OpeningFits, SavingFits, Standing, Owed, NoOp, NoSave

LEMMA KeptAlways ==
  ASSUME "save" \notin Overlap, KeepInv, [Next]_vars
  PROVE  KeepInv'
<1>1. CASE Next
  <2>1. TypeInv' /\ Alone' /\ SealingFits' /\ OpeningFits' /\ SavingFits'
    BY <1>1, TypesAlways, AloneKept, SealingFitsKept, OpeningFitsKept, SavingFitsKept DEF KeepInv
  <2>2. ASSUME mishaps' <= 2
        PROVE  Standing'
    <3>1. mishaps <= 2
      BY <1>1, <2>2, MishapsGrow DEF KeepInv
    <3> QED
      BY <1>1, <3>1, StandingKept DEF KeepInv
  <2> QED
    BY <2>1, <2>2 DEF KeepInv
<1>2. CASE UNCHANGED vars
  <2>1. TypeInv' /\ Alone' /\ (Standing => Standing') /\ mishaps' = mishaps
    BY <1>2, TypesAlways DEF vars, KeepInv, Alone, OpIdle, SaveIdle, Standing, Owed, Kept, Beside, Moved, InBlob,
                             Encrypted
  <2>2. SealingFits' /\ SavingFits'
    BY <1>2 DEF vars, KeepInv, SealingFits, SavingFits, Encrypted
  <2>3. OpeningFits'
    BY <1>2 DEF vars, KeepInv, OpeningFits, Opened, Cost, Decrypts, Newest
  <2> QED
    BY <2>1, <2>2, <2>3 DEF KeepInv
<1> QED
  BY <1>1, <1>2

(* No operation removes the last copy of what a listed account saved, also   *)
(* when two file operations fail or the process ends in their middle: the    *)
(* copies, the flag and the removals come in that order, and the blobs that  *)
(* did not extract are moved before any is removed.                          *)
THEOREM KeepsACopy ==
  ASSUME "save" \notin Overlap
  PROVE  Spec => [](mishaps <= 2 => ListedIsOnDisk)
<1>1. KeepInv => (mishaps <= 2 => ListedIsOnDisk)
  <2> SUFFICES ASSUME KeepInv, mishaps <= 2, NEW a \in listed \ imported, saved[a] # None
               PROVE  saved[a] \in Copies(a)
    BY DEF ListedIsOnDisk
  <2>1. a \in Accounts /\ Kept(a)
    BY DEF KeepInv, TypeInv, TypeOK, Standing, Owed
  <2>2. CASE saved[a] \in aside[a] \/ plain[a] = saved[a]
    BY <2>2 DEF Copies
  <2>3. CASE InBlob(a)
    BY <2>3 DEF Copies, InBlob
  <2>4. ASSUME NEW i \in DOMAIN quarantine, Moved(quarantine[i], a)
        PROVE  saved[a] \in Copies(a)
    <3>1. quarantine[i] \in ToSet(quarantine)
      BY DEF ToSet
    <3> QED
      BY <2>4, <3>1 DEF Copies, Moved
  <2> QED
    BY <2>1, <2>2, <2>3, <2>4 DEF Kept, Beside
<1>2. Init => KeepInv
  BY KeptInitially
<1>3. KeepInv /\ [Next]_vars => KeepInv'
  BY KeptAlways
<1> QED
  BY <1>1, <1>2, <1>3, PTL DEF Spec

-----------------------------------------------------------------------------
(* Nothing runs beside a security operation.                                 *)

(* The app is locked and unlocked between operations only, so no key is      *)
(* wiped in its user's hands.                                                *)
LEMMA LockedBetween ==
  ASSUME Overlap = {}, TypeInv, UnlockApp \/ Lock
  PROVE  OpIdle /\ op' = op /\ op = NoOp
<1>1. OpIdle /\ op = NoOp /\ op' = WipedBuffer(op)
  BY DEF UnlockApp, Lock, TypeInv, OpFits, OpIdle
<1> QED
  BY <1>1 DEF WipedBuffer, NoOp

LEMMA NotWipedKept ==
  ASSUME Overlap = {}, TypeInv, Alone, NotWiped, Next
  PROVE  NotWiped'
<1> USE DEF disk, steam, history
<1>0. op \in Op /\ None # Wiped
  BY DEF TypeInv, TypeOK
<1>1. ASSUME UnlockApp \/ Lock
      PROVE  NotWiped'
  <2>1. op' = op /\ op = NoOp
    BY <1>1, LockedBetween
  <2>2. outer' # Wiped
    BY <1>1, FlagAt DEF UnlockApp, Lock, EnableOuter, NotWiped
  <2> QED
    BY <2>1, <2>2 DEF NotWiped, NoOp
<1>2. ASSUME UNCHANGED outer, op'.key \in {op.key, None}, op'.pc # "unraise"
      PROVE  NotWiped'
  BY <1>0, <1>2 DEF NotWiped
<1>3. ASSUME \/ StorePassword \/ StorePasswordFails \/ RaiseOuterFails \/ Swept
             \/ RemoveSecurityFile \/ Crash
             \/ \E a \in Accounts : WriteBlobFails(a)
      PROVE  NotWiped'
  <2>1. op' = NoOp /\ outer' = outer
    BY <1>3 DEF StorePassword, StorePasswordFails, RaiseOuterFails, Swept, RemoveSecurityFile,
                Crash, WriteBlobFails, UndoBlobs
  <2> QED
    BY <1>2, <2>1 DEF NoOp
<1>4. ASSUME RaiseFlagFails
      PROVE  NotWiped'
  <2>1. op' = NoOp /\ outer' \in {outer, None}
    BY <1>4 DEF RaiseFlagFails, UndoBlobs, DisableOuter
  <2> QED
    BY <1>0, <2>1 DEF NotWiped, NoOp
<1>5. ASSUME \/ Enable \/ Disable \/ RemoveAppPassword
             \/ \E pw \in Passwords : ChangePassword(pw)
      PROVE  NotWiped'
  <2>1. op'.key = file.key /\ op'.pc \in {"scan", "unset", "rewrap"} /\ outer' = outer /\ file # None
    BY <1>5 DEF Enable, Disable, RemoveAppPassword, ChangePassword, NoOp
  <2> QED
    BY <2>1, FlagAt DEF NotWiped
<1>6. ASSUME RemoveSecurityFileFails
      PROVE  NotWiped'
  <2>1. outer' = outer
    BY <1>6 DEF RemoveSecurityFileFails
  <2>2. CASE op.disabled
    <3>1. op'.key = op.key /\ op'.pc = "scan"
      BY <1>6, <2>2 DEF RemoveSecurityFileFails, NoOp
    <3> QED
      BY <1>2, <2>1, <3>1
  <2>3. CASE ~op.disabled
    <3>1. op'.key = None /\ op'.pc = "idle"
      BY <1>6, <2>3 DEF RemoveSecurityFileFails, NoOp
    <3> QED
      BY <1>2, <2>1, <3>1
  <2> QED
    BY <2>2, <2>3
<1>7. ASSUME Rewrap \/ ScanPlain \/ ScanBlobs \/ Cleaned
      PROVE  NotWiped'
  <2>1. outer' = outer
    BY <1>7 DEF Rewrap, ScanPlain, ScanBlobs, Cleaned
  <2>2. CASE op' = NoOp
    BY <1>2, <2>1, <2>2 DEF NoOp
  <2>3. CASE op' # NoOp
    <3>1. op'.key = op.key /\ op'.pc \in {"store", "blobs", "extract", "unset"}
      BY <1>0, <1>7, <2>3 DEF Rewrap, ScanPlain, ScanBlobs, Cleaned, Op
    <3> QED
      BY <1>2, <2>1, <3>1
  <2> QED
    BY <2>2, <2>3
<1>8. ASSUME RaiseFlag \/ LowerFlag \/ Extracted \/ WriteReport
      PROVE  NotWiped'
  <2>1. outer' = outer /\ op'.key = op.key /\ op'.pc # "unraise"
    BY <1>0, <1>8 DEF RaiseFlag, LowerFlag, Extracted, WriteReport, Op
  <2> QED
    BY <1>2, <2>1
<1>9. ASSUME WriteReportFails \/ LowerOuterFails
      PROVE  NotWiped'
  <2>1. outer' = outer /\ op'.key = op.key /\ op'.pc = "undo"
    BY <1>0, <1>9 DEF WriteReportFails, LowerOuterFails, Undo, Op
  <2> QED
    BY <1>2, <2>1
<1>10. ASSUME RaiseOuter \/ LowerOuter
       PROVE  NotWiped'
  <2>1. \/ outer' = op.key /\ op'.key = op.key /\ op'.pc = "raise"
        \/ outer' = None /\ op'.key = op.key
    BY <1>0, <1>10 DEF RaiseOuter, LowerOuter, EnableOuter, DisableOuter, Op
  <2> QED
    BY <1>0, <2>1 DEF NotWiped
<1>11. ASSUME LowerFlagFails
       PROVE  NotWiped'
  <2>1. outer' \in {outer, op.key} /\ op'.key = op.key /\ op'.pc = "undo"
    BY <1>0, <1>11 DEF LowerFlagFails, EnableOuter, Undo, Op
  <2> QED
    BY <2>1 DEF NotWiped
<1>12. ASSUME NEW a \in Accounts,
              WriteBlob(a) \/ SweepPlain(a) \/ Extract(a) \/ ExtractFails(a) \/ Quarantine(a) \/ CleanBlob(a)
       PROVE  NotWiped'
  <2>1. outer' = outer /\ op.pc # "unraise"
    BY <1>12 DEF WriteBlob, SweepPlain, Extract, ExtractFails, Quarantine, CleanBlob
  <2>2. op'.key = op.key /\ op'.pc = op.pc
    BY <1>0, <1>12 DEF WriteBlob, SweepPlain, Extract, ExtractFails, Quarantine, CleanBlob, Op
  <2> QED
    BY <1>2, <2>1, <2>2
<1>13. ASSUME QuarantineNext \/ SaveNext \/ \E pw \in Passwords : SetAppPassword(pw)
       PROVE  NotWiped'
  <2>1. UNCHANGED <<op, outer>>
    BY <1>13 DEF QuarantineNext, SaveNext, DeleteQuarantine, RetryQuarantineImport, BeginAccountSave, InstallFirst,
                 SetAside, Install, InstallFails, SealSession, DropPlain, SaveFails, EnlistAccount,
                 RemoveAccountCache, ForgetAccount, SetAppPassword
  <2> QED
    BY <2>1 DEF NotWiped
<1> QED
  BY <1>1, <1>3, <1>4, <1>5, <1>6, <1>7, <1>8, <1>9, <1>10, <1>11, <1>12, <1>13
     DEF Next, PasswordNext, EnableNext, DisableNext

(* A report that owes an account its session keeps it: the one that is still *)
(* being written is of accounts that are listed.                             *)
LEMMA InReportKept ==
  ASSUME TypeInv, OpeningFits, Next, NEW a \in Accounts, a \notin listed, InReport(a),
         saved[a] # None, saved'[a] = saved[a], a \notin imported'
  PROVE  InReport(a)'
<1>0. quarantine \in Seq(Report) /\ ReportsFit /\ op.failed \subseteq op.accounts
  BY DEF TypeInv, TypeOK, OpFits
<1>1. PICK i \in DOMAIN quarantine :
         /\ quarantine[i].blobs[a] # None /\ quarantine[i].blobs[a].value = saved[a]
         /\ quarantine[i].blobs[a].key = quarantine[i].opens
  BY DEF InReport, Moved
<1>2. ASSUME NEW j \in DOMAIN quarantine', quarantine'[j] = quarantine[i]
      PROVE  InReport(a)'
  BY <1>1, <1>2 DEF InReport, Moved
<1>3. ~(i = Newest /\ op.pc = "quarantine")
  BY <1>0, <1>1 DEF ReportsFit, OpeningFits
<1>4. CASE \A k \in DOMAIN quarantine :
              /\ k \in DOMAIN quarantine'
              /\ quarantine'[k] = quarantine[k] \/ (k = Newest /\ op.pc = "quarantine")
  BY <1>2, <1>3, <1>4
<1>5. ASSUME NEW k \in DOMAIN quarantine, DeleteQuarantine(k) \/ RetryQuarantineImport(k),
             quarantine' = RemoveAt(quarantine, k)
      PROVE  InReport(a)'
  <2>1. CASE quarantine' = quarantine
    BY <1>2, <2>1
  <2>2. CASE quarantine' # quarantine
    <3>1. quarantine[k].blobs[a] = None
      <4>1. CASE DeleteQuarantine(k)
        BY <4>1 DEF DeleteQuarantine
      <4>2. CASE RetryQuarantineImport(k)
        <5>1. imported' = imported \cup quarantine[k].accounts
          BY <2>2, <4>2 DEF RetryQuarantineImport, Import
        <5> QED
          BY <1>0, <5>1 DEF ReportsFit
      <4> QED
        BY <1>5, <4>1, <4>2
    <3>2. i \in DOMAIN quarantine \ {k}
      BY <1>1, <3>1
    <3>3. PICK j \in DOMAIN quarantine' : quarantine'[j] = quarantine[i]
      BY <1>0, <1>5, <3>2, OthersRemain
    <3> QED
      BY <1>2, <3>3
  <2> QED
    BY <2>1, <2>2
<1> QED
  BY <1>4, <1>5, ReportsStay

(* What keeps an account in place: each of the three ways by itself.         *)
LEMMA PlacedStays ==
  ASSUME TypeInv, OpeningFits, Next, NEW a \in Accounts, Placed(a), saved[a] # None,
         saved'[a] = saved[a], a \notin imported',
         a \in listed \ op.failed => a \in listed' \ op'.failed,
         a \in listed \ op.failed /\ Straight(a) => Straight(a)',
         a \in listed \ op.failed /\ AsideOnly(a) => AsideOnly(a)',
         a \in listed \cap op.failed /\ Failing(a) => a \in listed' \cap op'.failed /\ Failing(a)',
         a \notin listed => a \notin listed'
  PROVE  Placed(a)'
<1>1. CASE a \in listed \ op.failed
  BY <1>1 DEF Placed
<1>2. CASE a \in listed \cap op.failed
  BY <1>2 DEF Placed
<1>3. CASE a \notin listed
  BY <1>3, InReportKept DEF Placed
<1> QED
  BY <1>1, <1>2, <1>3

(* What an operation failed to extract is forgotten when it ends; most       *)
(* actions are of other stages.                                              *)
LEMMA FailuresKept ==
  ASSUME Overlap = {}, TypeInv, Next,
         Quiet \/ ~ \E a \in Accounts : ExtractFails(a)
  PROVE  op'.failed \in {op.failed, {}}
<1> USE DEF disk, steam, history
<1>0. op \in Op
  BY DEF TypeInv, TypeOK
<1>1. ASSUME op' \in {op, NoOp}
      PROVE  op'.failed \in {op.failed, {}}
  BY <1>1 DEF NoOp
<1>2. ASSUME \/ UnlockApp \/ Lock \/ StorePassword \/ StorePasswordFails \/ RaiseOuterFails \/ RaiseFlagFails \/ Swept
             \/ RemoveSecurityFile \/ Crash
             \/ \E a \in Accounts : WriteBlobFails(a)
      PROVE  op' \in {op, NoOp}
  BY <1>2, LockedBetween DEF StorePassword, StorePasswordFails, RaiseOuterFails, RaiseFlagFails, Swept,
     RemoveSecurityFile, Crash, WriteBlobFails, UndoBlobs
<1>3. ASSUME \/ QuarantineNext \/ SaveNext \/ SaveFails
             \/ \E pw \in Passwords : SetAppPassword(pw)
             \/ \E a \in Accounts, v \in Values : BeginAccountSave(a, v)
      PROVE  op' = op
  BY <1>3 DEF QuarantineNext, SaveNext, DeleteQuarantine, RetryQuarantineImport, BeginAccountSave, InstallFirst,
              SetAside, Install, InstallFails, SealSession, DropPlain, SaveFails, EnlistAccount,
              RemoveAccountCache, ForgetAccount, SetAppPassword
<1>4. ASSUME \/ Enable \/ Disable \/ RemoveAppPassword
             \/ \E pw \in Passwords : ChangePassword(pw)
      PROVE  op'.failed = {}
  BY <1>4 DEF Enable, Disable, RemoveAppPassword, ChangePassword, NoOp
<1>5. ASSUME RemoveSecurityFileFails
      PROVE  op'.failed = {}
  <2>1. CASE op.disabled
    BY <1>5, <2>1 DEF RemoveSecurityFileFails, NoOp
  <2>2. CASE ~op.disabled
    BY <1>5, <2>2 DEF RemoveSecurityFileFails, NoOp
  <2> QED
    BY <2>1, <2>2
<1>6. ASSUME Rewrap \/ ScanPlain \/ ScanBlobs \/ Cleaned
      PROVE  op' = NoOp \/ op'.failed = op.failed
  BY <1>0, <1>6 DEF Rewrap, ScanPlain, ScanBlobs, Cleaned, Op
<1>7. ASSUME RaiseOuter \/ RaiseFlag \/ LowerOuter \/ LowerFlag \/ Extracted \/ WriteReport
      PROVE  op'.failed = op.failed
  BY <1>0, <1>7 DEF RaiseOuter, RaiseFlag, LowerOuter, LowerFlag, Extracted, WriteReport, Op
<1>8. ASSUME WriteReportFails \/ LowerOuterFails \/ LowerFlagFails
      PROVE  op'.failed = op.failed
  BY <1>0, <1>8 DEF WriteReportFails, LowerOuterFails, LowerFlagFails, Undo, Op
<1>9. ASSUME NEW a \in Accounts,
             WriteBlob(a) \/ SweepPlain(a) \/ Extract(a) \/ Quarantine(a) \/ CleanBlob(a)
      PROVE  op'.failed = op.failed
  BY <1>0, <1>9 DEF WriteBlob, SweepPlain, Extract, Quarantine, CleanBlob, Op
<1>10. CASE Quiet
  BY <1>1, <1>2, <1>3, <1>4, <1>5, <1>6, <1>7, <1>8, <1>10 DEF Quiet
<1>11. CASE ~ \E a \in Accounts : ExtractFails(a)
  BY <1>1, <1>2, <1>3, <1>4, <1>5, <1>6, <1>7, <1>8, <1>9, <1>11
     DEF Next, PasswordNext, EnableNext, DisableNext
<1> QED
  BY <1>10, <1>11

(* Actions that touch no copy leave every account where it is.               *)
LEMMA InPlaceQuiet ==
  ASSUME Overlap = {}, KeepInv, InPlace, Next, mishaps' <= 1, Quiet, ~Extracted, ~Crash
  PROVE  InPlace'
<1> USE DEF disk, steam, history
<1>0. TypeInv /\ OpeningFits /\ SavingFits /\ mishaps \in Nat /\ op \in Op /\ save \in SaveOp /\ Alone
  BY DEF KeepInv, TypeInv, TypeOK
<1>1. /\ UNCHANGED <<plain, aside, blob, listed, saved, imported>> /\ Encrypted' = Encrypted
      /\ Encrypted => file'.key = file.key
  BY <1>0, CopiesUntouched
<1>2. op.pc \notin {"extract", "quarantine"} \/ mishaps' = mishaps + 1
  <2>1. CASE WriteReportFails
    BY <2>1 DEF WriteReportFails, Mishap
  <2>2. CASE SaveFails \/ \E a \in Accounts, v \in Values : BeginAccountSave(a, v)
    BY <1>0, <2>2 DEF SaveFails, BeginAccountSave, MaySave, Alone, OpIdle, SaveIdle
  <2>3. CASE UnlockApp \/ Lock
    BY <1>0, <2>3, LockedBetween DEF OpIdle
  <2>4. CASE ~WriteReportFails /\ ~SaveFails /\ ~UnlockApp /\ ~Lock
             /\ ~ \E a \in Accounts, v \in Values : BeginAccountSave(a, v)
    BY <2>4 DEF Quiet, Rewrap, StorePassword, StorePasswordFails, Enable, ScanPlain, Swept, Disable,
                RemoveAppPassword, ScanBlobs, LowerOuter, LowerOuterFails, LowerFlagFails, Cleaned,
                RemoveSecurityFile, RemoveSecurityFileFails, SetAppPassword, ChangePassword, SettingsPage, OpIdle
  <2> QED
    BY <2>1, <2>2, <2>3, <2>4
<1>3. op'.failed \in {op.failed, {}}
  BY <1>0, FailuresKept
<1>4. save' = save \/ (save.pc # "install" /\ save'.pc # "install")
  <2>1. CASE SaveFails
    BY <2>1 DEF SaveFails, NoSave
  <2>2. ASSUME NEW a \in Accounts, NEW v \in Values, BeginAccountSave(a, v)
        PROVE  save.pc # "install" /\ save'.pc # "install"
    BY <2>2 DEF BeginAccountSave, MaySave, SaveIdle, NoSave
  <2>3. CASE ~SaveFails /\ ~ \E a \in Accounts, v \in Values : BeginAccountSave(a, v)
    <3>1. CASE \/ UnlockApp \/ Lock \/ Rewrap \/ StorePassword \/ StorePasswordFails \/ Enable \/ ScanPlain
               \/ Swept \/ Disable \/ RemoveAppPassword \/ ScanBlobs
      BY <3>1 DEF UnlockApp, Lock, Rewrap, StorePassword, StorePasswordFails, Enable, ScanPlain, Swept, Disable,
                  RemoveAppPassword, ScanBlobs
    <3>2. CASE \/ WriteReportFails \/ LowerOuter \/ LowerOuterFails \/ LowerFlagFails \/ Cleaned
               \/ RemoveSecurityFile \/ RemoveSecurityFileFails
               \/ \E pw \in Passwords : SetAppPassword(pw) \/ ChangePassword(pw)
      BY <3>2 DEF WriteReportFails, LowerOuter, LowerOuterFails, LowerFlagFails, Cleaned, RemoveSecurityFile,
                  RemoveSecurityFileFails, SetAppPassword, ChangePassword
    <3> QED
      BY <2>3, <3>1, <3>2 DEF Quiet
  <2> QED
    BY <2>1, <2>2, <2>3
<1>5. ASSUME NEW a \in Accounts, Due(a)'
      PROVE  Placed(a)'
  <2>1. Due(a) /\ Placed(a)
    BY <1>1, <1>5 DEF Due, InPlace
  <2>2. Straight(a) => Straight(a)'
    BY <1>1 DEF Straight, UnderKey, InBlob
  <2>3. AsideOnly(a) => AsideOnly(a)'
    BY <1>1, <1>4 DEF AsideOnly, Replacing
  <2>4. ~Failing(a)
    BY <1>0, <1>2 DEF Failing
  <2> QED
    BY <1>0, <1>1, <1>3, <1>5, <2>1, <2>2, <2>3, <2>4, PlacedStays DEF Due
<1> QED
  BY <1>5 DEF InPlace

(* A crash in the middle of something is the one failure: before it nothing  *)
(* had failed, so an interrupted save has no old blob behind it.             *)
LEMMA InPlaceCrash ==
  ASSUME KeepInv, InPlace, mishaps = 0 => Spotless, Crash, Next, mishaps' <= 1
  PROVE  InPlace'
<1> USE DEF disk, steam, history
<1>0. TypeInv /\ OpeningFits /\ SavingFits /\ Alone /\ mishaps \in Nat
  BY DEF KeepInv, TypeInv, TypeOK
<1>1. /\ UNCHANGED <<file, plain, aside, blob, listed, saved, imported>>
      /\ op'.failed = {} /\ save'.pc = "idle"
  BY DEF Crash, NoOp, NoSave
<1>2. Encrypted' = Encrypted
  BY <1>1 DEF Encrypted
<1>3. CASE OpIdle /\ SaveIdle
  <2>1. op.failed = {} /\ op.pc = "idle" /\ save.pc = "idle"
    BY <1>0, <1>3 DEF TypeInv, OpFits, OpIdle, SaveIdle, NoOp
  <2> QED
    BY <1>0, <1>1, <1>2, <2>1, PlacedStays DEF InPlace, Due, Straight, UnderKey, InBlob, AsideOnly, Replacing, Failing
<1>4. CASE ~(OpIdle /\ SaveIdle)
  <2>1. Spotless /\ op.failed = {}
    BY <1>0, <1>4 DEF Crash, Mishap, Spotless
  <2>2. ASSUME NEW a \in Accounts, AsideOnly(a)
        PROVE  AsideOnly(a)'
    <3>1. Replacing(a) => blob[a] = None
      BY <1>0, <2>1 DEF Replacing, SavingFits, Spotless, InUse, Alone, OpIdle, SaveIdle
    <3> QED
      BY <1>1, <2>2, <3>1 DEF AsideOnly, Replacing
  <2>3. ASSUME NEW a \in Accounts, Due(a)'
        PROVE  Placed(a)'
    <3>1. Due(a) /\ Placed(a)
      BY <1>1, <2>3 DEF Due, InPlace
    <3>2. Straight(a) => Straight(a)'
      BY <1>1, <1>2 DEF Straight, UnderKey, InBlob
    <3> QED
      BY <1>0, <1>1, <2>1, <2>2, <2>3, <3>1, <3>2, PlacedStays DEF Due
  <2> QED
    BY <2>3 DEF InPlace
<1> QED
  BY <1>3, <1>4

(* Actions that move only blobs with the flag down do not reach a session    *)
(* that is plain, nor the place of one that is aside.                        *)
LEMMA InPlaceBlobs ==
  ASSUME Overlap = {}, KeepInv, InPlace, Next,
         \/ RaiseOuter \/ RaiseOuterFails \/ RaiseFlagFails
         \/ \E a \in Accounts : WriteBlob(a) \/ WriteBlobFails(a) \/ CleanBlob(a)
  PROVE  InPlace'
<1> USE DEF disk, steam, history
<1>0. TypeInv /\ OpeningFits /\ SavingFits /\ Alone /\ blob \in [Accounts -> Blob \cup {None}]
  BY DEF KeepInv, TypeInv, TypeOK
<1>1. /\ UNCHANGED <<file, plain, aside, listed, saved, imported>> /\ ~Encrypted /\ Encrypted' = Encrypted
  BY <1>0, BlobsTouched DEF Encrypted
<1>2. op.pc \in {"blobs", "raise", "clean"} /\ save' = save
  BY DEF RaiseOuter, RaiseOuterFails, RaiseFlagFails, WriteBlob, WriteBlobFails, CleanBlob
<1>3. save.pc = "idle"
  BY <1>0, <1>2 DEF Alone, OpIdle, SaveIdle
<1>4. op'.failed \in {op.failed, {}}
  <2>1. ~ \E a \in Accounts : ExtractFails(a)
    BY <1>2 DEF ExtractFails
  <2> QED
    BY <1>0, <2>1, FailuresKept
<1>5. ASSUME NEW a \in Accounts, AsideOnly(a)
      PROVE  AsideOnly(a)'
  <2>1. plain[a] = None /\ blob[a] = None
    BY <1>3, <1>5 DEF AsideOnly, Replacing
  <2>2. blob'[a] = None
    <3>1. CASE RaiseOuter \/ RaiseOuterFails \/ RaiseFlagFails \/ \E b \in Accounts : WriteBlobFails(b)
      BY <2>1, <3>1 DEF RaiseOuter, RaiseOuterFails, RaiseFlagFails, WriteBlobFails, UndoBlobs
    <3>2. ASSUME NEW b \in Accounts, WriteBlob(b)
          PROVE  blob'[a] = None
      BY <1>0, <2>1, <3>2 DEF WriteBlob
    <3>3. ASSUME NEW b \in Accounts, CleanBlob(b)
          PROVE  blob'[a] = None
      BY <1>0, <2>1, <3>3 DEF CleanBlob, RemoveBlob
    <3> QED
      BY <3>1, <3>2, <3>3
  <2> QED
    BY <1>1, <1>2, <1>3, <1>5, <2>2 DEF AsideOnly, Replacing
<1>6. ASSUME NEW a \in Accounts, Due(a)'
      PROVE  Placed(a)'
  <2>1. Due(a) /\ Placed(a)
    BY <1>1, <1>6 DEF Due, InPlace
  <2>2. Straight(a) => Straight(a)'
    BY <1>1 DEF Straight
  <2>3. ~Failing(a)
    BY <1>2 DEF Failing
  <2> QED
    BY <1>0, <1>1, <1>4, <1>5, <1>6, <2>1, <2>2, <2>3, PlacedStays DEF Due
<1> QED
  BY <1>6 DEF InPlace

(* Actions that move only directories with the flag up do not reach a        *)
(* session that is in its blob.                                              *)
LEMMA InPlacePlain ==
  ASSUME Overlap = {}, KeepInv, InPlace, Next,
         DropPlain \/ \E a \in Accounts : SweepPlain(a) \/ Extract(a)
  PROVE  InPlace'
<1> USE DEF disk, steam, history
<1>0. /\ TypeInv /\ OpeningFits /\ SavingFits /\ Alone /\ op \in Op /\ save \in SaveOp
      /\ plain \in [Accounts -> Values \cup {None, Torn}] /\ mishaps \in Nat
  BY DEF KeepInv, TypeInv, TypeOK
<1>1. /\ UNCHANGED <<file, aside, blob, listed, saved, imported>> /\ Encrypted /\ Encrypted' = Encrypted
  BY <1>0, PlainTouched DEF Encrypted
<1>2. save.pc # "install" /\ save'.pc # "install"
  <2>1. CASE DropPlain
    BY <1>0, <2>1 DEF DropPlain, Save, SaveOp
  <2>2. ASSUME NEW a \in Accounts, SweepPlain(a) \/ Extract(a)
        PROVE  save.pc # "install" /\ save'.pc # "install"
    BY <1>0, <2>2 DEF SweepPlain, Extract, Alone, OpIdle, SaveIdle
  <2> QED
    BY <2>1, <2>2
<1>3. op.pc \notin {"quarantine"}
      /\ (op.pc = "extract" => op'.pc = "extract" /\ op'.failed = op.failed /\ mishaps' = mishaps)
  <2>1. CASE DropPlain
    BY <1>0, <2>1 DEF DropPlain, Alone, OpIdle, SaveIdle
  <2>2. ASSUME NEW a \in Accounts, SweepPlain(a)
        PROVE  op.pc \notin {"quarantine", "extract"}
    BY <2>2 DEF SweepPlain
  <2>3. ASSUME NEW a \in Accounts, Extract(a)
        PROVE  op.pc = "extract" /\ op'.pc = "extract" /\ op'.failed = op.failed /\ mishaps' = mishaps
    BY <1>0, <2>3 DEF Extract, Op
  <2> QED
    BY <2>1, <2>2, <2>3
<1>4. op'.failed \in {op.failed, {}}
  <2>1. CASE DropPlain
    BY <2>1 DEF DropPlain
  <2>2. ASSUME NEW a \in Accounts, SweepPlain(a) \/ Extract(a)
        PROVE  op'.failed = op.failed
    BY <1>0, <2>2 DEF SweepPlain, Extract, Op
  <2> QED
    BY <2>1, <2>2
<1>5. ASSUME NEW a \in Accounts, AsideOnly(a)
      PROVE  AsideOnly(a)'
  <2>1. plain[a] = None /\ blob[a] = None
    BY <1>2, <1>5 DEF AsideOnly, Replacing
  <2>2. plain'[a] = None
    <3>1. CASE DropPlain
      BY <1>0, <2>1, <3>1 DEF DropPlain, RemovePlain
    <3>2. ASSUME NEW b \in Accounts, SweepPlain(b)
          PROVE  plain'[a] = None
      BY <1>0, <2>1, <3>2 DEF SweepPlain, RemovePlain
    <3>3. ASSUME NEW b \in Accounts, Extract(b)
          PROVE  plain'[a] = None
      BY <1>0, <2>1, <3>3 DEF Extract, Decrypts
    <3> QED
      BY <3>1, <3>2, <3>3
  <2> QED
    BY <1>1, <1>2, <1>5, <2>1, <2>2 DEF AsideOnly, Replacing
<1>6. ASSUME NEW a \in Accounts, Due(a)'
      PROVE  Placed(a)'
  <2>1. Due(a) /\ Placed(a)
    BY <1>1, <1>6 DEF Due, InPlace
  <2>2. Straight(a) => Straight(a)'
    BY <1>1 DEF Straight, UnderKey, InBlob
  <2>3. Failing(a) => Failing(a)' /\ op'.failed = op.failed
    BY <1>1, <1>3 DEF Failing, UnderKey, InBlob
  <2> QED
    BY <1>0, <1>1, <1>4, <1>5, <1>6, <2>1, <2>2, <2>3, PlacedStays DEF Due
<1> QED
  BY <1>6 DEF InPlace

(* What did not extract goes on to quarantine still in its blob.             *)
LEMMA InPlaceExtracted ==
  ASSUME Overlap = {}, KeepInv, InPlace, Next, Extracted
  PROVE  InPlace'
<1> USE DEF disk, steam, history
<1>0. TypeInv /\ OpeningFits /\ op \in Op
  BY DEF KeepInv, TypeInv, TypeOK
<1>1. /\ UNCHANGED <<file, plain, aside, blob, listed, saved, imported, save, mishaps>> /\ Encrypted' = Encrypted
      /\ op.pc = "extract" /\ op' = [op EXCEPT !.pc = IF op.failed = {} THEN "lower" ELSE "quarantine", !.done = {}]
  BY DEF Extracted, Encrypted
<1>2. op'.failed = op.failed /\ op'.done = {} /\ (op.failed # {} => op'.pc = "quarantine")
  BY <1>0, <1>1 DEF Op
<1>3. ASSUME NEW a \in Accounts, Due(a)'
      PROVE  Placed(a)'
  <2>1. Due(a) /\ Placed(a)
    BY <1>1, <1>3 DEF Due, InPlace
  <2>2. (Straight(a) => Straight(a)') /\ (AsideOnly(a) => AsideOnly(a)')
    BY <1>1 DEF Straight, UnderKey, InBlob, AsideOnly, Replacing
  <2>3. a \in op.failed /\ Failing(a) => Failing(a)'
    BY <1>1, <1>2 DEF Failing, UnderKey, InBlob
  <2> QED
    BY <1>0, <1>1, <1>2, <1>3, <2>1, <2>2, <2>3, PlacedStays DEF Due
<1> QED
  BY <1>3 DEF InPlace

(* A blob under the key that does not extract is the one failure.            *)
LEMMA InPlaceExtractFails ==
  ASSUME KeepInv, NotWiped, InPlace, Next, NEW b \in Accounts, ExtractFails(b)
  PROVE  InPlace'
<1> USE DEF disk, steam, history
<1>0. /\ TypeInv /\ OpeningFits /\ op \in Op /\ plain \in [Accounts -> Values \cup {None, Torn}]
      /\ mishaps \in Nat /\ mishaps' \in Nat /\ mishaps' >= mishaps /\ Alone
      /\ op.key = file.key /\ Encrypted
  BY MishapsGrow, KindAt, FlagAt DEF KeepInv, TypeInv, TypeOK, ExtractFails
<1>1. /\ UNCHANGED <<file, aside, blob, listed, saved, imported, save>> /\ Encrypted' = Encrypted
      /\ op.pc = "extract" /\ b \in op.accounts \ op.done
      /\ op' = [op EXCEPT !.done = @ \cup {b}, !.failed = @ \cup {b}]
  BY DEF ExtractFails, Encrypted
<1>2. op'.pc = "extract" /\ op'.failed = op.failed \cup {b}
  BY <1>0, <1>1 DEF Op
<1>3. save.pc = "idle"
  BY <1>0, <1>1 DEF Alone, OpIdle, SaveIdle
<1>4. ASSUME NEW a \in Accounts, Failing(a)
      PROVE  Failing(a)'
  BY <1>0, <1>1, <1>2, <1>4 DEF Failing, UnderKey, InBlob
<1>5. ASSUME NEW a \in Accounts, a # b, Due(a)'
      PROVE  Placed(a)'
  <2>1. Due(a) /\ Placed(a)
    BY <1>1, <1>5 DEF Due, InPlace
  <2>2. Straight(a) => Straight(a)'
    BY <1>0, <1>1 DEF Straight, UnderKey, InBlob
  <2>3. AsideOnly(a) => AsideOnly(a)'
    <3>1. plain'[a] = plain[a]
      BY <1>0, <1>5 DEF ExtractFails
    <3> QED
      BY <1>1, <3>1 DEF AsideOnly, Replacing
  <2> QED
    BY <1>0, <1>1, <1>2, <1>4, <1>5, <2>1, <2>2, <2>3, PlacedStays DEF Due
<1>6. ASSUME Due(b)'
      PROVE  Placed(b)'
  <2>1. Due(b) /\ Placed(b)
    BY <1>1, <1>6 DEF Due, InPlace
  <2>2. b \in listed /\ blob[b] # None /\ b \notin op.failed
    BY <1>0, <1>1 DEF OpeningFits, TypeInv, OpFits
  <2>3. UnderKey(b)
    BY <1>0, <1>3, <2>1, <2>2 DEF Placed, Straight, AsideOnly, Replacing
  <2>4. mishaps' = mishaps + 1
    BY <1>0, <2>3 DEF ExtractFails, Decrypts, UnderKey, InBlob, Mishap
  <2>5. Failing(b)'
    BY <1>0, <1>1, <1>2, <2>3, <2>4 DEF Failing, UnderKey, InBlob
  <2> QED
    BY <1>1, <1>2, <2>2, <2>5 DEF Placed
<1> QED
  BY <1>5, <1>6 DEF InPlace

(* The blob goes into the report that is being written.                      *)
LEMMA InPlaceQuarantine ==
  ASSUME KeepInv, InPlace, Next, mishaps' <= 1, NEW b \in Accounts, Quarantine(b)
  PROVE  InPlace'
<1> USE DEF disk, steam, history
<1>0. /\ TypeInv /\ OpeningFits /\ op \in Op /\ blob \in [Accounts -> Blob \cup {None}]
      /\ quarantine \in Seq(Report) /\ mishaps \in Nat /\ mishaps' \in Nat /\ mishaps' >= mishaps
      /\ Encrypted /\ quarantine # <<>>
  BY MishapsGrow, FlagAt DEF KeepInv, TypeInv, TypeOK, Quarantine, ReportsFit
<1>1. /\ UNCHANGED <<file, plain, aside, listed, saved, imported, save>> /\ Encrypted' = Encrypted
      /\ op.pc = "quarantine" /\ b \in op.failed \ op.done /\ op' = [op EXCEPT !.done = @ \cup {b}]
      /\ \A a \in Accounts \ {b} : blob'[a] = blob[a]
  BY <1>0 DEF Quarantine, Encrypted
<1>2. op'.pc = "quarantine" /\ op'.failed = op.failed /\ op'.done = op.done \cup {b}
  BY <1>0, <1>1 DEF Op
<1>3. /\ Newest' = Newest /\ \A a \in Accounts \ {b} : quarantine'[Newest].blobs[a] = quarantine[Newest].blobs[a]
      /\ \/ blob[b] # None /\ mishaps' = mishaps + 1
         \/ quarantine'[Newest].blobs[b] = blob[b]
  <2>1. CASE quarantine' = quarantine /\ blob[b] # None /\ mishaps' = mishaps + 1
    BY <2>1 DEF Newest
  <2>2. CASE quarantine' = [quarantine EXCEPT ![Newest].blobs[b] = blob[b]]
    <3> DEFINE r == [quarantine[Newest] EXCEPT !.blobs = [@ EXCEPT ![b] = blob[b]]]
    <3>1. quarantine[Newest] \in Report
      BY <1>0 DEF Newest
    <3>2. r \in Report /\ r.blobs[b] = blob[b] /\ \A a \in Accounts \ {b} : r.blobs[a] = quarantine[Newest].blobs[a]
      BY <1>0, <3>1 DEF Report
    <3>3. quarantine' = [quarantine EXCEPT ![Newest] = r]
      BY <2>2
    <3> HIDE DEF r
    <3>4. Len(quarantine') = Newest /\ quarantine'[Newest] = r
      BY <1>0, <3>2, <3>3, NewestReplaced
    <3> QED
      BY <3>2, <3>4 DEF Newest
  <2> QED
    BY <2>1, <2>2 DEF Quarantine, Mishap
<1>4. ASSUME NEW a \in Accounts, a \in listed \cap op.failed, Due(a), Failing(a)
      PROVE  Failing(a)'
  <2>1. mishaps >= 1 /\ mishaps' >= 1 /\ mishaps' # mishaps + 1
    BY <1>0, <1>4 DEF Failing
  <2>2. CASE a = b
    <3>1. UnderKey(b)
      BY <1>1, <1>4, <2>2 DEF Failing
    <3>2. Moved(quarantine[Newest], a)' /\ quarantine'[Newest].blobs[b].key = file'.key
      BY <1>1, <1>3, <2>1, <2>2, <3>1 DEF UnderKey, InBlob, Moved
    <3> QED
      BY <1>2, <1>3, <2>1, <2>2, <3>2 DEF Failing, Moved
  <2>3. CASE a # b
    <3>1. blob'[a] = blob[a] /\ quarantine'[Newest].blobs[a] = quarantine[Newest].blobs[a]
      BY <1>1, <1>3, <2>3
    <3>2. a \in op'.done <=> a \in op.done
      BY <1>2, <2>3
    <3> QED
      BY <1>1, <1>2, <1>3, <1>4, <2>1, <3>1, <3>2 DEF Failing, UnderKey, InBlob, Moved
  <2> QED
    BY <2>2, <2>3
<1>5. ASSUME NEW a \in Accounts, Due(a)'
      PROVE  Placed(a)'
  <2>1. Due(a) /\ Placed(a)
    BY <1>1, <1>5 DEF Due, InPlace
  <2>2. a \in listed \ op.failed => /\ Straight(a) => Straight(a)'
                                    /\ AsideOnly(a) => AsideOnly(a)'
    BY <1>0, <1>1 DEF Straight, UnderKey, InBlob, AsideOnly, Replacing
  <2> QED
    BY <1>0, <1>1, <1>2, <1>4, <1>5, <2>1, <2>2, PlacedStays DEF Due
<1> QED
  BY <1>5 DEF InPlace

(* The report opens with the key its blobs are under, and only what is in it *)
(* leaves the list.                                                          *)
LEMMA InPlaceReported ==
  ASSUME KeepInv, NotWiped, InPlace, Next, mishaps' <= 1, WriteReport
  PROVE  InPlace'
<1> USE DEF disk, steam, history
<1>0. /\ TypeInv /\ OpeningFits /\ op \in Op /\ quarantine \in Seq(Report) /\ quarantine # <<>>
      /\ mishaps \in Nat /\ op.key = file.key /\ op.key \in Keys /\ op.failed \subseteq listed
  BY KindAt DEF KeepInv, TypeInv, TypeOK, WriteReport, ReportsFit, OpFits, OpeningFits
<1>1. /\ UNCHANGED <<file, plain, aside, blob, saved, imported, save>> /\ Encrypted' = Encrypted
      /\ op.pc = "quarantine" /\ op.done = op.failed /\ op' = [op EXCEPT !.pc = "lower", !.done = {}]
      /\ quarantine' = [quarantine EXCEPT ![Newest].opens = op.key]
      /\ listed \ op.failed \subseteq listed' /\ listed' \subseteq listed
      /\ listed' = listed \ op.failed \/ mishaps' = mishaps + 1
  BY <1>0 DEF WriteReport, Encrypted, Mishap
<1>2. op'.failed = op.failed
  BY <1>0, <1>1 DEF Op
<1>3. /\ Newest \in DOMAIN quarantine' /\ quarantine'[Newest].blobs = quarantine[Newest].blobs
      /\ quarantine'[Newest].opens = file.key
  <2> DEFINE r == [quarantine[Newest] EXCEPT !.opens = op.key]
  <2>1. quarantine[Newest] \in Report
    BY <1>0 DEF Newest
  <2>2. r \in Report /\ r.blobs = quarantine[Newest].blobs /\ r.opens = op.key
    BY <1>0, <2>1 DEF Report
  <2>3. quarantine' = [quarantine EXCEPT ![Newest] = r]
    BY <1>1
  <2> HIDE DEF r
  <2>4. Newest \in DOMAIN quarantine' /\ quarantine'[Newest] = r
    BY <1>0, <2>2, <2>3, NewestReplaced
  <2> QED
    BY <1>0, <2>2, <2>4
<1>4. ASSUME NEW a \in Accounts, Due(a)'
      PROVE  Placed(a)'
  <2>1. Due(a) /\ Placed(a)
    BY <1>1, <1>4 DEF Due, InPlace
  <2>2. a \in listed \ op.failed => /\ Straight(a) => Straight(a)'
                                    /\ AsideOnly(a) => AsideOnly(a)'
    BY <1>1 DEF Straight, UnderKey, InBlob, AsideOnly, Replacing
  <2>3. CASE a \in listed \cap op.failed
    <3>1. /\ Moved(quarantine[Newest], a) /\ quarantine[Newest].blobs[a].key = file.key /\ mishaps >= 1
      BY <1>1, <2>1, <2>3 DEF Placed, Failing
    <3>2. InReport(a)'
      BY <1>1, <1>3, <3>1 DEF InReport, Moved
    <3>3. a \notin listed'
      BY <1>0, <1>1, <2>3, <3>1
    <3> QED
      BY <3>2, <3>3 DEF Placed
  <2>4. CASE ~(a \in listed \cap op.failed)
    BY <1>0, <1>1, <1>2, <1>4, <2>1, <2>2, <2>4, PlacedStays DEF Due
  <2> QED
    BY <2>3, <2>4
<1> QED
  BY <1>4 DEF InPlace

(* Before the flag turns, each side is what the other has.                   *)
LEMMA InPlaceRaised ==
  ASSUME Overlap = {}, KeepInv, NotWiped, InPlace, Next, RaiseFlag
  PROVE  InPlace'
<1> USE DEF disk, steam, history
<1>0. TypeInv /\ OpeningFits /\ SealingFits /\ op \in Op
  BY DEF KeepInv, TypeInv, TypeOK
<1>1. /\ file \in SecurityFile /\ file' = [file EXCEPT !.encrypted = TRUE] /\ ~Encrypted
      /\ UNCHANGED <<plain, aside, blob, listed, saved, imported, save>>
      /\ op.pc = "raise" /\ op' = [op EXCEPT !.pc = "sweep", !.done = {}]
  BY <1>0, FlagAt DEF RaiseFlag
<1>2. Encrypted' /\ file'.key = file.key /\ op'.failed = op.failed
  <2>1. file' \in SecurityFile /\ file'.encrypted /\ file'.key = file.key
    BY <1>1 DEF SecurityFile
  <2>2. file' # None
    BY <2>1
  <2> QED
    BY <1>0, <1>1, <2>1, <2>2 DEF Encrypted, Op
<1>3. ASSUME NEW a \in Accounts, Due(a)'
      PROVE  Placed(a)'
  <2>1. Due(a) /\ Placed(a)
    BY <1>1, <1>3 DEF Due, InPlace
  <2>2. a \in listed /\ Straight(a) => Straight(a)'
    <3> HAVE a \in listed /\ Straight(a)
    <3>1. a \in op.done /\ plain[a] = saved[a]
      BY <1>0, <1>1, <2>1 DEF Straight, SealingFits, Due
    <3>2. blob[a] # None /\ blob[a].value = plain[a] /\ blob[a].key = file.key
      BY <1>0, <1>1, <3>1 DEF SealingFits, NotWiped
    <3> QED
      BY <1>1, <1>2, <3>1, <3>2 DEF Straight, UnderKey, InBlob
  <2>3. (AsideOnly(a) => AsideOnly(a)') /\ ~Failing(a)
    BY <1>1 DEF AsideOnly, Replacing, Failing
  <2> QED
    BY <1>0, <1>1, <1>2, <1>3, <2>1, <2>2, <2>3, PlacedStays DEF Due
<1> QED
  BY <1>3 DEF InPlace

LEMMA InPlaceLowered ==
  ASSUME Overlap = {}, KeepInv, InPlace, Next, LowerFlag
  PROVE  InPlace'
<1> USE DEF disk, steam, history
<1>0. TypeInv /\ OpeningFits /\ op \in Op
  BY DEF KeepInv, TypeInv, TypeOK
<1>1. /\ file \in SecurityFile /\ file' = [file EXCEPT !.encrypted = FALSE] /\ Encrypted
      /\ UNCHANGED <<plain, aside, blob, listed, saved, imported, save>>
      /\ op.pc = "unraise" /\ op' = [op EXCEPT !.pc = "clean", !.done = {}, !.disabled = TRUE]
  BY <1>0, FlagAt DEF LowerFlag
<1>2. ~Encrypted' /\ op'.failed = op.failed
  BY <1>0, <1>1 DEF Encrypted, SecurityFile, Op
<1>3. ASSUME NEW a \in Accounts, Due(a)'
      PROVE  Placed(a)'
  <2>1. Due(a) /\ Placed(a)
    BY <1>1, <1>3 DEF Due, InPlace
  <2>2. a \in listed \ op.failed /\ Straight(a) => Straight(a)'
    <3> HAVE a \in listed \ op.failed /\ Straight(a)
    <3>1. blob[a] # None /\ blob[a].value = saved[a]
      BY <1>1 DEF Straight, UnderKey, InBlob
    <3>2. plain[a] = blob[a].value
      BY <1>0, <1>1, <3>1 DEF OpeningFits, Opened
    <3> QED
      BY <1>1, <1>2, <3>1, <3>2 DEF Straight
  <2>3. (AsideOnly(a) => AsideOnly(a)') /\ ~Failing(a)
    BY <1>1 DEF AsideOnly, Replacing, Failing
  <2> QED
    BY <1>0, <1>1, <1>2, <1>3, <2>1, <2>2, <2>3, PlacedStays DEF Due
<1> QED
  BY <1>3 DEF InPlace

(* A retry and a deletion of a report, and forgetting, leave the accounts    *)
(* they do not speak of where they are.                                      *)
LEMMA InPlaceOthers ==
  ASSUME Overlap = {}, KeepInv, InPlace, Next,
         QuarantineNext \/ \E b \in Accounts : ForgetAccount(b)
  PROVE  InPlace'
<1> USE DEF disk, steam, history
<1>0. TypeInv /\ OpeningFits /\ saved \in [Accounts -> Values \cup {None}]
  BY DEF KeepInv, TypeInv, TypeOK
<1>1. /\ UNCHANGED <<file, aside, blob, op>> /\ Encrypted' = Encrypted /\ op.pc = "idle" /\ op.failed = {}
      /\ save' = save \/ (save.pc # "install" /\ save'.pc # "install")
  <2>1. UNCHANGED <<file, aside, blob, op>> /\ OpIdle
    <3>1. ASSUME NEW i \in DOMAIN quarantine, DeleteQuarantine(i)
          PROVE  UNCHANGED <<file, aside, blob, op>> /\ OpIdle
      BY <3>1 DEF DeleteQuarantine, SettingsPage
    <3>2. ASSUME NEW i \in DOMAIN quarantine, RetryQuarantineImport(i)
          PROVE  UNCHANGED <<file, aside, blob, op>> /\ OpIdle
      BY <3>2 DEF RetryQuarantineImport, SettingsPage
    <3>3. ASSUME NEW b \in Accounts, ForgetAccount(b)
          PROVE  UNCHANGED <<file, aside, blob, op>> /\ OpIdle
      BY <3>3 DEF ForgetAccount, MaySave
    <3> QED
      BY <3>1, <3>2, <3>3 DEF QuarantineNext
  <2>2. save' = save \/ (save.pc # "install" /\ save'.pc # "install")
    BY DEF QuarantineNext, DeleteQuarantine, ForgetAccount, RetryQuarantineImport, NoSave, MaySave, SaveIdle
  <2> QED
    BY <1>0, <2>1, <2>2 DEF Encrypted, OpIdle, TypeInv, OpFits, NoOp
<1>2. ASSUME NEW a \in Accounts, Due(a)'
      PROVE  /\ saved'[a] = saved[a] /\ a \notin imported /\ plain'[a] = plain[a]
             /\ a \in listed' <=> a \in listed
  <2>0. a \notin imported' /\ saved'[a] # None
    BY <1>2 DEF Due
  <2>1. ASSUME NEW i \in DOMAIN quarantine, DeleteQuarantine(i)
        PROVE  /\ saved'[a] = saved[a] /\ a \notin imported /\ plain'[a] = plain[a]
               /\ a \in listed' <=> a \in listed
    BY <2>0, <2>1 DEF DeleteQuarantine
  <2>2. ASSUME NEW i \in DOMAIN quarantine, RetryQuarantineImport(i)
        PROVE  /\ saved'[a] = saved[a] /\ a \notin imported /\ plain'[a] = plain[a]
               /\ a \in listed' <=> a \in listed
    BY <1>0, <2>0, <2>2, ImportedOnly
  <2>3. ASSUME NEW b \in Accounts, ForgetAccount(b)
        PROVE  /\ saved'[a] = saved[a] /\ a \notin imported /\ plain'[a] = plain[a]
               /\ a \in listed' <=> a \in listed
    BY <1>0, <2>0, <2>3 DEF ForgetAccount
  <2> QED
    BY <2>1, <2>2, <2>3 DEF QuarantineNext
<1>3. ASSUME NEW a \in Accounts, Due(a)'
      PROVE  Placed(a)'
  <2>1. Due(a) /\ Placed(a)
    BY <1>2, <1>3 DEF Due, InPlace
  <2>2. (Straight(a) => Straight(a)') /\ (AsideOnly(a) => AsideOnly(a)') /\ ~Failing(a)
    <3>1. saved'[a] = saved[a] /\ plain'[a] = plain[a]
      BY <1>2, <1>3
    <3> QED
      BY <1>1, <3>1 DEF Straight, UnderKey, InBlob, AsideOnly, Replacing, Failing
  <2> QED
    BY <1>0, <1>1, <1>2, <1>3, <2>1, <2>2, PlacedStays DEF Due
<1> QED
  BY <1>3 DEF InPlace

(* A save puts its session where the flag looks for it, and the one it       *)
(* replaces is aside until then.                                             *)
LEMMA InPlaceSaves ==
  ASSUME KeepInv, InPlace, Next, mishaps' <= 1, SaveSteps, ~DropPlain, ~SaveFails
  PROVE  InPlace'
<1> USE DEF disk, steam, history
<1>0. /\ TypeInv /\ OpeningFits /\ SavingFits /\ Alone /\ save \in SaveOp /\ mishaps \in Nat
      /\ save.account \in Accounts /\ UNCHANGED <<file, op>>
  BY SaveTouches DEF KeepInv, TypeInv, TypeOK
<1>1. op.pc = "idle" /\ op.failed = {} /\ Encrypted' = Encrypted
  <2>1. OpIdle
    BY <1>0 DEF Alone, OpIdle, SaveIdle, SaveSteps, InstallFirst, SetAside, Install, InstallFails, SealSession,
                DropPlain, SaveFails, EnlistAccount, RemoveAccountCache
  <2> QED
    BY <1>0, <2>1 DEF Encrypted, OpIdle, TypeInv, OpFits, NoOp
<1>2. save'.pc = "install" => SetAside /\ save'.account = save.account /\ save'.backup = plain[save.account]
  <2>1. CASE SetAside
    BY <1>0, <2>1 DEF SetAside, SaveOp
  <2>2. CASE ~SetAside
    BY <1>0, <2>2 DEF SaveSteps, InstallFirst, Install, InstallFails, SealSession, EnlistAccount,
                      RemoveAccountCache, Save, SaveOp, NoSave
  <2> QED
    BY <2>1, <2>2
<1>3. ASSUME NEW a \in Accounts \ {save.account}, Due(a)'
      PROVE  Placed(a)'
  <2>1. /\ plain'[a] = plain[a] /\ aside'[a] = aside[a] /\ blob'[a] = blob[a] /\ saved'[a] = saved[a]
        /\ a \in listed' <=> a \in listed
        /\ a \in imported' <=> a \in imported
    BY <1>0, SaveTouches
  <2>2. Due(a) /\ Placed(a)
    BY <1>3, <2>1 DEF Due, InPlace
  <2>3. (Straight(a) => Straight(a)') /\ (AsideOnly(a) => AsideOnly(a)') /\ ~Failing(a)
    BY <1>0, <1>1, <1>2, <2>1 DEF Straight, UnderKey, InBlob, AsideOnly, Replacing, Failing
  <2> QED
    BY <1>0, <1>1, <1>3, <2>1, <2>2, <2>3, PlacedStays DEF Due
<1>4. ASSUME NEW a \in Accounts, a = save.account, Due(a)'
      PROVE  Placed(a)'
  <2>0. a \notin imported' /\ saved'[a] # None /\ op'.failed = {}
    BY <1>0, <1>1, <1>4 DEF Due
  <2>1. ASSUME a \in listed', Straight(a)' \/ AsideOnly(a)'
        PROVE  Placed(a)'
    BY <2>0, <2>1 DEF Placed
  <2>2. CASE InstallFirst \/ Install \/ SealSession
    <3>1. /\ listed' = listed
          /\ IF a \in listed THEN saved'[a] = save.value ELSE UNCHANGED <<saved, imported>>
      BY <1>0, <1>4, <2>2, SaveSays
    <3>2. CASE a \in listed
      <4>1. CASE InstallFirst \/ Install
        <5>1. ~Encrypted /\ plain'[a] = save.value
          BY <1>0, <1>4, <4>1, SaveSays DEF SavingFits
        <5> QED
          BY <1>1, <2>1, <3>1, <3>2, <5>1 DEF Straight
      <4>2. CASE SealSession
        <5>1. /\ Encrypted /\ blob'[a] = [value |-> save.value, key |-> file.key] /\ file.key \in Keys
              /\ save.value \in Values
          BY <1>0, <1>4, <4>2, SaveSays, FlagAt DEF SavingFits, TypeInv, SaveFits
        <5>2. blob'[a] \in Blob /\ blob'[a].value = save.value /\ blob'[a].key = file.key
          BY <5>1 DEF Blob
        <5>3. blob'[a] # None
          BY <5>2
        <5> QED
          BY <1>0, <1>1, <2>1, <3>1, <3>2, <5>1, <5>2, <5>3 DEF Straight, UnderKey, InBlob
      <4> QED
        BY <2>2, <4>1, <4>2
    <3>3. CASE a \notin listed
      <4>1. Due(a) /\ Placed(a)
        BY <1>4, <3>1, <3>3 DEF Due, InPlace
      <4> QED
        BY <1>0, <2>0, <3>1, <3>3, <4>1, PlacedStays
    <3> QED
      BY <3>2, <3>3
  <2>3. CASE SetAside \/ InstallFails
    <3>1. /\ ~Encrypted /\ UNCHANGED <<blob, listed, saved, imported>>
      BY <1>0, <1>4, <2>3, SaveSays DEF SavingFits
    <3>2. Due(a) /\ Placed(a) /\ ~Failing(a)
      BY <1>1, <1>4, <3>1 DEF Due, InPlace, Failing
    <3>3. CASE a \notin listed
      BY <1>0, <2>0, <3>1, <3>2, <3>3, PlacedStays
    <3>4. CASE a \in listed /\ SetAside
      <4>1. plain[a] # None /\ plain'[a] = None /\ aside'[a] = aside[a] \cup {plain[a]}
        BY <1>0, <1>4, <3>4, SaveSays
      <4>2. plain[a] = saved[a]
        BY <3>1, <3>2, <3>4, <4>1 DEF Placed, Straight, AsideOnly
      <4>3. save'.pc = "install" /\ save'.account = a /\ save'.backup = plain[a]
        BY <1>0, <1>4, <3>4 DEF SetAside, SaveOp
      <4> QED
        BY <2>1, <3>1, <3>4, <4>1, <4>2, <4>3 DEF AsideOnly, Replacing
    <3>5. CASE a \in listed /\ InstallFails
      <4>1. save.pc = "install" /\ plain[a] = None
        BY <1>0, <1>4, <3>5 DEF InstallFails, SavingFits
      <4>2. save.backup = saved[a]
        BY <1>4, <3>1, <3>2, <3>5, <4>1 DEF Placed, Straight, AsideOnly, Replacing, Due
      <4>3. plain'[a] = save.backup
        BY <1>0, <1>4, <3>5, <4>1 DEF InstallFails, TwoMishaps, TypeInv, TypeOK
      <4> QED
        BY <1>1, <2>1, <3>1, <3>5, <4>2, <4>3 DEF Straight
    <3> QED
      BY <2>3, <3>3, <3>4, <3>5
  <2>4. CASE EnlistAccount
    <3>1. saved'[a] = save.value /\ UNCHANGED <<plain, aside, blob>> /\ save.pc = "enlist" /\ a \in listed'
      BY <1>0, <1>4, <2>4, SaveSays
    <3>2. CASE ~Encrypted
      BY <1>0, <1>1, <1>4, <2>1, <3>1, <3>2 DEF SavingFits, Straight
    <3>3. CASE Encrypted
      <4>1. blob[a] = [value |-> save.value, key |-> file.key] /\ file.key \in Keys /\ save.value \in Values
        BY <1>0, <1>4, <3>1, <3>3, FlagAt DEF SavingFits, TypeInv, SaveFits
      <4>2. blob[a] \in Blob
        BY <4>1 DEF Blob
      <4>3. blob[a] # None /\ blob[a].value = save.value /\ blob[a].key = file.key
        BY <4>1, <4>2
      <4> QED
        BY <1>0, <1>1, <2>1, <3>1, <3>3, <4>3 DEF Straight, UnderKey, InBlob
    <3> QED
      BY <3>2, <3>3
  <2>5. CASE RemoveAccountCache
    BY <1>0, <1>4, <2>0, <2>5, SaveSays DEF SavingFits
  <2> QED
    BY <2>2, <2>3, <2>4, <2>5 DEF SaveSteps
<1> QED
  BY <1>0, <1>3, <1>4 DEF InPlace

LEMMA InPlaceKept ==
  ASSUME Overlap = {}, OneInv, Next, mishaps' <= 1
  PROVE  InPlace'
<1>1. KeepInv /\ NotWiped /\ InPlace /\ (mishaps = 0 => Spotless)
  BY MishapsGrow DEF OneInv, KeepInv
<1>2. CASE Quiet
  BY <1>1, <1>2, InPlaceQuiet, InPlaceExtracted, InPlaceCrash
<1>3. CASE \/ RaiseOuter \/ RaiseOuterFails \/ RaiseFlagFails
           \/ \E a \in Accounts : WriteBlob(a) \/ WriteBlobFails(a) \/ CleanBlob(a)
  BY <1>1, <1>3, InPlaceBlobs
<1>4. CASE DropPlain \/ \E a \in Accounts : SweepPlain(a) \/ Extract(a)
  BY <1>1, <1>4, InPlacePlain
<1>5. CASE \E a \in Accounts : ExtractFails(a)
  BY <1>1, <1>5, InPlaceExtractFails
<1>6. CASE \E a \in Accounts : Quarantine(a)
  BY <1>1, <1>6, InPlaceQuarantine
<1>7. CASE RaiseFlag \/ LowerFlag \/ WriteReport
  BY <1>1, <1>7, InPlaceRaised, InPlaceLowered, InPlaceReported
<1>8. CASE QuarantineNext \/ \E a \in Accounts : ForgetAccount(a)
  BY <1>1, <1>8, InPlaceOthers
<1>9. CASE SaveSteps /\ ~DropPlain /\ ~SaveFails
  BY <1>1, <1>9, InPlaceSaves
<1>10. ASSUME ~Quiet
       PROVE  InPlace'
  <2>1. CASE PasswordNext
    BY <1>10, <2>1 DEF PasswordNext, Quiet
  <2>2. CASE EnableNext
    BY <1>3, <1>4, <1>7, <1>10, <2>2 DEF EnableNext, Quiet
  <2>3. CASE DisableNext
    BY <1>3, <1>4, <1>5, <1>6, <1>7, <1>10, <2>3 DEF DisableNext, Quiet
  <2>4. CASE SaveNext
    BY <1>4, <1>8, <1>9, <1>10, <2>4 DEF SaveNext, SaveSteps, Quiet
  <2> QED
    BY <1>8, <1>10, <2>1, <2>2, <2>3, <2>4 DEF Next, Quiet
<1> QED
  BY <1>2, <1>10

(* While nothing has failed every blob extracts.                             *)
LEMMA NoFailures ==
  ASSUME Overlap = {}, KeepInv, NotWiped, Spotless, Next, mishaps = 0, mishaps' = 0
  PROVE  op'.failed = {} /\ ~ \E a \in Accounts : ExtractFails(a) \/ Quarantine(a)
<1>0. TypeInv /\ OpeningFits /\ op.failed = {}
  BY DEF KeepInv, Spotless
<1>1. ASSUME NEW a \in Accounts, ExtractFails(a)
      PROVE  FALSE
  <2>1. op.pc = "extract" /\ a \in op.accounts /\ ~Decrypts(a, op.key)
    BY <1>1 DEF ExtractFails, Mishap
  <2>2. blob[a] # None /\ Encrypted /\ op.key = file.key
    BY <1>0, <2>1, KindAt, FlagAt DEF OpeningFits
  <2> QED
    BY <2>1, <2>2 DEF Spotless, InUse, Decrypts
<1>2. ~ \E a \in Accounts : Quarantine(a)
  BY <1>0 DEF Quarantine
<1> QED
  BY <1>0, <1>1, <1>2, FailuresKept

(* The outer layer goes on just before the flag and comes off just before it.*)
LEMMA OuterFollows ==
  ASSUME Overlap = {}, KeepInv, NotWiped, Spotless, Next, mishaps = 0, mishaps' = 0
  PROVE  ~Encrypted' /\ op'.pc # "raise" => outer' = None
<1> USE DEF disk, steam, history
<1> DEFINE Follows == ~Encrypted' /\ op'.pc # "raise" => outer' = None
<1>0. TypeInv /\ OpeningFits /\ op \in Op /\ (~Encrypted /\ op.pc # "raise" => outer = None)
  BY DEF KeepInv, TypeInv, TypeOK, Spotless
<1>1. ASSUME Encrypted' = Encrypted, outer' = outer \/ Encrypted, op.pc = "raise" => op'.pc = "raise"
      PROVE  Follows
  BY <1>0, <1>1
<1>2. ASSUME Quiet
      PROVE  Follows
  <2>1. Encrypted' = Encrypted
    BY <1>0, <1>2, CopiesUntouched
  <2>2. outer' = outer \/ Encrypted
    <3>1. CASE UnlockApp
      BY <3>1 DEF UnlockApp, Encrypted
    <3>2. CASE LowerOuter \/ LowerOuterFails \/ LowerFlagFails
      BY <1>0, <3>2, FlagAt DEF LowerOuter, LowerOuterFails, LowerFlagFails
    <3>3. CASE \/ Lock \/ Rewrap \/ StorePassword \/ StorePasswordFails \/ Enable \/ ScanPlain \/ Swept
               \/ Disable \/ RemoveAppPassword \/ ScanBlobs
      BY <3>3 DEF Lock, Rewrap, StorePassword, StorePasswordFails, Enable, ScanPlain, Swept,
                  Disable, RemoveAppPassword, ScanBlobs
    <3>4. CASE \/ Extracted \/ WriteReportFails \/ Cleaned \/ RemoveSecurityFile \/ RemoveSecurityFileFails
               \/ SaveFails \/ Crash
               \/ \E pw \in Passwords : SetAppPassword(pw) \/ ChangePassword(pw)
               \/ \E a \in Accounts, v \in Values : BeginAccountSave(a, v)
      BY <3>4 DEF Extracted, WriteReportFails, Cleaned, RemoveSecurityFile, RemoveSecurityFileFails,
                  SaveFails, Crash, SetAppPassword, ChangePassword, BeginAccountSave
    <3> QED
      BY <1>2, <3>1, <3>2, <3>3, <3>4 DEF Quiet
  <2>3. op.pc = "raise" => op'.pc = "raise"
    <3>1. CASE UnlockApp \/ Lock
      BY <1>0, <3>1, LockedBetween
    <3>2. CASE SaveFails \/ \E a \in Accounts, v \in Values : BeginAccountSave(a, v)
      BY <3>2 DEF SaveFails, BeginAccountSave
    <3>3. CASE Crash
      BY <3>3 DEF Crash, Mishap, OpIdle
    <3>4. CASE ~UnlockApp /\ ~Lock /\ ~SaveFails /\ ~Crash
               /\ ~ \E a \in Accounts, v \in Values : BeginAccountSave(a, v)
      BY <1>2, <3>4 DEF Quiet, Rewrap, StorePassword, StorePasswordFails, Enable, ScanPlain, Swept, Disable,
                RemoveAppPassword, ScanBlobs, LowerOuter, LowerOuterFails, LowerFlagFails, Cleaned, WriteReportFails,
                RemoveSecurityFile, RemoveSecurityFileFails, SetAppPassword, ChangePassword, SettingsPage, OpIdle,
                Extracted
    <3> QED
      BY <3>1, <3>2, <3>3, <3>4
  <2> QED
    BY <1>1, <2>1, <2>2, <2>3
<1>3. ASSUME RaiseOuter
      PROVE  Follows
  BY <1>0, <1>3 DEF RaiseOuter, Op
<1>4. ~RaiseFlagFails
  BY DEF RaiseFlagFails, Mishap, TwoMishaps
<1>5. ASSUME RaiseOuterFails \/ \E a \in Accounts : WriteBlob(a) \/ WriteBlobFails(a) \/ CleanBlob(a)
      PROVE  Follows
  <2>1. file' = file /\ outer' = outer /\ op.pc # "raise"
    BY <1>5 DEF RaiseOuterFails, WriteBlob, WriteBlobFails, CleanBlob
  <2> QED
    BY <1>1, <2>1 DEF Encrypted
<1>6. ASSUME WriteReport \/ \E a \in Accounts : SweepPlain(a) \/ Extract(a) \/ ExtractFails(a) \/ Quarantine(a)
      PROVE  Follows
  <2>1. file' = file /\ outer' = outer /\ op.pc # "raise"
    BY <1>6 DEF WriteReport, SweepPlain, Extract, ExtractFails, Quarantine
  <2> QED
    BY <1>1, <2>1 DEF Encrypted
<1>7. ASSUME RaiseFlag
      PROVE  Follows
  <2>1. file \in SecurityFile /\ file' = [file EXCEPT !.encrypted = TRUE]
    BY <1>0, <1>7, FlagAt DEF RaiseFlag
  <2>2. file' \in SecurityFile /\ file'.encrypted
    BY <2>1 DEF SecurityFile
  <2>3. file' # None
    BY <2>2
  <2> QED
    BY <2>2, <2>3 DEF Encrypted
<1>8. ASSUME LowerFlag
      PROVE  Follows
  BY <1>8 DEF LowerFlag, NotWiped
<1>9. ASSUME QuarantineNext
      PROVE  Follows
  <2>1. UNCHANGED <<file, outer, op>>
    BY <1>9 DEF QuarantineNext, DeleteQuarantine, RetryQuarantineImport
  <2> QED
    BY <1>1, <2>1 DEF Encrypted
<1>10. ASSUME SaveSteps \/ \E a \in Accounts : ForgetAccount(a)
       PROVE  Follows
  <2>1. UNCHANGED <<file, outer, op>>
    BY <1>0, <1>10, SaveTouches DEF ForgetAccount
  <2> QED
    BY <1>1, <2>1 DEF Encrypted
<1> HIDE DEF Follows
<1>11. ASSUME ~Quiet
       PROVE  Follows
  <2>1. CASE PasswordNext
    BY <1>11, <2>1 DEF PasswordNext, Quiet
  <2>2. CASE EnableNext
    BY <1>3, <1>4, <1>5, <1>6, <1>7, <1>11, <2>2 DEF EnableNext, Quiet
  <2>3. CASE DisableNext
    BY <1>5, <1>6, <1>8, <1>11, <2>3 DEF DisableNext, Quiet
  <2>4. CASE SaveNext
    BY <1>10, <1>11, <2>4 DEF SaveNext, SaveSteps, Quiet
  <2> QED
    BY <1>9, <1>11, <2>1, <2>2, <2>3, <2>4 DEF Next, Quiet
<1>12. Follows
  BY <1>2, <1>11
<1> QED
  BY <1>12 DEF Follows

(* The blobs there are stay in use by the account, the save or the operation *)
(* that they were in use by.                                                 *)
LEMMA UseKept ==
  ASSUME Overlap = {}, KeepInv, NotWiped, Spotless, Next, mishaps = 0, mishaps' = 0
  PROVE  \A a \in Accounts : blob'[a] # None => InUse(a)'
<1> USE DEF disk, steam, history
<1> DEFINE Tidy == \A a \in Accounts : blob'[a] # None => InUse(a)'
<1>0. /\ TypeInv /\ SealingFits /\ OpeningFits /\ SavingFits /\ Alone /\ op \in Op /\ save \in SaveOp
      /\ blob \in [Accounts -> Blob \cup {None}] /\ op.failed = {}
      /\ \A a \in Accounts : blob[a] # None => InUse(a)
  BY DEF KeepInv, TypeInv, TypeOK, Spotless
<1>1. ASSUME blob' = blob, Encrypted' = Encrypted, Encrypted => file'.key = file.key, listed \subseteq listed',
             save' = save \/ save.pc \notin {"dropplain", "enlist", "purge"},
             op.pc \notin {"blobs", "raise", "clean"}
      PROVE  Tidy
  BY <1>0, <1>1 DEF InUse
<1>2. ASSUME Quiet
      PROVE  Tidy
  <2>1. blob' = blob /\ listed' = listed /\ Encrypted' = Encrypted /\ (Encrypted => file'.key = file.key)
    BY <1>0, <1>2, CopiesUntouched
  <2>2. save' = save \/ save.pc \notin {"dropplain", "enlist", "purge"}
    <3>1. CASE SaveFails
      BY <3>1 DEF SaveFails, Mishap
    <3>2. CASE Crash
      BY <3>2 DEF Crash, Mishap, SaveIdle
    <3>3. CASE \E a \in Accounts, v \in Values : BeginAccountSave(a, v)
      BY <3>3 DEF BeginAccountSave, MaySave, SaveIdle
    <3>4. CASE \/ UnlockApp \/ Lock \/ Rewrap \/ StorePassword \/ StorePasswordFails \/ Enable \/ ScanPlain
               \/ Swept \/ Disable \/ RemoveAppPassword \/ ScanBlobs
      BY <3>4 DEF UnlockApp, Lock, Rewrap, StorePassword, StorePasswordFails, Enable, ScanPlain, Swept, Disable,
                  RemoveAppPassword, ScanBlobs
    <3>5. CASE \/ Extracted \/ WriteReportFails \/ LowerOuter \/ LowerOuterFails \/ LowerFlagFails \/ Cleaned
               \/ RemoveSecurityFile \/ RemoveSecurityFileFails
               \/ \E pw \in Passwords : SetAppPassword(pw) \/ ChangePassword(pw)
      BY <3>5 DEF Extracted, WriteReportFails, LowerOuter, LowerOuterFails, LowerFlagFails, Cleaned,
                  RemoveSecurityFile, RemoveSecurityFileFails, SetAppPassword, ChangePassword
    <3> QED
      BY <1>2, <3>1, <3>2, <3>3, <3>4, <3>5 DEF Quiet
  <2>3. CASE op.pc \notin {"blobs", "raise", "clean"}
    BY <1>1, <2>1, <2>2, <2>3
  <2>4. CASE op.pc \in {"blobs", "raise", "clean"}
    <3>1. ~Lock /\ ~UnlockApp
      BY <1>0, <2>4, LockedBetween DEF OpIdle
    <3>2. ~Crash /\ ~SaveFails /\ ~ \E a \in Accounts, v \in Values : BeginAccountSave(a, v)
      <4>1. op.pc # "idle" /\ save.pc = "idle"
        BY <1>0, <2>4 DEF Alone, OpIdle, SaveIdle
      <4>2. ~Crash
        BY <4>1 DEF Crash, Mishap, OpIdle
      <4> QED
        BY <4>1, <4>2 DEF SaveFails, BeginAccountSave, MaySave, OpIdle
    <3>3. op.pc = "clean" /\ op.done = op.accounts
      BY <1>2, <2>4, <3>1, <3>2 DEF Quiet, Rewrap, StorePassword, StorePasswordFails, Enable, ScanPlain, Swept,
         Disable, RemoveAppPassword, ScanBlobs, LowerOuter, LowerOuterFails, LowerFlagFails, Cleaned,
         WriteReportFails, RemoveSecurityFile, RemoveSecurityFileFails, SetAppPassword, ChangePassword,
         SettingsPage, OpIdle, Extracted
    <3>4. \A a \in Accounts : blob[a] = None
      BY <1>0, <3>3, FlagAt DEF InUse
    <3> QED
      BY <2>1, <3>4
  <2> QED
    BY <2>3, <2>4
<1>3. ASSUME RaiseOuter
      PROVE  Tidy
  <2>1. blob' = blob /\ file' = file /\ op.pc = "blobs" /\ op'.pc = "raise" /\ op'.done = op.done
    BY <1>0, <1>3 DEF RaiseOuter, Op
  <2>2. ~Encrypted /\ ~Encrypted'
    BY <1>0, <2>1, FlagAt DEF Encrypted
  <2> QED
    BY <1>0, <2>1, <2>2 DEF InUse
<1>4. ~RaiseFlagFails
  BY DEF RaiseFlagFails, Mishap, TwoMishaps
<1>5. ~RaiseOuterFails
  <2>1. ASSUME RaiseOuterFails
        PROVE  FALSE
    <3>1. op.pc = "blobs" /\ ~OuterAccepts(op.key)
      BY <2>1 DEF RaiseOuterFails, Mishap
    <3> QED
      BY <1>0, <3>1, FlagAt DEF Spotless, OuterAccepts
  <2> QED
    BY <2>1
<1>6. ASSUME NEW b \in Accounts, WriteBlob(b)
      PROVE  Tidy
  <2>1. /\ op.pc = "blobs" /\ op' = [op EXCEPT !.done = @ \cup {b}] /\ file' = file
        /\ \A a \in Accounts \ {b} : blob'[a] = blob[a]
    BY <1>0, <1>6 DEF WriteBlob
  <2>2. op'.pc = "blobs" /\ op'.done = op.done \cup {b}
    BY <1>0, <2>1 DEF Op
  <2>3. ~Encrypted /\ ~Encrypted'
    BY <1>0, <2>1, FlagAt DEF Encrypted
  <2> QED
    BY <1>0, <2>1, <2>2, <2>3 DEF InUse
<1>7. ~ \E b \in Accounts : WriteBlobFails(b)
  BY <1>0 DEF WriteBlobFails, SealingFits, Mishap, TypeInv, OpFits
<1>8. ASSUME NEW b \in Accounts, CleanBlob(b)
      PROVE  Tidy
  <2>1. /\ op.pc = "clean" /\ op' = [op EXCEPT !.done = @ \cup {b}] /\ file' = file
        /\ blob' = [blob EXCEPT ![b] = None]
    BY <1>0, <1>8 DEF CleanBlob, RemoveBlob, Mishap
  <2>2. op'.pc = "clean" /\ op'.done = op.done \cup {b} /\ op'.accounts = op.accounts
    BY <1>0, <2>1 DEF Op
  <2>3. ~Encrypted /\ ~Encrypted'
    BY <1>0, <2>1, FlagAt DEF Encrypted
  <2>4. \A a \in Accounts : blob'[a] # None => a # b /\ blob[a] # None
    BY <1>0, <2>1
  <2> QED
    BY <1>0, <2>1, <2>2, <2>3, <2>4 DEF InUse
<1>9. ASSUME WriteReport \/ \E a \in Accounts : SweepPlain(a) \/ Extract(a)
      PROVE  Tidy
  <2>1. blob' = blob /\ file' = file /\ save' = save /\ op.pc \notin {"blobs", "raise", "clean"}
    BY <1>9 DEF WriteReport, SweepPlain, Extract
  <2>2. listed' = listed
    BY <1>0, <1>9 DEF WriteReport, SweepPlain, Extract, Mishap
  <2> QED
    BY <1>1, <2>1, <2>2 DEF Encrypted
<1>10. ASSUME RaiseFlag
       PROVE  Tidy
  <2>1. /\ file \in SecurityFile /\ file' = [file EXCEPT !.encrypted = TRUE] /\ ~Encrypted
        /\ op.pc = "raise" /\ UNCHANGED <<blob, listed>>
    BY <1>0, <1>10, FlagAt DEF RaiseFlag
  <2>2. file'.key = file.key
    BY <2>1 DEF SecurityFile
  <2>3. \A a \in Accounts : blob'[a] # None => a \in op.done
    BY <1>0, <2>1 DEF InUse
  <2>4. \A a \in op.done : blob[a].key = file.key /\ a \in listed
    BY <1>0, <2>1 DEF SealingFits, NotWiped
  <2>5. op'.pc = "sweep" /\ Encrypted'
    <3>1. file' \in SecurityFile /\ file'.encrypted
      BY <2>1 DEF SecurityFile
    <3>2. file' # None
      BY <3>1
    <3> QED
      BY <1>0, <1>10, <3>1, <3>2 DEF RaiseFlag, Encrypted, Op
  <2> QED
    BY <2>1, <2>2, <2>3, <2>4, <2>5 DEF InUse
<1>11. ASSUME LowerFlag
       PROVE  Tidy
  <2>1. /\ file \in SecurityFile /\ file' = [file EXCEPT !.encrypted = FALSE] /\ Encrypted
        /\ op.pc = "unraise" /\ UNCHANGED <<blob, listed>>
        /\ op' = [op EXCEPT !.pc = "clean", !.done = {}, !.disabled = TRUE]
    BY <1>0, <1>11, FlagAt DEF LowerFlag
  <2>2. ~Encrypted' /\ op'.pc = "clean" /\ op'.done = {} /\ op'.accounts = op.accounts
    BY <1>0, <2>1 DEF Encrypted, SecurityFile, Op
  <2>3. save.pc = "idle"
    BY <1>0, <2>1 DEF Alone, OpIdle, SaveIdle
  <2>4. \A a \in Accounts : blob[a] # None => a \in op.accounts
    BY <1>0, <2>1, <2>3 DEF InUse, OpeningFits
  <2> QED
    BY <2>1, <2>2, <2>4 DEF InUse
<1> HIDE DEF Tidy
<1>12. ASSUME QuarantineNext
       PROVE  Tidy
  <2>1. UNCHANGED <<file, blob, save>> /\ listed \subseteq listed' /\ OpIdle
    <3>1. ASSUME NEW i \in DOMAIN quarantine, DeleteQuarantine(i)
          PROVE  UNCHANGED <<file, blob, save>> /\ listed \subseteq listed' /\ OpIdle
      BY <3>1 DEF DeleteQuarantine, SettingsPage
    <3>2. ASSUME NEW i \in DOMAIN quarantine, RetryQuarantineImport(i)
          PROVE  UNCHANGED <<file, blob, save>> /\ listed \subseteq listed' /\ OpIdle
      <4>1. save' = save
        BY <3>2 DEF RetryQuarantineImport
      <4> QED
        BY <1>0, <3>2, <4>1, ImportedOnly
    <3> QED
      BY <1>12, <3>1, <3>2 DEF QuarantineNext
  <2> QED
    BY <1>1, <2>1 DEF Encrypted, OpIdle
<1>13. ASSUME SaveNext, ~Quiet
       PROVE  Tidy
  <2>1. file' = file /\ op' = op /\ op.pc = "idle" /\ Encrypted' = Encrypted
    <3>1. OpIdle /\ UNCHANGED <<file, op>>
      BY <1>0, <1>13 DEF Alone, OpIdle, SaveIdle, SaveNext, BeginAccountSave, InstallFirst, SetAside, Install,
         InstallFails, SealSession, DropPlain, SaveFails, EnlistAccount, RemoveAccountCache, ForgetAccount, MaySave
    <3> QED
      BY <3>1 DEF OpIdle, Encrypted
  <2>2. ASSUME Encrypted => \A a \in Accounts : blob'[a] # None =>
                  \/ blob'[a] = blob[a] /\ a \in listed'
                  \/ blob'[a] = blob[a] /\ a = save'.account /\ save'.pc \in {"dropplain", "enlist", "purge"}
                  \/ /\ blob'[a].key = file.key
                     /\ a = save'.account /\ save'.pc \in {"dropplain", "enlist", "purge"},
               ~Encrypted => blob' = blob
        PROVE  Tidy
    <3>1. CASE Encrypted
      BY <1>0, <2>1, <2>2, <3>1 DEF Tidy, InUse
    <3>2. CASE ~Encrypted
      BY <1>0, <2>1, <2>2, <3>2 DEF Tidy, InUse
    <3> QED
      BY <3>1, <3>2
  <2>3. CASE InstallFirst \/ SetAside \/ Install \/ InstallFails
    <3>1. ~Encrypted /\ blob' = blob
      BY <1>0, <2>3 DEF InstallFirst, SetAside, Install, InstallFails, SavingFits
    <3> QED
      BY <2>2, <3>1
  <2>4. CASE SealSession
    <3>1. /\ Encrypted /\ save.account \in Accounts /\ save.pc = "staged" /\ listed' = listed
          /\ blob'[save.account] = [value |-> save.value, key |-> file.key]
          /\ \A a \in Accounts \ {save.account} : blob'[a] = blob[a]
      BY <1>0, <2>4, SaveTouches, SaveSays DEF SaveSteps, SavingFits
    <3>2. save'.account = save.account /\ save'.pc = "dropplain"
      BY <1>0, <2>4 DEF SealSession, Save, SaveOp
    <3> QED
      BY <1>0, <2>2, <3>1, <3>2 DEF InUse
  <2>5. CASE DropPlain
    <3>1. Encrypted /\ blob' = blob /\ listed' = listed
      BY <1>0, <2>5 DEF DropPlain, SavingFits
    <3>2. save'.account = save.account /\ save'.pc = "enlist"
      BY <1>0, <2>5 DEF DropPlain, Save, SaveOp
    <3> QED
      BY <1>0, <2>2, <3>1, <3>2 DEF InUse
  <2>6. CASE EnlistAccount
    <3>1. blob' = blob /\ listed' = listed \cup {save.account}
      BY <2>6 DEF EnlistAccount
    <3> QED
      BY <1>0, <2>2, <3>1 DEF InUse
  <2>7. CASE RemoveAccountCache
    <3>1. listed' = listed /\ blob' = IF Encrypted THEN [blob EXCEPT ![save.account] = None] ELSE blob
      BY <2>7 DEF RemoveAccountCache, Mishap
    <3>2. Encrypted => \A a \in Accounts : blob'[a] # None => a # save.account /\ blob'[a] = blob[a]
      BY <1>0, <3>1
    <3> QED
      BY <1>0, <2>2, <3>1, <3>2 DEF InUse
  <2>8. CASE \E b \in Accounts : ForgetAccount(b)
    <3>1. PICK b \in Accounts : ForgetAccount(b)
      BY <2>8
    <3>2. /\ blob' = blob /\ listed' = listed \ {b} /\ save.pc = "idle"
          /\ save'.pc = "purge" /\ save'.account = b
      BY <3>1 DEF ForgetAccount, MaySave, SaveIdle, NoSave
    <3> QED
      BY <1>0, <2>2, <3>2 DEF InUse
  <2> QED
    BY <1>13, <2>3, <2>4, <2>5, <2>6, <2>7, <2>8 DEF SaveNext, Quiet
<1>14. ASSUME ~Quiet
       PROVE  Tidy
  <2>0. ~ \E a \in Accounts : ExtractFails(a) \/ Quarantine(a)
    BY NoFailures
  <2>1. CASE PasswordNext
    BY <1>14, <2>1 DEF PasswordNext, Quiet
  <2>2. CASE EnableNext
    BY <1>3, <1>4, <1>5, <1>6, <1>7, <1>9, <1>10, <1>14, <2>2 DEF EnableNext, Quiet
  <2>3. CASE DisableNext
    BY <1>8, <1>9, <1>11, <1>14, <2>0, <2>3 DEF DisableNext, Quiet
  <2> QED
    BY <1>12, <1>13, <1>14, <2>1, <2>2, <2>3 DEF Next, Quiet
<1> QED
  BY <1>2, <1>14 DEF Tidy

LEMMA OneInitially == Overlap = {} /\ Init => OneInv
<1> SUFFICES ASSUME Overlap = {}, Init PROVE OneInv
  OBVIOUS
<1>1. KeepInv
  BY KeptInitially
<1>2. op = NoOp /\ outer = None /\ \A a \in Accounts : saved[a] = None /\ blob[a] = None
  BY DEF Init, Nothing
<1> QED
  BY <1>1, <1>2 DEF OneInv, NotWiped, NoOp, InPlace, Due, Spotless

LEMMA OneAlways ==
  ASSUME Overlap = {}, OneInv, [Next]_vars
  PROVE  OneInv'
<1>0. KeepInv /\ NotWiped /\ TypeInv /\ Alone
  BY DEF OneInv, KeepInv
<1>1. KeepInv'
  BY <1>0, KeptAlways
<1>2. CASE Next
  <2>1. NotWiped'
    BY <1>0, <1>2, NotWipedKept
  <2>2. mishaps' <= 1 => InPlace'
    BY <1>2, InPlaceKept
  <2>3. mishaps' = 0 => Spotless'
    <3> HAVE mishaps' = 0
    <3>1. mishaps = 0 /\ Spotless
      BY <1>0, <1>2, MishapsGrow DEF OneInv
    <3>2. op'.failed = {}
      BY <1>0, <1>2, <3>1, NoFailures
    <3>3. ~Encrypted' /\ op'.pc # "raise" => outer' = None
      BY <1>0, <1>2, <3>1, OuterFollows
    <3>4. \A a \in Accounts : blob'[a] # None => InUse(a)'
      BY <1>0, <1>2, <3>1, UseKept
    <3> QED
      BY <3>2, <3>3, <3>4 DEF Spotless
  <2> QED
    BY <1>1, <2>1, <2>2, <2>3 DEF OneInv
<1>3. CASE UNCHANGED vars
  <2>1. NotWiped'
    BY <1>0, <1>3 DEF vars, NotWiped
  <2>2. InPlace => InPlace'
    BY <1>3 DEF vars, InPlace, Due, Placed, Straight, UnderKey, InBlob, AsideOnly, Replacing, Failing, InReport,
                Moved, Encrypted, Newest
  <2>3. Spotless => Spotless'
    BY <1>3 DEF vars, Spotless, InUse, Encrypted
  <2> QED
    BY <1>1, <1>3, <2>1, <2>2, <2>3 DEF OneInv, vars
<1> QED
  BY <1>2, <1>3

(* As long as the app is neither locked nor used while the settings page     *)
(* works, a listed account gives back what was last saved for it at every    *)
(* moment and after any one failure or crash.  Both sides have the session   *)
(* when the flag turns (RaiseFlag, LowerFlag), and what an install replaces  *)
(* is aside until the new directory is in place.                             *)
THEOREM GivesBack ==
  ASSUME Overlap = {}
  PROVE  Spec => []RestoreFindsSaved
<1>1. OneInv => RestoreFindsSaved
  <2> SUFFICES ASSUME OneInv, mishaps <= 1, NEW a \in listed \ (imported \cup op.failed), saved[a] # None
               PROVE  saved[a] \in Found(a)
    BY DEF RestoreFindsSaved, OneMishap
  <2>0. TypeInv /\ SavingFits
    BY DEF OneInv, KeepInv
  <2>1. a \in Accounts /\ (Straight(a) \/ AsideOnly(a))
    BY <2>0 DEF OneInv, InPlace, Due, Placed, TypeInv, TypeOK
  <2>2. CASE Straight(a)
    <3>1. Live(a) = saved[a]
      BY <2>2 DEF Straight, UnderKey, InBlob, Live, Decrypts
    <3> QED
      BY <3>1 DEF Found
  <2>3. CASE AsideOnly(a)
    <3>1. Live(a) = None
      BY <2>0, <2>3 DEF AsideOnly, Replacing, Live, Decrypts, SavingFits
    <3> QED
      BY <2>3, <3>1 DEF Found, AsideOnly
  <2> QED
    BY <2>1, <2>2, <2>3
<1>2. Init => OneInv
  BY OneInitially
<1>3. OneInv /\ [Next]_vars => OneInv'
  BY OneAlways
<1> QED
  BY <1>1, <1>2, <1>3, PTL DEF Spec

(* Nor is anything lost through one failure: what did not extract can be     *)
(* read from the report that took it off the list, under the key that the    *)
(* report opens with.                                                        *)
THEOREM NothingIsLost ==
  ASSUME Overlap = {}
  PROVE  Spec => []NothingLost
<1>1. OneInv => NothingLost
  <2> SUFFICES ASSUME OneInv, mishaps <= 1, NEW a \in Accounts \ imported, saved[a] # None
               PROVE  saved[a] \in Readable(a)
    BY DEF NothingLost, OneMishap
  <2>0. TypeInv
    BY DEF OneInv, KeepInv
  <2>1. Placed(a)
    BY DEF OneInv, InPlace, Due
  <2>2. ASSUME plain[a] = saved[a] \/ saved[a] \in aside[a]
        PROVE  saved[a] \in Readable(a)
    BY <2>2 DEF Readable
  <2>3. ASSUME UnderKey(a), file # None
        PROVE  saved[a] \in Readable(a)
    BY <2>3 DEF Readable, UnderKey, InBlob
  <2>4. ASSUME NEW i \in DOMAIN quarantine, Moved(quarantine[i], a),
               quarantine[i].blobs[a].key = quarantine[i].opens
                 \/ (file # None /\ quarantine[i].blobs[a].key = file.key)
        PROVE  saved[a] \in Readable(a)
    <3>1. quarantine[i] \in {q \in ToSet(quarantine) :
            q.blobs[a] # None /\ (q.blobs[a].key = q.opens \/ (file # None /\ q.blobs[a].key = file.key))}
      BY <2>4 DEF Moved, ToSet
    <3>2. quarantine[i].blobs[a].value = saved[a]
      BY <2>4 DEF Moved
    <3> QED
      BY <3>1, <3>2 DEF Readable
  <2>5. CASE Straight(a) \/ AsideOnly(a)
    BY <2>2, <2>3, <2>5 DEF Straight, AsideOnly, Encrypted
  <2>6. CASE Failing(a)
    <3>1. file # None /\ op.pc \in {"extract", "quarantine"}
      BY <2>0, <2>6, KindAt DEF Failing, TypeInv, OpFits
    <3>2. CASE op.pc = "quarantine" /\ a \in op.done
      <4>1. Newest \in DOMAIN quarantine
        BY <2>0, <3>2 DEF TypeInv, TypeOK, ReportsFit, Newest
      <4> QED
        BY <2>4, <2>6, <3>1, <3>2, <4>1 DEF Failing
    <3>3. CASE ~(op.pc = "quarantine" /\ a \in op.done)
      BY <2>3, <2>6, <3>1, <3>3 DEF Failing
    <3> QED
      BY <3>2, <3>3
  <2>7. CASE InReport(a)
    BY <2>4, <2>7 DEF InReport
  <2> QED
    BY <2>1, <2>5, <2>6, <2>7 DEF Placed
<1>2. Init => OneInv
  BY OneInitially
<1>3. OneInv /\ [Next]_vars => OneInv'
  BY OneAlways
<1> QED
  BY <1>1, <1>2, <1>3, PTL DEF Spec
=============================================================================
