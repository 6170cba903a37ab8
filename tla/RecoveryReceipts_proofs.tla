----------------------- MODULE RecoveryReceipts_proofs -----------------------
(* Theorems about RecoveryReceipts, for every set of authenticators and of   *)
(* outer keys and every number of mishaps: types, that secrets Blizzard gave *)
(* once are kept, and that an enrollment whose end is open is not started    *)
(* again.                                                                    *)
EXTENDS RecoveryReceipts, TLAPS

USE NoneIsNothing, AnswersDiffer, MishapsBounded

(* Where the secrets of g are.  ResponseIsKept lets any capture and memory   *)
(* hold them; a step keeps that only if a capture alone has them no longer   *)
(* than it takes to write the receipt, and memory alone only if the receipt  *)
(* was lost: both are what a crash excuses.                                  *)
Kept(g) ==
    \/ Stored(g, outer)
    \/ g = pending /\ g \in unsaved
    \/ g = capture.answer /\ capture.at = "preserve"
AnswersKept == \A g \in given \ excused : Kept(g)

(* What a capture has made sure of at each place.                            *)
Saves == capture.who \in {"enroll", "restore"}
CaptureFits ==
    /\ At({"restore"}, "asked") => capture.answer \in attached
    /\ capture.at = "preserve" => InHand \subseteq given
    /\ capture.at = "commit" => ReceiptOf(capture.answer) \in receipts
    /\ Saves /\ capture.at = "complete" => record[capture.answer] = "blizzard"
    /\ Saves /\ capture.at \in {"commit", "complete", "verify"} => pending \in {None, capture.answer}
    /\ capture.who = "recover" => \A g \in Serials \cap Payloads : record[g] = "blizzard"

(* An enrollment whose end is open is the one in flight, or the operation of *)
(* the user demands a recovery, or an answer on disk does.                   *)
SettledFits ==
    /\ capture.who = "enroll" => op.state = "saving"
    /\ unsettled =>
          \/ op.state = "recovery-required" /\ capture.who # "recover"
          \/ capture.who = "enroll" /\ capture.at # "identity"
          \/ receipts # {} /\ capture = NoCapture /\ op.state \notin {"waiting", "saving"}

ReceiptsInv == TypeOK /\ AnswersKept /\ CaptureFits /\ SettledFits

-----------------------------------------------------------------------------
(* The captures, said of the parts of a record.                              *)
AsCapture(c) ==
    /\ c \in [who : {"nobody", "enroll", "restore", "recover"},
               at : {"none", "identity", "asked", "preserve", "commit", "complete", "verify"},
               answer : Answers \cup {None}, saved : BOOLEAN]
    /\ \/ c = NoCapture
       \/ c.who = "enroll" /\ c.at \in {"identity", "asked"} /\ c.answer = None /\ ~c.saved
       \/ c.who = "restore" /\ c.at = "asked" /\ c.answer \in Serials /\ ~c.saved
       \/ c.who \in {"enroll", "restore"} /\ c.at = "preserve" /\ c.answer \in Answers /\ ~c.saved
       \/ c.who \in {"enroll", "restore"} /\ c.at \in {"commit", "complete"} /\ c.answer \in Serials /\ c.saved
       \/ c.who \in {"enroll", "restore"} /\ c.at = "verify" /\ c.answer = "setup" /\ c.saved
       \/ c.who = "recover" /\ c.at = "complete" /\ c.answer = None /\ ~c.saved

LEMMA CapturesByPart == \A c : c \in Capture <=> AsCapture(c)
<1> SUFFICES ASSUME NEW c
             PROVE  c \in Capture <=> AsCapture(c)
  OBVIOUS
<1> USE DEF Answers, NoCapture
<1>1. CASE c = NoCapture
  BY <1>1 DEF Capture, AsCapture
<1>2. c \in [who : {"enroll"}, at : {"identity", "asked"}, answer : {None}, saved : {FALSE}] => AsCapture(c)
  BY DEF AsCapture
<1>3. c \in [who : {"restore"}, at : {"asked"}, answer : Serials, saved : {FALSE}] => AsCapture(c)
  BY DEF AsCapture
<1>4. c \in [who : {"enroll", "restore"}, at : {"preserve"}, answer : Answers, saved : {FALSE}] => AsCapture(c)
  BY DEF AsCapture
<1>5. c \in [who : {"enroll", "restore"}, at : {"commit", "complete"}, answer : Serials, saved : {TRUE}] => AsCapture(c)
  BY DEF AsCapture
<1>6. c \in [who : {"enroll", "restore"}, at : {"verify"}, answer : {"setup"}, saved : {TRUE}] => AsCapture(c)
  BY DEF AsCapture
<1>7. c \in [who : {"recover"}, at : {"complete"}, answer : {None}, saved : {FALSE}] => AsCapture(c)
  BY DEF AsCapture
<1>8. ASSUME AsCapture(c), c # NoCapture
      PROVE  c \in Capture
  BY <1>8 DEF AsCapture, Capture
<1> QED
  BY <1>1, <1>2, <1>3, <1>4, <1>5, <1>6, <1>7, <1>8 DEF Capture

LEMMA NoCaptureIsOne == AsCapture(NoCapture)
  BY DEF AsCapture, NoCapture

(* What the place of a capture says of it.                                   *)
LEMMA PlaceSays ==
  ASSUME AsCapture(capture)
  PROVE  /\ capture = NoCapture => capture.who = "nobody" /\ capture.at = "none" /\ capture.answer = None
         /\ capture.who = "nobody" => capture = NoCapture
         /\ capture.at \in {"none", "identity"} => capture.answer = None
         /\ At({"enroll"}, "asked") => capture.answer = None
         /\ At({"restore"}, "asked") => capture.answer \in Serials
         /\ capture.at = "preserve" => capture.answer \in Answers /\ ~capture.saved
         /\ capture.at = "commit" => capture.answer \in Serials /\ capture.saved
         /\ capture.at = "verify" => capture.answer = "setup" /\ capture.saved
         /\ At({"enroll", "restore"}, "complete") => capture.answer \in Serials /\ capture.saved
         /\ capture.who = "recover" => capture.at = "complete" /\ capture.answer = None
         /\ capture.at \in {"asked", "preserve", "commit", "verify"} => capture.who \in {"enroll", "restore"}
         /\ capture.who \in {"enroll", "restore"} => capture.at # "none"
  BY DEF AsCapture, NoCapture, At

(* A capture goes on.                                                        *)
LEMMA Answered ==
  ASSUME AsCapture(capture), capture.at = "asked", NEW a \in Answers
  PROVE  AsCapture([capture EXCEPT !.at = "preserve", !.answer = a])
<1> DEFINE c == [capture EXCEPT !.at = "preserve", !.answer = a]
<1>1. c.who = capture.who /\ c.at = "preserve" /\ c.answer = a /\ c.saved = capture.saved
  BY DEF AsCapture
<1>2. capture.who \in {"enroll", "restore"} /\ ~capture.saved
  BY DEF AsCapture, NoCapture
<1>3. c \in [who : {"nobody", "enroll", "restore", "recover"},
            at : {"none", "identity", "asked", "preserve", "commit", "complete", "verify"},
            answer : Answers \cup {None}, saved : BOOLEAN]
  BY DEF AsCapture
<1> QED
  BY <1>1, <1>2, <1>3 DEF AsCapture

LEMMA Preserved ==
  ASSUME AsCapture(capture), capture.at = "preserve", NEW at,
         \/ at = "commit" /\ capture.answer \in Serials
         \/ at = "verify" /\ capture.answer = "setup"
  PROVE  AsCapture([capture EXCEPT !.saved = TRUE, !.at = at])
<1> DEFINE c == [capture EXCEPT !.saved = TRUE, !.at = at]
<1>1. c.who = capture.who /\ c.at = at /\ c.answer = capture.answer /\ c.saved
  BY DEF AsCapture
<1>2. capture.who \in {"enroll", "restore"}
  BY DEF AsCapture, NoCapture
<1>3. c \in [who : {"nobody", "enroll", "restore", "recover"},
            at : {"none", "identity", "asked", "preserve", "commit", "complete", "verify"},
            answer : Answers \cup {None}, saved : BOOLEAN]
  BY DEF AsCapture
<1> QED
  BY <1>1, <1>2, <1>3 DEF AsCapture

LEMMA Committed ==
  ASSUME AsCapture(capture), capture.at = "commit"
  PROVE  AsCapture([capture EXCEPT !.at = "complete"])
<1> DEFINE c == [capture EXCEPT !.at = "complete"]
<1>1. c.who = capture.who /\ c.at = "complete" /\ c.answer = capture.answer /\ c.saved = capture.saved
  BY DEF AsCapture
<1>2. c \in [who : {"nobody", "enroll", "restore", "recover"},
            at : {"none", "identity", "asked", "preserve", "commit", "complete", "verify"},
            answer : Answers \cup {None}, saved : BOOLEAN]
  BY DEF AsCapture
<1>3. capture.who \in {"enroll", "restore"} /\ capture.answer \in Serials /\ capture.saved
  BY DEF AsCapture, NoCapture
<1> QED
  BY <1>1, <1>2, <1>3 DEF AsCapture

(* TypeOK in these terms.                                                    *)
Types ==
    /\ AsCapture(capture)
    /\ record \in [Serials -> {None, "blizzard", "other"}]
    /\ receipts \subseteq Receipt /\ pending \in Answers \cup {None}
    /\ op \in [state : States, bound : BOOLEAN, expired : BOOLEAN]
    /\ outer \in OuterKeys \cup {None} /\ locked \in BOOLEAN /\ unsettled \in BOOLEAN
    /\ given \subseteq attached /\ unsaved \subseteq given
    /\ excused \cup attached \subseteq Serials /\ mishaps \in 0 .. MaxMishaps

LEMMA TypesByPart == TypeOK <=> Types
  BY CapturesByPart DEF TypeOK, Types

LEMMA ReceiptsInitial == Init => ReceiptsInv
<1> SUFFICES ASSUME Init
             PROVE  ReceiptsInv
  OBVIOUS
<1>1. NoCapture \in Capture
  BY DEF Capture
<1>2. NoOperation \in [state : States, bound : BOOLEAN, expired : BOOLEAN]
  BY DEF NoOperation, States
<1>3. TypeOK
  <2>1. capture \in Capture /\ op \in [state : States, bound : BOOLEAN, expired : BOOLEAN]
    BY <1>1, <1>2 DEF Init
  <2>2. mishaps \in 0 .. MaxMishaps
    BY DEF Init
  <2>3. record \in [Serials -> {None, "blizzard", "other"}] /\ receipts \subseteq Receipt
    BY DEF Init
  <2> QED
    BY <2>1, <2>2, <2>3 DEF Init, TypeOK
<1>4. AnswersKept /\ CaptureFits /\ SettledFits
  BY DEF Init, AnswersKept, CaptureFits, SettledFits, Saves, NoCapture, NoOperation, At
<1> QED
  BY <1>3, <1>4 DEF ReceiptsInv

LEMMA TypesStay ==
  ASSUME Types, CaptureFits, Next
  PROVE  Types'
<1> USE DEF Types, store, vault, past, MutexFree, Mishap, At, GoOn, FailedAs, FinishedAs, InHand, Answers, Receipt, States, ReceiptOf, Completed
<1>1. CASE BeginBattleNetEnrollment
  BY <1>1 DEF BeginBattleNetEnrollment
<1>2. CASE LoginReturns
  <2>1. op' \in [state : States, bound : BOOLEAN, expired : BOOLEAN]
    BY <1>2 DEF LoginReturns
  <2> QED
    BY <1>2, <2>1 DEF LoginReturns
<1>3. CASE CaptureStarts
  <2>1. AsCapture([NoCapture EXCEPT !.who = "enroll", !.at = "identity"])
    BY DEF AsCapture, NoCapture
  <2> QED
    BY <1>3, <2>1 DEF CaptureStarts
<1>4. CASE CancelBattleNetEnrollment
  BY <1>4 DEF CancelBattleNetEnrollment
<1>5. CASE IdentityFails
  BY <1>5, NoCaptureIsOne DEF IdentityFails
<1>6. CASE IdentityNeedsSetup
  BY <1>6, NoCaptureIsOne DEF IdentityNeedsSetup
<1>7. CASE IdentityRead
  <2>1. AsCapture(capture')
    BY <1>7 DEF IdentityRead, AsCapture, NoCapture
  <2> QED
    BY <1>7, <2>1 DEF IdentityRead
<1>8. CASE EnrollAnswered
  <2>1. PICK a \in Answers : capture' = [capture EXCEPT !.at = "preserve", !.answer = a]
    BY <1>8 DEF EnrollAnswered
  <2>2. AsCapture(capture')
    BY <1>8, <2>1, Answered DEF EnrollAnswered
  <2>3. given' \subseteq attached' /\ unsaved \subseteq given' /\ attached' \subseteq Serials
    <3>1. CASE UNCHANGED <<attached, given>>
      BY <3>1, <1>8 DEF EnrollAnswered
    <3>2. ASSUME NEW g \in Serials \ attached, attached' = attached \cup {g},
                 NEW b \in {g, "nothing"}, capture' = [capture EXCEPT !.at = "preserve", !.answer = b],
                 given' = given \cup (Serials \cap {capture'.answer})
          PROVE  given' \subseteq attached' /\ unsaved \subseteq given' /\ attached' \subseteq Serials
      <4>1. capture'.answer = b
        BY <3>2 DEF AsCapture
      <4> QED
        BY <3>2, <4>1
    <3> QED
      BY <1>8, <3>1, <3>2 DEF EnrollAnswered
  <2> QED
    BY <1>8, <2>2, <2>3 DEF EnrollAnswered
<1>9. CASE RestoreAnswered
  <2>1. PICK a \in {capture.answer, "setup", "nothing"} :
            /\ capture' = [capture EXCEPT !.at = "preserve", !.answer = a]
            /\ given' = given \cup (Serials \cap {a})
    BY <1>9 DEF RestoreAnswered
  <2>2. AsCapture(capture')
    <3>1. capture.at = "asked" /\ capture.answer \in Serials
      BY <1>9 DEF RestoreAnswered, AsCapture, NoCapture
    <3> QED
      BY <2>1, <3>1, Answered
  <2> QED
    <3>1. given' \subseteq attached
      BY <1>9, <2>1 DEF RestoreAnswered, CaptureFits
    <3> QED
      BY <1>9, <2>1, <2>2, <3>1 DEF RestoreAnswered
<1>10. CASE PreserveRefused
  BY <1>10, NoCaptureIsOne DEF PreserveRefused
<1>11. CASE Preserve
  <2>1. AsCapture(capture')
    <3>1. CASE IsAccount(capture.answer)
      <4>1. capture' = [capture EXCEPT !.saved = TRUE, !.at = "commit"]
        BY <1>11, <3>1, AnswersDiffer DEF Preserve, IsAccount
      <4> QED
        BY <1>11, <3>1, <4>1, Preserved DEF Preserve, IsAccount
    <3>2. CASE capture.answer = "setup"
      <4>1. capture' = [capture EXCEPT !.saved = TRUE, !.at = "verify"]
        BY <1>11, <3>2, AnswersDiffer DEF Preserve, IsAccount
      <4> QED
        BY <1>11, <3>2, <4>1, Preserved DEF Preserve
    <3>3. CASE ~IsAccount(capture.answer) /\ capture.answer # "setup"
      BY <1>11, <3>3, NoCaptureIsOne DEF Preserve
    <3> QED
      BY <3>1, <3>2, <3>3
  <2>2. receipts' \subseteq Receipt /\ pending' \in Answers \cup {None}
    BY <1>11, PlaceSays DEF Preserve
  <2>3. op' \in [state : States, bound : BOOLEAN, expired : BOOLEAN]
    BY <1>11 DEF Preserve
  <2>4. mishaps' \in 0 .. MaxMishaps
    BY <1>11 DEF Preserve
  <2> QED
    BY <1>11, <2>1, <2>2, <2>3, <2>4 DEF Preserve
<1>12. CASE PreserveFails
  <2>1. AsCapture(capture')
    BY <1>12, NoCaptureIsOne DEF PreserveFails
  <2>2. receipts' \subseteq Receipt /\ pending' \in Answers \cup {None}
    BY <1>12, PlaceSays DEF PreserveFails
  <2>3. op' \in [state : States, bound : BOOLEAN, expired : BOOLEAN]
    BY <1>12, NoCaptureIsOne DEF PreserveFails
  <2>4. mishaps' \in 0 .. MaxMishaps /\ excused' \subseteq Serials
    BY <1>12, NoCaptureIsOne DEF PreserveFails
  <2>5. unsaved' \subseteq given
    BY <1>12 DEF PreserveFails, CaptureFits
  <2> QED
    BY <1>12, <2>1, <2>2, <2>3, <2>4, <2>5, NoCaptureIsOne DEF PreserveFails
<1>13. CASE Commit
  <2>1. AsCapture(capture')
    <3>1. capture' \in {NoCapture, [capture EXCEPT !.at = "complete"]}
      BY <1>13 DEF Commit
    <3> QED
      BY <1>13, <3>1, Committed, NoCaptureIsOne DEF Commit
  <2>2. capture.answer \in Serials
    BY <1>13 DEF Commit, AsCapture, NoCapture
  <2>3. record' \in [Serials -> {None, "blizzard", "other"}]
    BY <1>13, <2>2 DEF Commit
  <2>4. op' \in [state : States, bound : BOOLEAN, expired : BOOLEAN]
    BY <1>13 DEF Commit
  <2>5. mishaps' \in 0 .. MaxMishaps
    BY <1>13 DEF Commit
  <2>6. unsettled' \in BOOLEAN
    BY <1>13 DEF Commit
  <2> QED
    BY <1>13, <2>1, <2>3, <2>4, <2>5, <2>6 DEF Commit
<1>14. CASE Complete
  BY <1>14, NoCaptureIsOne DEF Complete
<1>15. CASE CompleteFails
  BY <1>15, NoCaptureIsOne DEF CompleteFails
<1>16. CASE Verify
  BY <1>16, NoCaptureIsOne DEF Verify
<1>17. CASE VerifyFails
  BY <1>17, NoCaptureIsOne DEF VerifyFails
<1>18. CASE RecoverBattleNetEnrollments
  <2> DEFINE put == [g \in Serials |-> IF g \in Payloads THEN "blizzard" ELSE record[g]]
  <2>1. put \in [Serials -> {None, "blizzard", "other"}]
    OBVIOUS
  <2>2. record' \in {record, put}
    BY <1>18 DEF RecoverBattleNetEnrollments
  <2>3. record' \in [Serials -> {None, "blizzard", "other"}]
    BY <2>1, <2>2
  <2>4. AsCapture(capture')
    <3>1. AsCapture([NoCapture EXCEPT !.who = "recover", !.at = "complete"])
      BY DEF AsCapture, NoCapture
    <3> QED
      BY <1>18, <3>1 DEF RecoverBattleNetEnrollments
  <2>5. mishaps' \in 0 .. MaxMishaps
    BY <1>18 DEF RecoverBattleNetEnrollments
  <2> QED
    BY <1>18, <2>3, <2>4, <2>5 DEF RecoverBattleNetEnrollments
<1>19. CASE CompleteNext
  <2>1. receipts' \subseteq receipts
    BY <1>19 DEF CompleteNext
  <2>2. AsCapture(capture')
    BY <1>19, NoCaptureIsOne DEF CompleteNext
  <2>3. mishaps' \in 0 .. MaxMishaps
    BY <1>19 DEF CompleteNext
  <2> QED
    BY <1>19, <2>1, <2>2, <2>3 DEF CompleteNext
<1>20. CASE Recovered
  BY <1>20, NoCaptureIsOne DEF Recovered
<1>21. CASE ReceiptDoesNotOpen
  BY <1>21 DEF ReceiptDoesNotOpen
<1>22. CASE LeaseEnds
  BY <1>22 DEF LeaseEnds
<1>23. CASE LockNow
  BY <1>23 DEF LockNow
<1>24. CASE Unlock
  BY <1>24 DEF Unlock
<1>25. CASE EndView
  <2>1. op' \in [state : States, bound : BOOLEAN, expired : BOOLEAN]
    BY <1>25 DEF EndView
  <2> QED
    BY <1>25, <2>1 DEF EndView
<1>26. CASE Expire
  <2>1. op' \in [state : States, bound : BOOLEAN, expired : BOOLEAN]
    BY <1>26 DEF Expire
  <2> QED
    BY <1>26, <2>1 DEF Expire
<1>27. CASE OuterChanges
  BY <1>27 DEF OuterChanges
<1>28. CASE Crash
  <2>1. op' \in [state : States, bound : BOOLEAN, expired : BOOLEAN]
    BY <1>28, NoCaptureIsOne DEF Crash, NoOperation
  <2>2. excused' \subseteq Serials /\ mishaps' \in 0 .. MaxMishaps /\ unsettled' \in BOOLEAN
    BY <1>28, NoCaptureIsOne DEF Crash
  <2> QED
    BY <1>28, <2>1, <2>2, NoCaptureIsOne DEF Crash
<1>29. CASE \E g \in Serials : RestoreBattleNetAuthenticator(g)
  <2>1. AsCapture(capture')
    <3>1. \A g \in Serials : AsCapture([NoCapture EXCEPT !.who = "restore", !.at = "asked", !.answer = g])
      BY DEF AsCapture, NoCapture
    <3> QED
      <4>1. PICK g \in Serials : RestoreBattleNetAuthenticator(g)
        BY <1>29
      <4> QED
        BY <3>1, <4>1 DEF RestoreBattleNetAuthenticator
  <2>2. attached \subseteq attached' /\ attached' \subseteq Serials
    BY <1>29 DEF RestoreBattleNetAuthenticator
  <2> QED
    BY <1>29, <2>1, <2>2 DEF RestoreBattleNetAuthenticator
<1>30. CASE \E g \in Serials : \E secret \in {"blizzard", "other"} : ImportBattleNet(g, secret)
  BY <1>30 DEF ImportBattleNet
<1> QED
  BY <1>1, <1>2, <1>3, <1>4, <1>5, <1>6, <1>7, <1>8, <1>9, <1>10, <1>11, <1>12, <1>13, <1>14, <1>15, <1>16, <1>17, <1>18, <1>19, <1>20, <1>21, <1>22, <1>23, <1>24, <1>25, <1>26, <1>27, <1>28, <1>29, <1>30 DEF Next

(* What the answer of an enrollment, a receipt and a commit do to a capture. *)
LEMMA EnrollAnsweredSays ==
  ASSUME Types, EnrollAnswered
  PROVE  /\ capture'.who = "enroll" /\ capture'.at = "preserve"
         /\ given \subseteq given' /\ given' \subseteq given \cup {capture'.answer}
         /\ capture'.answer \in Serials => capture'.answer \in given'
<1> USE AnswersDiffer DEF Types, AsCapture, EnrollAnswered, At
<1>1. ASSUME NEW g \in Serials \ attached,
             NEW b \in {g, "nothing"}, capture' = [capture EXCEPT !.at = "preserve", !.answer = b],
             given' = given \cup (Serials \cap {capture'.answer})
      PROVE  /\ capture'.who = "enroll" /\ capture'.at = "preserve"
             /\ given \subseteq given' /\ given' \subseteq given \cup {capture'.answer}
             /\ capture'.answer \in Serials => capture'.answer \in given'
  BY <1>1
<1>2. ASSUME NEW b \in {"setup", "nothing"}, capture' = [capture EXCEPT !.at = "preserve", !.answer = b],
             given' = given
      PROVE  /\ capture'.who = "enroll" /\ capture'.at = "preserve"
             /\ given \subseteq given' /\ given' \subseteq given \cup {capture'.answer}
             /\ capture'.answer \in Serials => capture'.answer \in given'
  BY <1>2
<1> QED
  BY <1>1, <1>2

LEMMA PreserveSays ==
  ASSUME Types, Preserve
  PROVE  \/ /\ capture'.who = capture.who /\ capture'.answer = capture.answer /\ UNCHANGED op
            /\ capture.answer \in Serials /\ capture'.at = "commit"
         \/ /\ capture'.who = capture.who /\ capture'.answer = capture.answer /\ UNCHANGED op
            /\ capture.answer = "setup" /\ capture'.at = "verify"
         \/ capture.answer = "nothing" /\ FailedAs(TRUE)
<1>1. CASE capture.answer \in Serials
  BY <1>1, AnswersDiffer DEF Types, AsCapture, Preserve, IsAccount
<1>2. CASE capture.answer = "setup"
  BY <1>2, AnswersDiffer DEF Types, AsCapture, Preserve, IsAccount
<1>3. CASE capture.answer \notin Serials \cup {"setup"}
  BY <1>3 DEF Preserve, IsAccount
<1> QED
  BY <1>1, <1>2, <1>3

LEMMA CommitSays ==
  ASSUME Types, Commit
  PROVE  /\ capture.answer \in Serials /\ capture.who \in {"enroll", "restore"}
         /\ \/ /\ capture'.who = capture.who /\ capture'.answer = capture.answer /\ capture'.at = "complete"
               /\ record'[capture.answer] = "blizzard" /\ UNCHANGED op
               /\ unsettled' = (unsettled /\ capture.who # "enroll")
            \/ UNCHANGED unsettled /\ FailedAs(TRUE)
         /\ \A g \in Serials : record[g] = "blizzard" => record'[g] = "blizzard"
<1>1. capture.answer \in Serials /\ capture.who \in {"enroll", "restore"}
  BY PlaceSays DEF Types, Commit, At
<1>2. CASE GoOn("complete") /\ record' = [record EXCEPT ![capture.answer] = "blizzard"] /\ UNCHANGED op
           /\ unsettled' = (unsettled /\ capture.who # "enroll")
  BY <1>1, <1>2 DEF GoOn, Types, AsCapture
<1>3. CASE FailedAs(TRUE) /\ UNCHANGED unsettled
           /\ record' \in {record, [record EXCEPT ![capture.answer] = "blizzard"]}
  BY <1>1, <1>3 DEF Types
<1> QED
  BY <1>1, <1>2, <1>3 DEF Commit

LEMMA StoredStays ==
  ASSUME NEW g, Stored(g, outer), record'[g] \in {record[g], "blizzard"},
         receipts \subseteq receipts', UNCHANGED outer
  PROVE  Stored(g, outer)'
  BY DEF Stored, Opens

(* Each part of the invariant, step by step.                                 *)
LEMMA SettledStays ==
  ASSUME Types, AnswersKept, CaptureFits, SettledFits, Next, Types'
  PROVE  SettledFits'
<1> USE PlaceSays DEF Types, store, vault, past, MutexFree, Mishap, At, GoOn, FailedAs, FinishedAs, SettledFits, NoCapture
<1>1. CASE BeginBattleNetEnrollment
  BY <1>1 DEF BeginBattleNetEnrollment, AnswerLeft
<1>2. CASE LoginReturns
  BY <1>2 DEF LoginReturns
<1>3. CASE CaptureStarts
  BY <1>3 DEF CaptureStarts
<1>4. CASE CancelBattleNetEnrollment
  BY <1>4 DEF CancelBattleNetEnrollment
<1>5. CASE IdentityFails
  BY <1>5 DEF IdentityFails
<1>6. CASE IdentityNeedsSetup
  BY <1>6 DEF IdentityNeedsSetup
<1>7. CASE IdentityRead
  BY <1>7 DEF IdentityRead
<1>8. CASE EnrollAnswered
  BY <1>8, EnrollAnsweredSays DEF EnrollAnswered
<1>9. CASE RestoreAnswered
  BY <1>9 DEF RestoreAnswered
<1>10. CASE PreserveRefused
  BY <1>10 DEF PreserveRefused
<1>11. CASE Preserve
  BY <1>11, PreserveSays DEF Preserve
<1>12. CASE PreserveFails
  BY <1>12 DEF PreserveFails
<1>13. CASE Commit
  BY <1>13, CommitSays DEF Commit
<1>14. CASE Complete
  BY <1>14 DEF Complete
<1>15. CASE CompleteFails
  BY <1>15 DEF CompleteFails
<1>16. CASE Verify
  BY <1>16 DEF Verify
<1>17. CASE VerifyFails
  BY <1>17 DEF VerifyFails
<1>18. CASE RecoverBattleNetEnrollments
  <2>1. \/ capture' = [NoCapture EXCEPT !.who = "recover", !.at = "complete"] /\ unsettled' = FALSE
        \/ UNCHANGED <<capture, unsettled>>
    BY <1>18 DEF RecoverBattleNetEnrollments
  <2>2. UNCHANGED <<op, receipts>>
    BY <1>18 DEF RecoverBattleNetEnrollments
  <2> QED
    BY <2>1, <2>2
<1>19. CASE CompleteNext
  BY <1>19 DEF CompleteNext
<1>20. CASE Recovered
  BY <1>20 DEF Recovered
<1>21. CASE ReceiptDoesNotOpen
  BY <1>21 DEF ReceiptDoesNotOpen
<1>22. CASE LeaseEnds
  BY <1>22 DEF LeaseEnds
<1>23. CASE LockNow
  BY <1>23 DEF LockNow
<1>24. CASE Unlock
  BY <1>24 DEF Unlock
<1>25. CASE EndView
  BY <1>25 DEF EndView
<1>26. CASE Expire
  BY <1>26 DEF Expire
<1>27. CASE OuterChanges
  BY <1>27 DEF OuterChanges
<1>28. CASE Crash
  BY <1>28 DEF Crash, NoOperation
<1>29. CASE \E g \in Serials : RestoreBattleNetAuthenticator(g)
  BY <1>29 DEF RestoreBattleNetAuthenticator, AnswerLeft
<1>30. CASE \E g \in Serials : \E secret \in {"blizzard", "other"} : ImportBattleNet(g, secret)
  BY <1>30 DEF ImportBattleNet
<1> QED
  BY <1>1, <1>2, <1>3, <1>4, <1>5, <1>6, <1>7, <1>8, <1>9, <1>10, <1>11, <1>12, <1>13, <1>14, <1>15, <1>16, <1>17, <1>18, <1>19, <1>20, <1>21, <1>22, <1>23, <1>24, <1>25, <1>26, <1>27, <1>28, <1>29, <1>30 DEF Next

LEMMA CapturesFit ==
  ASSUME Types, AnswersKept, CaptureFits, SettledFits, Next, Types'
  PROVE  CaptureFits'
<1> USE PlaceSays DEF Types, store, vault, past, MutexFree, Mishap, At, GoOn, FailedAs, FinishedAs, CaptureFits, Saves, InHand, ReceiptOf, Completed, Payloads, OnDisk, NoCapture
<1>1. CASE BeginBattleNetEnrollment
  BY <1>1 DEF BeginBattleNetEnrollment, AnswerLeft
<1>2. CASE LoginReturns
  BY <1>2 DEF LoginReturns
<1>3. CASE CaptureStarts
  <2>1. capture' = [NoCapture EXCEPT !.who = "enroll", !.at = "identity"] \/ UNCHANGED capture
    BY <1>3 DEF CaptureStarts
  <2>2. capture = NoCapture /\ UNCHANGED <<store, attached, given, outer>>
    BY <1>3 DEF CaptureStarts
  <2> QED
    BY <2>1, <2>2
<1>4. CASE CancelBattleNetEnrollment
  BY <1>4 DEF CancelBattleNetEnrollment
<1>5. CASE IdentityFails
  BY <1>5 DEF IdentityFails
<1>6. CASE IdentityNeedsSetup
  BY <1>6 DEF IdentityNeedsSetup
<1>7. CASE IdentityRead
  BY <1>7 DEF IdentityRead
<1>8. CASE EnrollAnswered
  <2>1. capture'.who = "enroll" /\ capture'.at = "preserve"
    BY <1>8, EnrollAnsweredSays
  <2>2. InHand' \subseteq given'
    BY <1>8, EnrollAnsweredSays
  <2> QED
    BY <2>1, <2>2
<1>9. CASE RestoreAnswered
  BY <1>9 DEF RestoreAnswered
<1>10. CASE PreserveRefused
  BY <1>10 DEF PreserveRefused
<1>11. CASE Preserve
  BY <1>11, PreserveSays DEF Preserve
<1>12. CASE PreserveFails
  BY <1>12 DEF PreserveFails
<1>13. CASE Commit
  BY <1>13, CommitSays DEF Commit
<1>14. CASE Complete
  BY <1>14 DEF Complete
<1>15. CASE CompleteFails
  BY <1>15 DEF CompleteFails
<1>16. CASE Verify
  BY <1>16 DEF Verify
<1>17. CASE VerifyFails
  BY <1>17 DEF VerifyFails
<1>18. CASE RecoverBattleNetEnrollments
  BY <1>18 DEF RecoverBattleNetEnrollments
<1>19. CASE CompleteNext
  BY <1>19 DEF CompleteNext
<1>20. CASE Recovered
  BY <1>20 DEF Recovered
<1>21. CASE ReceiptDoesNotOpen
  BY <1>21 DEF ReceiptDoesNotOpen
<1>22. CASE LeaseEnds
  BY <1>22 DEF LeaseEnds
<1>23. CASE LockNow
  BY <1>23 DEF LockNow
<1>24. CASE Unlock
  BY <1>24 DEF Unlock
<1>25. CASE EndView
  BY <1>25 DEF EndView
<1>26. CASE Expire
  BY <1>26 DEF Expire
<1>27. CASE OuterChanges
  BY <1>27 DEF OuterChanges
<1>28. CASE Crash
  BY <1>28 DEF Crash, NoOperation
<1>29. CASE \E g \in Serials : RestoreBattleNetAuthenticator(g)
  BY <1>29 DEF RestoreBattleNetAuthenticator, AnswerLeft
<1>30. CASE \E g \in Serials : \E secret \in {"blizzard", "other"} : ImportBattleNet(g, secret)
  BY <1>30 DEF ImportBattleNet
<1> QED
  BY <1>1, <1>2, <1>3, <1>4, <1>5, <1>6, <1>7, <1>8, <1>9, <1>10, <1>11, <1>12, <1>13, <1>14, <1>15, <1>16, <1>17, <1>18, <1>19, <1>20, <1>21, <1>22, <1>23, <1>24, <1>25, <1>26, <1>27, <1>28, <1>29, <1>30 DEF Next

LEMMA AnswersStay ==
  ASSUME Types, AnswersKept, CaptureFits, SettledFits, Next, Types'
  PROVE  AnswersKept'
<1> USE PlaceSays DEF Types, store, vault, past, MutexFree, Mishap, At, GoOn, FailedAs, FinishedAs, AnswersKept, Kept, Stored, Opens, CaptureFits, Saves, InHand, ReceiptOf, Completed, NoCapture
<1>1. CASE BeginBattleNetEnrollment
  BY <1>1 DEF BeginBattleNetEnrollment, AnswerLeft
<1>2. CASE LoginReturns
  BY <1>2 DEF LoginReturns
<1>3. CASE CaptureStarts
  BY <1>3 DEF CaptureStarts
<1>4. CASE CancelBattleNetEnrollment
  BY <1>4 DEF CancelBattleNetEnrollment
<1>5. CASE IdentityFails
  BY <1>5 DEF IdentityFails
<1>6. CASE IdentityNeedsSetup
  BY <1>6 DEF IdentityNeedsSetup
<1>7. CASE IdentityRead
  BY <1>7 DEF IdentityRead
<1>8. CASE EnrollAnswered
  BY <1>8, EnrollAnsweredSays DEF EnrollAnswered
<1>9. CASE RestoreAnswered
  BY <1>9 DEF RestoreAnswered
<1>10. CASE PreserveRefused
  BY <1>10 DEF PreserveRefused
<1>11. CASE Preserve
  <2> SUFFICES ASSUME NEW g \in given \ excused, Kept(g)
               PROVE  Kept(g)'
    BY <1>11 DEF Preserve
  <2>1. CASE Stored(g, outer)
    BY <1>11, <2>1, StoredStays DEF Preserve
  <2>2. CASE g = pending
    BY <1>11, <2>2 DEF Preserve
  <2>3. CASE g = capture.answer
    <3>1. ReceiptOf(g) \in receipts' /\ Opens(ReceiptOf(g), outer')
      BY <1>11, <2>3 DEF Preserve
    <3> QED
      BY <3>1
  <2> QED
    BY <2>1, <2>2, <2>3
<1>12. CASE PreserveFails
  <2> SUFFICES ASSUME NEW g \in given \ excused', Kept(g)
               PROVE  Kept(g)'
    BY <1>12 DEF PreserveFails
  <2>1. CASE Stored(g, outer)
    BY <1>12, <2>1, StoredStays DEF PreserveFails
  <2>2. CASE g = pending
    BY <1>12, <2>2 DEF PreserveFails
  <2>3. CASE g = capture.answer /\ receipts' = receipts
    BY <1>12, <2>3 DEF PreserveFails
  <2>4. CASE g = capture.answer /\ receipts' # receipts
    <3>1. ReceiptOf(g) \in receipts' /\ Opens(ReceiptOf(g), outer')
      BY <1>12, <2>4 DEF PreserveFails
    <3> QED
      BY <3>1
  <2> QED
    BY <2>1, <2>2, <2>3, <2>4
<1>13. CASE Commit
  BY <1>13, CommitSays DEF Commit
<1>14. CASE Complete
  BY <1>14 DEF Complete
<1>15. CASE CompleteFails
  BY <1>15 DEF CompleteFails
<1>16. CASE Verify
  BY <1>16 DEF Verify
<1>17. CASE VerifyFails
  BY <1>17 DEF VerifyFails
<1>18. CASE RecoverBattleNetEnrollments
  BY <1>18 DEF RecoverBattleNetEnrollments
<1>19. CASE CompleteNext
  <2> SUFFICES ASSUME NEW g \in given \ excused, Kept(g)
               PROVE  Kept(g)'
    BY <1>19 DEF CompleteNext
  <2>1. \A r \in receipts : r.answer = g => record[g] = "blizzard"
    BY <1>19 DEF CompleteNext, Payloads, OnDisk
  <2>2. UNCHANGED <<record, pending, outer, unsaved>>
    BY <1>19 DEF CompleteNext
  <2>3. capture.at # "preserve"
    BY <1>19 DEF CompleteNext
  <2> QED
    BY <2>1, <2>2, <2>3
<1>20. CASE Recovered
  <2> SUFFICES ASSUME NEW g \in given \ excused, Kept(g)
               PROVE  Kept(g)'
    BY <1>20 DEF Recovered
  <2>1. g = pending => record[g] = "blizzard"
    BY <1>20 DEF Recovered, Payloads
  <2>2. UNCHANGED <<record, receipts, outer>> /\ capture.at # "preserve" /\ receipts = {}
    BY <1>20 DEF Recovered
  <2> QED
    BY <2>1, <2>2
<1>21. CASE ReceiptDoesNotOpen
  BY <1>21 DEF ReceiptDoesNotOpen
<1>22. CASE LeaseEnds
  BY <1>22 DEF LeaseEnds
<1>23. CASE LockNow
  BY <1>23 DEF LockNow
<1>24. CASE Unlock
  BY <1>24 DEF Unlock
<1>25. CASE EndView
  BY <1>25 DEF EndView
<1>26. CASE Expire
  BY <1>26 DEF Expire
<1>27. CASE OuterChanges
  <2> SUFFICES ASSUME NEW g \in given \ excused', Kept(g)
               PROVE  Kept(g)'
    BY <1>27 DEF OuterChanges
  <2>1. UNCHANGED <<record, receipts, pending, capture>> /\ capture.answer = None /\ unsaved \subseteq unsaved'
    BY <1>27 DEF OuterChanges
  <2>2. CASE Stored(g, outer) /\ ~Stored(g, outer')
    <3>1. g \in unsaved' /\ Held(g)
      BY <1>27, <2>2 DEF OuterChanges
    <3> QED
      BY <2>1, <3>1 DEF Held
  <2>3. CASE Stored(g, outer')
    BY <2>1, <2>3
  <2>4. CASE ~Stored(g, outer)
    BY <2>1, <2>4
  <2> QED
    BY <2>2, <2>3, <2>4
<1>28. CASE Crash
  BY <1>28 DEF Crash, NoOperation
<1>29. CASE \E g \in Serials : RestoreBattleNetAuthenticator(g)
  BY <1>29 DEF RestoreBattleNetAuthenticator, AnswerLeft
<1>30. CASE \E g \in Serials : \E secret \in {"blizzard", "other"} : ImportBattleNet(g, secret)
  BY <1>30 DEF ImportBattleNet
<1> QED
  BY <1>1, <1>2, <1>3, <1>4, <1>5, <1>6, <1>7, <1>8, <1>9, <1>10, <1>11, <1>12, <1>13, <1>14, <1>15, <1>16, <1>17, <1>18, <1>19, <1>20, <1>21, <1>22, <1>23, <1>24, <1>25, <1>26, <1>27, <1>28, <1>29, <1>30 DEF Next

-----------------------------------------------------------------------------
LEMMA ReceiptsStep == ReceiptsInv /\ [Next]_vars => ReceiptsInv'
<1> SUFFICES ASSUME ReceiptsInv, [Next]_vars
             PROVE  ReceiptsInv'
  OBVIOUS
<1>1. CASE Next
  <2>1. Types
    BY TypesByPart DEF ReceiptsInv
  <2>2. Types'
    BY <1>1, <2>1, TypesStay DEF ReceiptsInv
  <2>3. TypeOK'
    BY <2>2, TypesByPart, PTL
  <2> QED
    BY <1>1, <2>1, <2>2, <2>3, SettledStays, CapturesFit, AnswersStay DEF ReceiptsInv
<1>2. CASE UNCHANGED vars
  BY <1>2 DEF ReceiptsInv, vars, store, vault, past, TypeOK, AnswersKept, Kept, Stored, Opens, CaptureFits,
              Saves, InHand, At, ReceiptOf, Payloads, OnDisk, SettledFits
<1> QED
  BY <1>1, <1>2

(* What a capture has made sure of at each place, where the secrets of every *)
(* answer are, and who settles an enrollment whose end is open, whatever     *)
(* write fails and wherever the process dies (battlenet_enrollment.go).      *)
THEOREM ReceiptsInvariant == Spec => []ReceiptsInv
  BY ReceiptsInitial, ReceiptsStep, PTL DEF Spec

(* Every variable keeps its type; in particular only the secrets of an       *)
(* account go on to a commit (preserveBattleNetResponse), and what counts as *)
(* given was attached.                                                       *)
THEOREM ReceiptsTypeCorrect == Spec => []TypeOK
<1>1. ReceiptsInv => TypeOK
  BY DEF ReceiptsInv
<1> QED
  BY <1>1, ReceiptsInvariant, PTL

(* The secrets Blizzard has given once are in the vault, in a receipt that   *)
(* opens, or still in memory, whatever fails and however often               *)
(* (CaptureProviderRecord, RecoverBattleNetEnrollments).                     *)
THEOREM ResponsesAreKept == Spec => []ResponseIsKept
<1>1. ReceiptsInv => ResponseIsKept
  BY DEF ReceiptsInv, AnswersKept, Kept, ResponseIsKept, Held
<1> QED
  BY <1>1, ReceiptsInvariant, PTL

(* Blizzard is not asked for another authenticator while the end of an       *)
(* earlier request is open (BeginBattleNetEnrollment, CaptureStarts).        *)
THEOREM EnrollmentNotRepeated == Spec => NotStartedAgain
<1>1. ReceiptsInv /\ [Next]_vars =>
        [At({"enroll"}, "identity") /\ capture'.at = "asked" => ~unsettled]_vars
  BY PlaceSays, TypesByPart DEF ReceiptsInv, SettledFits, Types, At
<1> QED
  BY <1>1, ReceiptsInvariant, PTL DEF Spec, NotStartedAgain
=============================================================================
