-------------------------- MODULE RecoveryReceipts --------------------------
(***************************************************************************)
(* Adding and restoring a Battle.net authenticator                         *)
(* (src/internal/steamguard/battlenet_enrollment.go, vault/provider.go,    *)
(* src/internal/battlenetauth).                                            *)
(*                                                                         *)
(* Blizzard attaches the authenticator before the program has its secrets, *)
(* and gives them once.  The answer is therefore kept three times: in      *)
(* protected memory, in a receipt beside the vault, and, if it is what it  *)
(* should be, in a record of the vault; then the receipt is marked         *)
(* committed, and is never read again.  What is left over is recovered     *)
(* later.  A capture holds Service.mu and the vault's mutex from the first *)
(* request to the end: only a crash, the end of the vault's lease or a     *)
(* closing window comes between its steps.                                 *)
(*                                                                         *)
(* An answer holds the secrets of a serial, says that the account has to   *)
(* be set up first, or is nothing that can be used: a refusal, a malformed *)
(* body, no body at all.  A record has the secret that Blizzard has, or,   *)
(* after an import, another.  Names, labels, links, the profile of the     *)
(* browser and the flag that the user has written the restore code down    *)
(* are left out; so are committed receipts.  A commit of the vault is one  *)
(* step, as GenerationStore shows; every write may fail after its effect.  *)
(***************************************************************************)
EXTENDS Naturals

CONSTANTS
    Serials,       \* authenticators
    OuterKeys,     \* keys of the outer layer, from the app's master key
    None,
    MaxMishaps     \* bound: failed writes, failures of protected memory, crashes

ASSUME NoneIsNothing == None \notin Serials \cup OuterKeys
ASSUME AnswersDiffer == {"setup", "nothing"} \cap (Serials \cup {None}) = {}
ASSUME MishapsBounded == MaxMishaps \in Nat

Answers == Serials \cup {"setup", "nothing"}
Receipt == [answer : Answers, outer : OuterKeys \cup {None}]
NoCapture == [who |-> "nobody", at |-> "none", answer |-> None, saved |-> FALSE]
(* identity, asked: the requests; preserve: an answer came; commit,          *)
(* complete: it is being stored; verify: it asks for account setup.          *)
Capture ==
    {NoCapture}
      \cup [who : {"enroll"}, at : {"identity", "asked"}, answer : {None}, saved : {FALSE}]
      \cup [who : {"restore"}, at : {"asked"}, answer : Serials, saved : {FALSE}]
      \cup [who : {"enroll", "restore"}, at : {"preserve"}, answer : Answers, saved : {FALSE}]
      \cup [who : {"enroll", "restore"}, at : {"commit", "complete"}, answer : Serials, saved : {TRUE}]
      \cup [who : {"enroll", "restore"}, at : {"verify"}, answer : {"setup"}, saved : {TRUE}]
      \cup [who : {"recover"}, at : {"complete"}, answer : {None}, saved : {FALSE}]
States == {"none", "waiting", "saving", "failed", "canceled", "verification-required",
           "recovery-required", "pending-backup"}
NoOperation == [state |-> "none", bound |-> FALSE, expired |-> FALSE]

VARIABLES
    record,      \* the vault's record of each serial
    receipts,    \* the receipts not marked committed
    pending,     \* battleNetRuntime.pending: an answer in protected memory
    op,          \* battleNetRuntime.operation; bound: its token still resolves
    capture,     \* the capture or recovery that holds Service.mu
    outer,       \* the outer layer of the vault
    locked,      \* the vault is locked
    attached,    \* history: authenticators Blizzard has
    given,       \* history: those whose secrets came back to this program
    unsaved,     \* history: those whose receipt failed or no longer opens
    excused,     \* history: those the program could not keep, see the actions
    unsettled,   \* history: an enrollment was asked for and its answer is not settled
    mishaps

store == <<record, receipts, pending>>
vault == <<outer, locked>>
past == <<attached, given, unsaved, excused, unsettled, mishaps>>
vars == <<store, op, capture, vault, past>>

Init ==
    /\ record = [g \in Serials |-> None] /\ receipts = {} /\ pending = None
    /\ op = NoOperation /\ capture = NoCapture
    /\ outer \in OuterKeys \cup {None} /\ locked = TRUE
    /\ attached = {} /\ given = {} /\ unsaved = {} /\ excused = {} /\ unsettled = FALSE /\ mishaps = 0

MutexFree == capture = NoCapture
Mishap == mishaps < MaxMishaps /\ mishaps' = mishaps + 1
At(who, at) == capture.who \in who /\ capture.at = at
GoOn(at) == capture' = [capture EXCEPT !.at = at]

(* A receipt opens under the outer key it was sealed with, or none: an       *)
(* outer layer that comes or goes leaves receipts as they are.               *)
Opens(r, layer) == r.outer \in {None, layer}
Stored(g, layer) ==
    record[g] = "blizzard" \/ \E r \in receipts : r.answer = g /\ Opens(r, layer)
Held(g) == g \in {pending, capture.answer}

-----------------------------------------------------------------------------
(* The operation of the user.                                                *)

(* What is left of an earlier answer, in memory or on disk.                  *)
(* Mutant: only memory is asked, which a restart has emptied.                *)
InMemory == pending # None
AnswerLeft == pending # None \/ receipts # {}
Running == op.state \in {"waiting", "saving"} /\ op.bound /\ ~op.expired

(* The window of the browser may fail to open.  The call in flight of the    *)
(* operation that is replaced finds another one in its place and returns.    *)
BeginBattleNetEnrollment ==
    /\ MutexFree /\ ~locked
    /\ op.state # "recovery-required" /\ ~AnswerLeft /\ ~Running
    /\ \E state \in {"waiting", "failed"} :
          op' = [state |-> state, bound |-> TRUE, expired |-> FALSE]
    /\ UNCHANGED <<store, capture, vault, past>>

(* The login window has reached the redirect: completeBattleNetEnrollment.   *)
LoginReturns ==
    /\ MutexFree /\ op.state = "waiting" /\ ~op.expired
    /\ \/ op.bound /\ ~locked /\ op' = [op EXCEPT !.state = "saving"]
       \/ op' = [op EXCEPT !.state = "failed"]
    /\ UNCHANGED <<store, capture, vault, past>>

(* The name was read without the mutex; a cancel or the time limit may have  *)
(* ended the call meanwhile.                                                 *)
CaptureStarts ==
    /\ MutexFree /\ op.state = "saving"
    /\ \/ /\ op.bound /\ ~locked
          /\ capture' = [NoCapture EXCEPT !.who = "enroll", !.at = "identity"]
          /\ UNCHANGED op
       \/ op' = [op EXCEPT !.state = "failed"] /\ UNCHANGED capture
    /\ UNCHANGED <<store, vault, past>>

CancelBattleNetEnrollment ==
    /\ MutexFree /\ op.state \in {"waiting", "verification-required"}
    /\ op' = [op EXCEPT !.state = "canceled"]
    /\ UNCHANGED <<store, capture, vault, past>>

(* The user knows a serial and its restore code.                             *)
RestoreBattleNetAuthenticator(g) ==
    /\ MutexFree /\ ~locked /\ record[g] = None /\ ~AnswerLeft
    /\ capture' = [NoCapture EXCEPT !.who = "restore", !.at = "asked", !.answer = g]
    /\ attached' = attached \cup {g}
    /\ UNCHANGED <<store, op, vault, given, unsaved, excused, unsettled, mishaps>>

-----------------------------------------------------------------------------
(* How a capture ends.                                                       *)

(* What the caller does with an error.  A restore only returns it.           *)
FailedAs(recovery) ==
    /\ capture' = NoCapture
    /\ op' = IF capture.who = "enroll"
             THEN [op EXCEPT !.state = IF recovery THEN "recovery-required" ELSE "failed"]
             ELSE op
FinishedAs(state) ==
    /\ capture' = NoCapture /\ pending' = None
    /\ unsettled' = (unsettled /\ capture.who # "enroll")
    /\ op' = IF capture.who = "enroll" THEN [op EXCEPT !.state = state] ELSE op

(* EnrollWithRecovery signs in and reads who the user is first.              *)
IdentityFails ==
    /\ At({"enroll"}, "identity") /\ FailedAs(pending # None)
    /\ UNCHANGED <<store, vault, past>>
(* The sign-in asks for account setup: an answer that a restore left in      *)
(* memory goes, too.                                                         *)
IdentityNeedsSetup ==
    /\ At({"enroll"}, "identity") /\ FinishedAs("verification-required")
    /\ excused' = excused \cup {g \in Serials : g = pending /\ ~Stored(g, outer)}
    /\ UNCHANGED <<record, receipts, vault, attached, given, unsaved, mishaps>>
IdentityRead ==
    /\ At({"enroll"}, "identity") /\ GoOn("asked")
    /\ unsettled' = TRUE
    /\ UNCHANGED <<store, op, vault, attached, given, unsaved, excused, mishaps>>

(* Blizzard's answer; an enrollment may be attached although none comes.     *)
EnrollAnswered ==
    /\ At({"enroll"}, "asked")
    /\ \/ \E g \in Serials \ attached :
             /\ attached' = attached \cup {g}
             /\ \E a \in {g, "nothing"} : capture' = [capture EXCEPT !.at = "preserve", !.answer = a]
             /\ given' = given \cup (Serials \cap {capture'.answer})
       \/ /\ \E a \in {"setup", "nothing"} :
                capture' = [capture EXCEPT !.at = "preserve", !.answer = a]
          /\ UNCHANGED <<attached, given>>
    /\ UNCHANGED <<store, op, vault, unsaved, excused, unsettled, mishaps>>
RestoreAnswered ==
    /\ At({"restore"}, "asked")
    /\ \E a \in {capture.answer, "setup", "nothing"} :
          /\ capture' = [capture EXCEPT !.at = "preserve", !.answer = a]
          /\ given' = given \cup (Serials \cap {a})
    /\ UNCHANGED <<store, op, vault, attached, unsaved, excused, unsettled, mishaps>>

-----------------------------------------------------------------------------
(* Keeping the answer: preserveBattleNetResponse and CaptureProviderRecord.  *)

InHand == Serials \cap {capture.answer}
ReceiptOf(a) == [answer |-> a, outer |-> outer]
(* Mutant: what came is put in the vault unseen.                             *)
Unseen(a) == TRUE
IsAccount(a) == a \in Serials

(* A restore has left an answer in memory while the login window was open:   *)
(* the late answer is refused, whatever it holds.                            *)
PreserveRefused ==
    /\ At({"enroll", "restore"}, "preserve") /\ pending # None /\ FailedAs(TRUE)
    /\ excused' = excused \cup InHand /\ unsettled' = FALSE
    /\ UNCHANGED <<store, vault, attached, given, unsaved, mishaps>>

(* The receipt is on disk; protected memory may have failed.                 *)
Preserve ==
    /\ At({"enroll", "restore"}, "preserve") /\ pending = None
    /\ receipts' = receipts \cup {ReceiptOf(capture.answer)}
    /\ \/ pending' = capture.answer /\ UNCHANGED mishaps
       \/ UNCHANGED pending /\ Mishap
    /\ \/ /\ IsAccount(capture.answer) \/ capture.answer = "setup"
          /\ capture' = [capture EXCEPT !.saved = TRUE,
                            !.at = IF IsAccount(capture.answer) THEN "commit" ELSE "verify"]
          /\ UNCHANGED op
       \/ ~IsAccount(capture.answer) /\ capture.answer = "nothing" /\ FailedAs(TRUE)
    /\ UNCHANGED <<record, vault, attached, given, unsaved, excused, unsettled>>

(* The write of the receipt fails, before or after its rename.               *)
PreserveFails ==
    /\ At({"enroll", "restore"}, "preserve") /\ pending = None /\ FailedAs(TRUE)
    /\ receipts' \in {receipts, receipts \cup {ReceiptOf(capture.answer)}}
    /\ \/ pending' = capture.answer /\ Mishap /\ UNCHANGED excused
       \/ /\ UNCHANGED pending
          /\ mishaps + 2 <= MaxMishaps /\ mishaps' = mishaps + 2
          /\ excused' = excused \cup (IF receipts' = receipts THEN InHand ELSE {})
    /\ unsaved' = unsaved \cup InHand
    /\ UNCHANGED <<record, vault, attached, given, unsettled>>

(* One generation of the vault; a failed commit may have happened.           *)
Commit ==
    /\ At({"enroll", "restore"}, "commit")
    /\ LET put == [record EXCEPT ![capture.answer] = "blizzard"]
           taken == record[capture.answer] # None
       IN \/ /\ ~taken /\ record' = put /\ GoOn("complete")
             /\ unsettled' = (unsettled /\ capture.who # "enroll") /\ UNCHANGED <<op, mishaps>>
          \/ taken /\ FailedAs(TRUE) /\ UNCHANGED <<record, unsettled, mishaps>>
          \/ ~taken /\ FailedAs(TRUE) /\ record' \in {record, put} /\ Mishap /\ UNCHANGED unsettled
    /\ UNCHANGED <<receipts, pending, vault, attached, given, unsaved, excused>>

Completed(a) == receipts \ {ReceiptOf(a)}
Complete ==
    /\ At({"enroll", "restore"}, "complete")
    /\ receipts' = Completed(capture.answer) /\ FinishedAs("pending-backup")
    /\ UNCHANGED <<record, vault, attached, given, unsaved, excused, mishaps>>
CompleteFails ==
    /\ At({"enroll", "restore"}, "complete") /\ FailedAs(TRUE) /\ Mishap
    /\ receipts' \in {receipts, Completed(capture.answer)}
    /\ UNCHANGED <<record, pending, vault, attached, given, unsaved, excused, unsettled>>

(* Blizzard wants account setup first: nothing is attached.  The vault's     *)
(* mutex was given up meanwhile, so its lease may have ended.                *)
Verify ==
    /\ At({"enroll", "restore"}, "verify") /\ ~locked
    /\ receipts' = Completed(capture.answer) /\ FinishedAs("verification-required")
    /\ UNCHANGED <<record, vault, attached, given, unsaved, excused, mishaps>>
VerifyFails ==
    /\ At({"enroll", "restore"}, "verify") /\ FailedAs(TRUE)
    /\ \/ locked /\ UNCHANGED <<receipts, mishaps>>
       \/ ~locked /\ Mishap /\ receipts' \in {receipts, Completed(capture.answer)}
    /\ UNCHANGED <<record, pending, vault, attached, given, unsaved, excused, unsettled>>

-----------------------------------------------------------------------------
(* RecoverBattleNetEnrollments.                                              *)

(* Mutant: what is only in memory is not put in the vault.                   *)
OnDisk == {r.answer : r \in receipts}
Payloads == OnDisk \cup ({pending} \ {None})
Readable == \A r \in receipts : Opens(r, outer)

(* The first answer that is of no use, or that disagrees with the vault's    *)
(* record, refuses them all; with no answer left there is nothing to be      *)
(* done for an operation that needs one.                                     *)
RecoverBattleNetEnrollments ==
    /\ MutexFree /\ ~locked /\ Readable
    /\ Payloads # {} \/ op.state # "recovery-required"
    /\ "nothing" \notin Payloads
    /\ \A g \in Serials \cap Payloads : record[g] # "other"
    /\ LET put == [g \in Serials |-> IF g \in Payloads THEN "blizzard" ELSE record[g]]
       IN \/ /\ record' = put
             /\ capture' = [NoCapture EXCEPT !.who = "recover", !.at = "complete"]
             /\ unsettled' = FALSE /\ UNCHANGED mishaps
          \/ /\ record' \in {record, put} /\ put # record /\ Mishap
             /\ UNCHANGED <<capture, unsettled>>
    /\ UNCHANGED <<receipts, pending, op, vault, attached, given, unsaved, excused>>

CompleteNext ==
    /\ At({"recover"}, "complete")
    /\ \E r \in receipts :
          \/ ~locked /\ receipts' = receipts \ {r} /\ UNCHANGED <<capture, mishaps>>
          \/ locked /\ capture' = NoCapture /\ UNCHANGED <<receipts, mishaps>>
          \/ /\ ~locked /\ capture' = NoCapture /\ Mishap
             /\ receipts' \in {receipts, receipts \ {r}}
    /\ UNCHANGED <<record, pending, op, vault, attached, given, unsaved, excused, unsettled>>
Recovered ==
    /\ At({"recover"}, "complete") /\ receipts = {}
    /\ capture' = NoCapture /\ pending' = None
    /\ op' = IF op.state = "recovery-required" THEN [op EXCEPT !.state = "canceled"] ELSE op
    /\ UNCHANGED <<record, receipts, vault, past>>

(* A receipt sealed under another key of the outer layer revokes the lease   *)
(* of the vault for whoever reads the receipts; without an outer layer the   *)
(* call only fails.                                                          *)
ReceiptDoesNotOpen ==
    /\ MutexFree /\ ~locked /\ outer # None /\ ~Readable
    /\ locked' = TRUE
    /\ UNCHANGED <<store, op, capture, outer, past>>

-----------------------------------------------------------------------------
(* The rest of the program.                                                  *)

(* From a backup or another program; a backup may hold an older secret.  To  *)
(* replace a record is the user's explicit choice.                           *)
ImportBattleNet(g, secret) ==
    /\ MutexFree /\ ~locked
    /\ record' = [record EXCEPT ![g] = secret]
    /\ attached' = attached \cup {g}
    /\ excused' = excused \cup (IF record[g] = "blizzard" /\ secret = "other" THEN {g} ELSE {})
    /\ UNCHANGED <<receipts, pending, op, capture, vault, given, unsaved, unsettled, mishaps>>

(* The lease of the vault's key ends by itself, also during a capture, which *)
(* has the key in hand.                                                      *)
LeaseEnds ==
    /\ ~locked /\ locked' = TRUE
    /\ UNCHANGED <<store, op, capture, outer, past>>
LockNow ==
    /\ MutexFree
    /\ locked' = TRUE /\ op' = [op EXCEPT !.bound = FALSE]
    /\ UNCHANGED <<store, capture, outer, past>>
Unlock ==
    /\ MutexFree /\ locked /\ locked' = FALSE
    /\ UNCHANGED <<store, op, capture, outer, past>>
EndView ==
    /\ op.bound /\ op' = [op EXCEPT !.bound = FALSE]
    /\ UNCHANGED <<store, capture, vault, past>>
Expire ==
    /\ op.state \in {"waiting", "saving"} /\ ~op.expired
    /\ op' = [op EXCEPT !.expired = TRUE]
    /\ UNCHANGED <<store, capture, vault, past>>

(* Saved-account encryption is turned on, with a new key, or off: the files  *)
(* of the vault's generation are migrated, the receipts beside it are not.   *)
OuterChanges ==
    /\ MutexFree
    /\ outer' \in IF outer = None THEN OuterKeys \ {r.outer : r \in receipts} ELSE {None}
    /\ LET closed == {g \in given : Stored(g, outer) /\ ~Stored(g, outer')}
       IN unsaved' = unsaved \cup closed /\ excused' = excused \cup {g \in closed : ~Held(g)}
    /\ UNCHANGED <<store, op, capture, locked, attached, given, unsettled, mishaps>>

(* Without a receipt the next process cannot know of an answer.              *)
Crash ==
    /\ Mishap
    /\ excused' = excused \cup {g \in given : /\ ~Stored(g, outer)
                                              /\ \/ g \in unsaved
                                                 \/ g = capture.answer /\ ~capture.saved}
    /\ pending' = None /\ op' = NoOperation /\ capture' = NoCapture /\ locked' = TRUE
    /\ unsettled' = (unsettled /\ receipts # {})
    /\ UNCHANGED <<record, receipts, outer, attached, given, unsaved>>

Next ==
    \/ BeginBattleNetEnrollment \/ LoginReturns \/ CaptureStarts \/ CancelBattleNetEnrollment
    \/ IdentityFails \/ IdentityNeedsSetup \/ IdentityRead
    \/ EnrollAnswered \/ RestoreAnswered
    \/ PreserveRefused \/ Preserve \/ PreserveFails \/ Commit
    \/ Complete \/ CompleteFails \/ Verify \/ VerifyFails
    \/ RecoverBattleNetEnrollments \/ CompleteNext \/ Recovered \/ ReceiptDoesNotOpen
    \/ \E g \in Serials : \/ RestoreBattleNetAuthenticator(g)
                          \/ \E secret \in {"blizzard", "other"} : ImportBattleNet(g, secret)
    \/ LeaseEnds \/ LockNow \/ Unlock \/ EndView \/ Expire \/ OuterChanges \/ Crash

Spec == Init /\ [][Next]_vars

-----------------------------------------------------------------------------
(* Types; what goes on to the commit is an account, and an answer in memory  *)
(* or on disk is one of Blizzard's.                                          *)
TypeOK ==
    /\ record \in [Serials -> {None, "blizzard", "other"}]
    /\ receipts \subseteq Receipt /\ pending \in Answers \cup {None}
    /\ op \in [state : States, bound : BOOLEAN, expired : BOOLEAN]
    /\ capture \in Capture
    /\ outer \in OuterKeys \cup {None} /\ locked \in BOOLEAN /\ unsettled \in BOOLEAN
    /\ given \subseteq attached /\ unsaved \subseteq given
    /\ excused \cup attached \subseteq Serials /\ mishaps \in 0 .. MaxMishaps

(* The secrets Blizzard has given once are in the vault, in a receipt that   *)
(* opens, or still in memory, through failed writes, crashes, locks, a       *)
(* recovery that stops half-way and whatever the user does meanwhile; the    *)
(* exceptions are the ones the actions name (CaptureProviderRecord,          *)
(* RecoverBattleNetEnrollments).                                             *)
ResponseIsKept == \A g \in given \ excused : Stored(g, outer) \/ Held(g)

(* Blizzard is not asked for another authenticator while the end of an       *)
(* earlier request is open, nor by the next process if the answer reached    *)
(* the disk (BeginBattleNetEnrollment, and the warning of en-US.json:90).    *)
NotStartedAgain ==
    [][At({"enroll"}, "identity") /\ capture'.at = "asked" => ~unsettled]_vars
=============================================================================
