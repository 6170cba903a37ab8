------------------------------ MODULE BasicFlow ------------------------------
(***************************************************************************)
(* Switching a launcher between saved accounts (src/internal/basic).       *)
(*                                                                         *)
(* The launcher keeps the session it is signed in with as an account id    *)
(* and login files.  A save is a copy of them in a directory named after   *)
(* the account; ids.json maps the id to that name.  A switch closes the    *)
(* launcher, saves the session in place, clears it and copies the one      *)
(* asked for back, file by file.                                           *)
(*                                                                         *)
(* BasicService runs its calls under one mutex: they are the caller Ui.    *)
(* Game shortcuts and forwarded commands call the flow without it.         *)
(*                                                                         *)
(* Platforms whose launcher writes the account id itself; saves are plain. *)
(* SavedAccounts has the encrypted ones and the steps inside a commit.     *)
(***************************************************************************)
EXTENDS Naturals, FiniteSets

CONSTANTS
    Accounts,      \* accounts of the launcher, and the ids it writes for them
    Names,         \* account names as they stand in ids.json and on disk
    Files,         \* login files of the platform's descriptor, the id apart
    Id,            \* the part of a session the account id is read from
    Ui,            \* the caller that holds BasicService.mu
    Outsiders,     \* callers without it: shortcuts and commands
    None,
    Platforms,     \* bound: the descriptors of this instance
    Happens,       \* bound: the calls and events of this instance
    MaxSessions,   \* bound: sessions the launcher issues for one account
    MaxMishaps     \* bound: failed file operations, failed kills and crashes

ASSUME MarkersDiffer == Id \notin Files /\ Ui \notin Outsiders
                        /\ None \notin Accounts \cup Names \cup Files \cup Outsiders \cup {Id, Ui}
ASSUME BoundsAreNumbers == MaxSessions \in Nat /\ MaxMishaps \in Nat

Callers == {Ui} \cup Outsiders
Parts == Files \cup {Id}
(* What a part of a session is: files at a path or matching a pattern, a     *)
(* field of a JSON file, a registry value; required: AllFilesRequired.       *)
PartKinds == {"path", "glob", "json", "registry"}
Descriptor == [part : [Parts -> PartKinds], required : BOOLEAN]
ASSUME PlatformsAreDescribed == Platforms \subseteq Descriptor
Token == Accounts \X (1 .. MaxSessions)
ASSUME NoneIsNoToken == None \notin Token
Session == [id : Accounts \cup {None}, files : [Files -> Token \cup {None}]]
ASSUME NoneIsNoSession == None \notin Session

SignedOut == [id |-> None, files |-> [f \in Files |-> None]]
Index == [Accounts -> Names \cup {None}]

Kinds == {"none", "swap", "save", "add", "logout", "forget", "rename"}
(* read/write: ids.json is read, then written with the change; touch and     *)
(* last: the same for lastused, after a save and after a switch.             *)
Stages == {"idle", "kill", "save", "read", "write", "touch", "touched", "clear", "login",
           "last", "lasted", "launch", "remove", "move"}
(* uid: whom to switch to, name: whose save or which new name; of, old: the  *)
(* account whose entry of ids.json changes and the name it is saved under;   *)
(* seen: history, the id a switch read in the launcher before closing it;    *)
(* torn: history, the save it made, then the session it restores, lacks what *)
(* the call left out.                                                        *)
Call == [kind : Kinds, pc : Stages, uid : Accounts \cup {None}, name : Names \cup {None},
         of : Accounts \cup {None}, old : Names \cup {None}, ids : Index, todo : SUBSET Parts,
         saved : BOOLEAN, torn : BOOLEAN, seen : Accounts \cup {None}]

VARIABLES
    descriptor,  \* what Platforms.json says of the platform
    live,        \* the session in the launcher's own files and registry
    running,     \* the launcher runs
    dir,         \* disk: the saved session below LoginCache, by name
    ids,         \* disk: ids.json
    calls,       \* the calls in flight
    latest,      \* history: the last session the launcher issued, by account
    excused,     \* history: accounts whose last session was given up or hit by a failure
    crossed,     \* history: accounts whose name leads to a save that is not theirs alone
    tainted,        \* history: the session in place is what a failure or a crossed save left
    claim,       \* history: the account the last switch reported, while that is news
    mishaps      \* failures so far

disk == <<dir, ids>>
history == <<latest, excused, crossed, tainted>>
vars == <<descriptor, live, running, dir, ids, calls,
          latest, excused, crossed, tainted, claim, mishaps>>

NoIndex == [a \in Accounts |-> None]
NoCall == [kind |-> "none", pc |-> "idle", uid |-> None, name |-> None, of |-> None, old |-> None,
           ids |-> NoIndex, todo |-> {}, saved |-> FALSE, torn |-> FALSE, seen |-> None]

Init ==
    /\ descriptor \in Platforms
    /\ live = SignedOut /\ running = TRUE
    /\ dir = [n \in Names |-> None] /\ ids = NoIndex
    /\ calls = [c \in Callers |-> NoCall]
    /\ latest = [a \in Accounts |-> 0]
    /\ excused = {} /\ crossed = {} /\ tainted = FALSE /\ claim = None /\ mishaps = 0

(* The session s is one whole session of account a.                          *)
WholeOf(s, a) == /\ s # None /\ s.id = a
                 /\ \E t \in Token : t[1] = a /\ \A f \in Files : s.files[f] = t
(* ... and the newest one.                                                   *)
NewestOf(s, a) == s # None /\ s.id = a /\ \A f \in Files : s.files[f] = <<a, latest[a]>>

Listed == {a \in Accounts : ids[a] # None}
Idle(c) == calls[c].pc = "idle"
AllIdle == \A c \in Callers : Idle(c)
At(c, stage) == calls[c].pc = stage
Goto(c, stage) == calls' = [calls EXCEPT ![c].pc = stage]
Return(c) == calls' = [calls EXCEPT ![c] = NoCall]

Smooth == UNCHANGED mishaps
Mishap == mishaps < MaxMishaps /\ mishaps' = mishaps + 1
(* The call ends with an error.                                              *)
Fail(c) == Return(c) /\ UNCHANGED <<live, running, disk, history, claim>>

-----------------------------------------------------------------------------
(* The launcher and its user.                                                *)

(* Signed out, or left with a session it rejects, it asks for a sign-in.     *)
SignIn(a) ==
    /\ running /\ latest[a] < MaxSessions
    /\ ~ \E b \in Accounts : NewestOf(live, b)
    /\ latest' = [latest EXCEPT ![a] = @ + 1]
    /\ live' = [id |-> a, files |-> [f \in Files |-> <<a, latest[a] + 1>>]]
    /\ excused' = excused \ {a} /\ tainted' = FALSE /\ claim' = None
    /\ UNCHANGED <<descriptor, running, disk, calls, crossed, mishaps>>

(* Tokens rotate: what was saved of the account before opens nothing.        *)
Rotate ==
    /\ running
    /\ \E a \in Accounts :
          /\ NewestOf(live, a) /\ latest[a] < MaxSessions
          /\ latest' = [latest EXCEPT ![a] = @ + 1]
          /\ live' = [live EXCEPT !.files = [f \in Files |-> <<a, latest[a] + 1>>]]
          /\ excused' = excused \ {a}
    /\ claim' = None
    /\ UNCHANGED <<descriptor, running, disk, calls, crossed, tainted, mishaps>>

(* Signing out in the launcher ends the session everywhere.                  *)
SignOut ==
    /\ "signout" \in Happens /\ running
    /\ \E a \in Accounts : NewestOf(live, a) /\ excused' = excused \cup {a}
    /\ live' = SignedOut /\ claim' = None
    /\ UNCHANGED <<descriptor, running, disk, calls, latest, crossed, tainted, mishaps>>

StartLauncher ==
    /\ ~running /\ AllIdle /\ running' = TRUE
    /\ UNCHANGED <<descriptor, live, disk, calls, history, claim, mishaps>>

-----------------------------------------------------------------------------
(* The calls up to their first change of anything.                           *)

(* The mutex keeps the calls of Ui apart, and them from no others.           *)
MayBegin(c) == Idle(c) /\ ("overlap" \in Happens \/ AllIdle)
Begin(c, call) == calls' = [calls EXCEPT ![c] = call] /\ claim' = None

(* Mutant: no account in the launcher passes for the one asked for.          *)
UnknownIsRequested(cur, uid, args) == cur \in {uid, None} /\ ~args
(* Same id, nothing to launch with: nothing is done.                         *)
AlreadyOnRequested(cur, uid, args) == cur = uid /\ ~args

(* Mutant: the session is saved only when the account asked for has no save. *)
SaveUnlessSaved(cur, uid) == IF cur \in Listed /\ dir[ids[uid]] = None THEN ids[cur] ELSE None
(* The name to save the session in place under, before it is cleared.        *)
SaveAs(cur, uid) == IF cur \in Listed \ {uid} THEN ids[cur] ELSE None

(* SwapTo up to the kill.  An id that cannot be read counts as none, and the *)
(* session in place is then not saved.                                       *)
SwapTo(c, uid, args) ==
    /\ "swap" \in Happens /\ MayBegin(c) /\ ids[uid] # None
    /\ args => "args" \in Happens
    /\ \E cur \in {live.id, None} :
          /\ IF cur = live.id THEN Smooth ELSE Mishap
          /\ IF AlreadyOnRequested(cur, uid, args)
             THEN claim' = uid /\ UNCHANGED calls
             ELSE Begin(c, [NoCall EXCEPT !.kind = "swap", !.pc = "kill", !.uid = uid,
                      !.name = ids[uid], !.old = SaveAs(cur, uid), !.seen = cur])
    /\ UNCHANGED <<descriptor, live, running, disk, history>>

SaveCurrent(n) ==
    /\ "save" \in Happens /\ MayBegin(Ui)
    /\ Begin(Ui, [NoCall EXCEPT !.kind = "save", !.pc = "kill", !.old = n])
    /\ UNCHANGED <<descriptor, live, running, disk, history, mishaps>>

AddNew ==
    /\ "add" \in Happens /\ MayBegin(Ui)
    /\ Begin(Ui, [NoCall EXCEPT !.kind = "add", !.pc = "kill"])
    /\ UNCHANGED <<descriptor, live, running, disk, history, mishaps>>

(* The logout command clears the session of a running launcher.              *)
Logout(c) ==
    /\ "logout" \in Happens /\ MayBegin(c)
    /\ Begin(c, [NoCall EXCEPT !.kind = "logout", !.pc = "clear"])
    /\ UNCHANGED <<descriptor, live, running, disk, history, mishaps>>

ForgetAccount(uid) ==
    /\ "forget" \in Happens /\ MayBegin(Ui) /\ ids[uid] # None
    /\ Begin(Ui, [NoCall EXCEPT !.kind = "forget", !.pc = "write", !.of = uid,
                     !.old = ids[uid], !.ids = ids])
    /\ UNCHANGED <<descriptor, live, running, disk, history, mishaps>>

(* No other account is asked whether the name is its own.                    *)
RenameAccount(uid, n) ==
    /\ "rename" \in Happens /\ MayBegin(Ui) /\ ids[uid] \notin {None, n}
    /\ "taken" \notin Happens => \A a \in Accounts : ids[a] # n
    /\ Begin(Ui, [NoCall EXCEPT !.kind = "rename", !.pc = "write", !.of = uid, !.name = n,
                     !.old = ids[uid], !.ids = ids])
    /\ UNCHANGED <<descriptor, live, running, disk, history, mishaps>>

-----------------------------------------------------------------------------
(* Their steps.                                                              *)

Kill(c) ==
    /\ At(c, "kill")
    /\ \/ Smooth /\ running' = FALSE
          /\ Goto(c, IF calls[c].old # None THEN "save" ELSE "clear")
          /\ UNCHANGED <<live, disk, history, claim>>
       \/ Mishap /\ Fail(c)
    /\ UNCHANGED descriptor

(* Mutant: the id read before the kill decides whose name it is.             *)
AnyName(uid, n) == TRUE
(* validateAccountSaveName.                                                  *)
MaySaveAs(uid, n) == \A a \in Accounts \ {uid} : ids[a] # n

Kind(p) == descriptor.part[p]
(* A REGKEY platform: the launcher's id is a registry value.                 *)
IdFirst == Kind(Id) = "registry"

(* The session s with these of its parts only.                               *)
Only(s, kept) == [id |-> IF Id \in kept THEN s.id ELSE None,
                  files |-> [f \in Files |-> IF f \in kept THEN s.files[f] ELSE None]]
Held(s) == {f \in Files : s.files[f] # None} \cup IF s.id # None THEN {Id} ELSE {}

(* A save goes on without a part that is not there, with AllFilesRequired    *)
(* when the part is an empty field, value or pattern rather than no file.    *)
MayLack(p) == ~descriptor.required \/ Kind(p) # "path"
MayRefuse(p) == descriptor.required /\ Kind(p) # "glob"
(* The error of reading or copying a part that is there is dropped (of a     *)
(* path: of os.Stat; of a pattern: filepath.Glob reports none); the id of a  *)
(* REGKEY platform is restored from ids.json, whatever the save has.         *)
MayLose(p) == (~descriptor.required \/ Kind(p) = "glob") /\ ~(p = Id /\ IdFirst)

(* saveCurrentAfterKill up to CommitAccountSave: the id is read again, the   *)
(* copy is staged and then takes the place of the previous one, whether it   *)
(* is complete or not.                                                       *)
CommitSave(c) ==
    /\ At(c, "save")
    /\ LET uid == live.id  n == calls[c].old  missing == Parts \ Held(live) IN
          \/ /\ uid # None /\ MaySaveAs(uid, n) /\ \A p \in missing : MayLack(p)
             /\ \E lost \in SUBSET {p \in Held(live) : MayLose(p)} :
                   /\ IF lost = {} THEN Smooth ELSE Mishap
                   /\ dir' = [dir EXCEPT ![n] = Only(live, Parts \ lost)]
                   /\ calls' = [calls EXCEPT ![c].pc = "read", ![c].saved = TRUE, ![c].of = uid,
                                             ![c].torn = (lost # {})]
             /\ IF tainted
                THEN excused' = excused \cup {uid} /\ crossed' = crossed \cup {uid}
                ELSE UNCHANGED <<excused, crossed>>
             /\ UNCHANGED <<live, running, ids, latest, tainted, claim>>
          \/ /\ uid = None \/ ~MaySaveAs(uid, n) \/ \E p \in missing : MayRefuse(p)
             /\ Smooth /\ Fail(c)
          \/ Mishap /\ Fail(c)
    /\ UNCHANGED descriptor

ReadIds(c) ==
    /\ calls[c].pc \in {"read", "touch", "last"}
    /\ calls' = [calls EXCEPT ![c].ids = ids,
                    ![c].pc = CASE @ = "read" -> "write" [] @ = "touch" -> "touched"
                                [] OTHER -> "lasted"]
    /\ UNCHANGED <<descriptor, live, running, disk, history, claim, mishaps>>

(* What the call makes of the ids.json it has read.                          *)
Edited(call) ==
    [call.ids EXCEPT ![call.of] = CASE call.kind = "rename" -> call.name
                                    [] call.kind = "forget" -> None
                                    [] OTHER -> call.old]

WriteIds(c) ==
    /\ At(c, "write")
    /\ \/ /\ ids' = Edited(calls[c])
          /\ Goto(c, CASE calls[c].kind = "rename" -> "move"
                       [] calls[c].kind = "forget" -> "remove"
                       [] OTHER -> "touch")
          /\ crossed' = IF calls[c].kind \in {"swap", "save"} /\ ~tainted
                        THEN crossed \ {calls[c].of} ELSE crossed
          /\ Smooth /\ UNCHANGED <<live, running, dir, latest, excused, tainted, claim>>
       \/ Mishap /\ Fail(c)
    /\ UNCHANGED descriptor

(* touchLastUsed writes all of ids.json as it was read.  After a save its    *)
(* error ends the call; after a switch it is dropped.                        *)
WriteLastUsed(c) ==
    /\ calls[c].pc \in {"touched", "lasted"}
    /\ \/ /\ \/ ids' = calls[c].ids /\ Smooth
             \/ At(c, "lasted") /\ Mishap /\ UNCHANGED ids
          /\ Goto(c, IF At(c, "touched") /\ calls[c].kind = "swap" THEN "clear" ELSE "launch")
          /\ UNCHANGED <<live, running, dir, history, claim>>
       \/ At(c, "touched") /\ Mishap /\ Fail(c)
    /\ UNCHANGED descriptor

(* ClearCurrentLogin.  A file that cannot be removed is logged and left; a   *)
(* value that cannot be emptied ends the call.                               *)
(* The switch saw this account's session and its save, and must have kept it. *)
Promised(call) == call.kind = "swap" /\ call.seen = live.id /\ live.id \in Listed \ {call.uid}
ClearCurrentLogin(c) ==
    /\ At(c, "clear")
    /\ LET next == CASE calls[c].kind = "swap" ->
                         [calls[c] EXCEPT !.pc = "login", !.todo = Parts, !.torn = FALSE]
                     [] calls[c].kind = "add" -> [calls[c] EXCEPT !.pc = "launch"]
                     [] OTHER -> NoCall IN
       \/ Smooth /\ live' = SignedOut /\ calls' = [calls EXCEPT ![c] = next] /\ tainted' = FALSE
       \/ /\ Mishap /\ tainted' = TRUE
          /\ \E left \in SUBSET Parts \ {{}}, then \in {next, NoCall} :
                live' = Only(live, left) /\ calls' = [calls EXCEPT ![c] = then]
    /\ excused' = IF (calls[c].saved \/ Promised(calls[c])) /\ ~calls[c].torn THEN excused
                  ELSE excused \cup ({live.id} \ {None})
    /\ UNCHANGED <<descriptor, running, disk, latest, crossed, claim>>

(* Login, one part at a time in the order a Go map is walked.                *)
Turn(call, p) == p \in call.todo /\ (IdFirst /\ Id \in call.todo => p = Id)
(* Mutant: the name is written to the registry in place of the id.           *)
NameAsId(n) == {n}
(* The id comes from ids.json, by name, on a REGKEY platform.                *)
IdsOf(n) == IF IdFirst THEN {a \in Accounts : ids[a] = n}
            ELSE IF dir[n] = None THEN {} ELSE {dir[n].id} \ {None}
Present(n, p) == IF p = Id THEN IdsOf(n) # {} ELSE dir[n] # None /\ dir[n].files[p] # None

(* What is not in the save is skipped, but for a JSON field, which has to be *)
(* there on any platform; a pattern that matched nothing is there.           *)
MaySkip(n, p) == \/ Kind(p) = "registry" \/ (Kind(p) = "glob" /\ dir[n] # None)
                 \/ (Kind(p) # "json" /\ ~descriptor.required)
(* A field or value that was saved empty is written back empty.              *)
MayBeEmpty(n, p) == p # Id /\ dir[n] # None /\ Kind(p) \in {"json", "registry"}
(* What is in the save is left out when it cannot be read: reg.json or       *)
(* ids.json anywhere; a path (os.Stat) or a pattern's files (any error)      *)
(* without AllFilesRequired.                                                 *)
MayDrop(p) == Kind(p) = "registry" \/ (Kind(p) \in {"path", "glob"} /\ ~descriptor.required)

Put(n, p) == IF p = Id THEN \E a \in IdsOf(n) : live' = [live EXCEPT !.id = a]
             ELSE live' = [live EXCEPT !.files[p] = dir[n].files[p]]
Emptied(p) == IF p = Id THEN [live EXCEPT !.id = None] ELSE [live EXCEPT !.files[p] = None]
Done(c, done, left) ==
    calls' = [calls EXCEPT ![c].todo = @ \ done, ![c].torn = (@ \/ left)]

RestorePart(c) ==
    /\ At(c, "login")
    /\ \E p \in Parts :
          /\ Turn(calls[c], p)
          /\ LET n == calls[c].name IN
                \/ /\ Present(n, p) /\ Smooth /\ Done(c, {p}, FALSE)
                   /\ Put(n, p) /\ UNCHANGED tainted
                \/ /\ ~Present(n, p) /\ MaySkip(n, p)
                   /\ Smooth /\ Done(c, {p}, TRUE) /\ UNCHANGED <<live, tainted>>
                \/ /\ ~Present(n, p) /\ MayBeEmpty(n, p)
                   /\ Smooth /\ Done(c, {p}, FALSE) /\ live' = Emptied(p) /\ UNCHANGED tainted
                \/ /\ ~Present(n, p) /\ ~MaySkip(n, p)
                   /\ Smooth /\ Return(c) /\ tainted' = TRUE /\ UNCHANGED live
                \/ /\ Present(n, p) /\ Mishap /\ Return(c) /\ tainted' = TRUE
                   /\ live' \in IF Kind(p) \in {"path", "glob"} THEN {live, Emptied(p)} ELSE {live}
    /\ UNCHANGED <<descriptor, running, disk, latest, excused, crossed, claim>>

(* One cause may hit several parts; files copied in part are of no use.      *)
RestoreDrops(c) ==
    /\ At(c, "login")
    /\ \E lost \in SUBSET {p \in Parts : Turn(calls[c], p) /\ MayDrop(p)
                                           /\ Present(calls[c].name, p)} \ {{}} :
          /\ Done(c, lost, TRUE)
          /\ \E broken \in SUBSET {p \in lost : Kind(p) = "glob"} :
                live' = Only(live, Parts \ broken)
    /\ Mishap /\ tainted' = TRUE
    /\ UNCHANGED <<descriptor, running, disk, latest, excused, crossed, claim>>

(* A restore that left nothing out has overwritten all there was.            *)
Restored(c) ==
    /\ At(c, "login") /\ calls[c].todo = {} /\ Goto(c, "last")
    /\ tainted' = (calls[c].uid \in crossed \/ (tainted /\ calls[c].torn))
    /\ UNCHANGED <<descriptor, live, running, disk, latest, excused, crossed, claim, mishaps>>

(* AutoStart may be off, and a launch that fails is only a warning.          *)
Launch(c) ==
    /\ At(c, "launch") /\ Return(c) /\ running' \in {running, TRUE}
    /\ claim' = IF calls[c].kind = "swap" THEN calls[c].uid ELSE claim
    /\ UNCHANGED <<descriptor, live, disk, history, mishaps>>

(* ForgetAccount: the error of removing the save is dropped.                 *)
RemoveSave(c) ==
    /\ At(c, "remove") /\ Return(c)
    /\ \/ dir' = [dir EXCEPT ![calls[c].old] = None] /\ Smooth
       \/ Mishap /\ UNCHANGED dir
    /\ UNCHANGED <<descriptor, live, running, ids, history, claim>>

(* RenameAccount: os.Rename, its error dropped as well; it does not replace  *)
(* a directory that is there.                                                *)
MoveSave(c) ==
    /\ At(c, "move") /\ Return(c)
    /\ LET call == calls[c]
           Stays == /\ excused' = excused \cup {call.of} /\ crossed' = crossed \cup {call.of}
                    /\ UNCHANGED dir IN
       \/ /\ dir[call.old] # None /\ dir[call.name] = None
          /\ dir' = [dir EXCEPT ![call.name] = dir[call.old], ![call.old] = None]
          /\ Smooth /\ UNCHANGED <<excused, crossed>>
       \/ (dir[call.old] = None \/ dir[call.name] # None) /\ Smooth /\ Stays
       \/ dir[call.old] # None /\ Mishap /\ Stays
    /\ UNCHANGED <<descriptor, live, running, ids, latest, tainted, claim>>

(* The program ends in the middle of calls.                                  *)
Crash ==
    /\ ~AllIdle /\ Mishap /\ claim' = None
    /\ calls' = [c \in Callers |-> NoCall]
    /\ tainted' = (tainted \/ \E c \in Callers : At(c, "login"))
    /\ LET moved == {calls[c].of : c \in {d \in Callers : At(d, "move")}} IN
          excused' = excused \cup moved /\ crossed' = crossed \cup moved
    /\ UNCHANGED <<descriptor, live, running, disk, latest>>

CallStep(c) ==
    \/ Kill(c) \/ CommitSave(c) \/ ReadIds(c) \/ WriteIds(c) \/ WriteLastUsed(c)
    \/ ClearCurrentLogin(c) \/ RestorePart(c) \/ RestoreDrops(c) \/ Restored(c)
    \/ Launch(c) \/ RemoveSave(c) \/ MoveSave(c)

Next ==
    \/ \E a \in Accounts : SignIn(a) \/ ForgetAccount(a)
    \/ Rotate \/ SignOut \/ StartLauncher
    \/ \E c \in Callers, a \in Accounts, args \in BOOLEAN : SwapTo(c, a, args)
    \/ \E c \in Outsiders : Logout(c)
    \/ \E n \in Names : SaveCurrent(n)
    \/ AddNew
    \/ \E a \in Accounts, n \in Names : RenameAccount(a, n)
    \/ \E c \in Callers : CallStep(c)
    \/ Crash

Spec == Init /\ [][Next]_vars

-----------------------------------------------------------------------------
(* Properties.                                                               *)

TypeOK ==
    /\ descriptor \in Platforms /\ live \in Session /\ running \in BOOLEAN
    /\ dir \in [Names -> Session \cup {None}] /\ ids \in Index
    /\ calls \in [Callers -> Call] /\ latest \in [Accounts -> 0 .. MaxSessions]
    /\ excused \subseteq Accounts /\ crossed \subseteq Accounts /\ tainted \in BOOLEAN
    /\ claim \in Accounts \cup {None} /\ mishaps \in 0 .. MaxMishaps

Moving(a) == \E c \in Callers : At(c, "move") /\ calls[c].of = a

(* The newest session of a listed account is in the launcher or in its save, *)
(* whatever fails in a switch, save, rename or forget.  What can lose it is  *)
(* to clear a session that nobody saved, or whose save dropped the error of  *)
(* reading a part; to save what a failure left; and a rename whose directory *)
(* did not follow.                                                           *)
SessionsKept ==
    \A a \in Listed \ excused :
        Moving(a) \/ NewestOf(live, a) \/ NewestOf(dir[ids[a]], a)

(* The save an account's name leads to holds nothing of another account,     *)
(* although the name was looked up before the launcher was closed and the    *)
(* session is read after.                                                    *)
SaveIsOwn ==
    \A a \in Listed \ crossed :
        \/ Moving(a) \/ dir[ids[a]] = None
        \/ /\ dir[ids[a]].id \in {a, None}
           /\ \A f \in Files : dir[ids[a]].files[f] = None \/ dir[ids[a]].files[f][1] = a

(* A switch that reports success leaves one whole session of the account     *)
(* asked for: unless it dropped the error of restoring a part, what it read  *)
(* was left by a failure, or its save had lost parts by then.                *)
SwitchDelivers ==
    claim \notin {None} \cup excused \cup crossed /\ ~tainted => WholeOf(live, claim)
=============================================================================
