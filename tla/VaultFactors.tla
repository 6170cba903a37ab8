---------------------------- MODULE VaultFactors ----------------------------
(***************************************************************************)
(* The ways into the Steam Guard vault and the calls that manage them      *)
(* (src/internal/steamguard: factors_service.go, vault/factors.go,         *)
(* vault/crypto.go).                                                       *)
(*                                                                         *)
(* A way in is a slot of the vault's header: a password; a keyfile or a    *)
(* security key, with or without a password of its own; or a backup key.   *)
(* Every call holds Service.mu, except while the user answers a dialog or  *)
(* touches a security key.  What other calls do to the slots and to the    *)
(* lock meanwhile is what this module is about.                            *)
(*                                                                         *)
(* Cryptography is which password and which devices a slot asks for.       *)
(* Labels do not appear, and whether somebody was asked for a way in just  *)
(* before (managementVerified) is a choice.  A commit of the header is one *)
(* step that happens or does not, as GenerationStore shows.                *)
(***************************************************************************)
EXTENDS Naturals, FiniteSets

CONSTANTS
    Callers,       \* goroutines that run a call of the service
    Passwords,
    Devices,       \* keyfiles, security keys and backup keys
    None,
    MaxSlots       \* maxSlots of vault.go

ASSUME NoneIsNothing == None \notin Callers \cup Passwords \cup Devices
ASSUME RoomForOne == MaxSlots \in Nat \ {0}

Slot == [kind : {"password"}, pw : Passwords, dev : {None}]
          \cup [kind : {"keyfile", "securitykey"}, pw : Passwords \cup {None}, dev : Devices]
          \cup [kind : {"backup"}, pw : {None}, dev : Devices]
SlotOf(kind, pw, dev) == [kind |-> kind, pw |-> pw, dev |-> dev]

(* manage: a change of the ways in, or UnlockVaultForManagement alone.       *)
Ops == {"none", "manage", "change", "securitykey", "keyfile"}
(* touch, pair and prompt wait for the user without Service.mu, and then for *)
(* it; the others hold it.                                                   *)
Prompts == {"touch", "pair", "prompt"}
Stages == {"idle", "auth", "verify", "rekey", "body", "enrol"} \cup Prompts
(* pw, held: the credentials of the call; opening: they are to open a locked *)
(* vault; dev: what it enrols.  A new password shows where it is used.       *)
Call == [op : Ops, pc : Stages, pw : Passwords \cup {None}, held : SUBSET Devices,
         opening : BOOLEAN, dev : Devices \cup {None}]
NoCall == [op |-> "none", pc |-> "idle", pw |-> None, held |-> {}, opening |-> FALSE, dev |-> None]

VARIABLES
    slots,      \* the key slots of the header
    locked,     \* the vault has no key lease
    mu,         \* who holds Service.mu
    calls,      \* the calls in flight
    raced       \* history: a backup key went while an enrollment was at its prompt

vars == <<slots, locked, mu, calls, raced>>

Init ==
    /\ \E p \in Passwords : slots = {SlotOf("password", p, None)}
    /\ locked = TRUE /\ mu = None
    /\ calls = [c \in Callers |-> NoCall] /\ raced = FALSE

Holds(c, pc) == mu = c /\ calls[c].pc = pc
Becomes(c, call) == calls' = [calls EXCEPT ![c] = call]
Ends(c) == Becomes(c, NoCall) /\ mu' = None

(* promptWithoutServiceLock and evaluateSecurityKeyLocked give the mutex up. *)
(* Mutant: they keep it.                                                     *)
KeptMu(c) == c
ReleasedMu(c) == None

-----------------------------------------------------------------------------
(* Slots.                                                                    *)

OfKind(kind) == {s \in slots : s.kind = kind}
HasBackupKey == OfKind("backup") # {}
HasKeyfile == OfKind("keyfile") # {}
PasswordOpens == OfKind("password") # {}
Losable == OfKind("keyfile") \cup OfKind("securitykey")
Interactive == slots \ OfKind("backup")
SecurityKeys == {s.dev : s \in OfKind("securitykey")}
(* Identities are random, so which unused one is taken does not matter.      *)
FreshDevices == Devices \ ({s.dev : s \in slots} \cup {calls[c].dev : c \in Callers}
                           \cup UNION {calls[c].held : c \in Callers})
FreshDevice == CHOOSE d \in FreshDevices : TRUE

(* deriveSlotKey needs every factor of a slot; slotSatisfiable only asks if  *)
(* there is material for each.  A keyfile or a key is known by its identity: *)
(* another one counts as none.                                               *)
DeviceOffered(s, creds) == s.dev = None \/ s.dev \in creds.held
Offered(s, creds) == (s.pw = None \/ creds.pw # None) /\ DeviceOffered(s, creds)
Opens(s, creds) == s.pw \in {None, creds.pw} /\ DeviceOffered(s, creds)
OpensVault(creds) == \E s \in slots : Opens(s, creds)

(* summariseFactors: what may be taken away.                                 *)
Removable(s) ==
    /\ Cardinality(slots) > 1
    /\ s.kind # "backup" => Cardinality(Interactive) > 1
    /\ s.kind = "backup" => Losable = {}

(* validateSlots.  Mutant: a header is only validated when it is read.       *)
NotYetChecked(ss) == TRUE
Fit(ss) == Cardinality(ss) <= MaxSlots

(* AddSlot, on an open vault.  A header with too many slots is refused as    *)
(* damaged, and whatever finds damage drops the leases.                      *)
AddSlot(c, s, replaced) ==
    LET next == (slots \ replaced) \cup {s} IN
    /\ ~locked
    /\ slots' = IF Fit(next) THEN next ELSE slots
    /\ locked' = ~Fit(next)
    /\ raced' = (raced /\ ~(Fit(next) /\ s.kind = "backup"))
    /\ Ends(c)

-----------------------------------------------------------------------------
(* Authorisation: unlockedVaultWithLocked, UnlockVaultForManagement and the  *)
(* unlock of a password change.  Credentials open the vault or, if it is     *)
(* open already, are verified.                                               *)

Begin(c) ==
    /\ calls[c].pc = "idle" /\ mu = None
    /\ mu' = c
    /\ \E op \in {"manage", "change"} : Becomes(c, [NoCall EXCEPT !.op = op, !.pc = "auth"])
    /\ UNCHANGED <<slots, locked, raced>>

(* What the user types and picks.  Only a password change keeps it over a    *)
(* prompt; for the other calls it is chosen where it is looked at.           *)
With(call, pw, held) == [call EXCEPT !.pw = pw, !.held = @ \cup held]
Supplied(c) ==
    {With(calls[c], pw, held) :
        pw \in Passwords \cup {None},
        held \in SUBSET {s.dev : s \in OfKind("keyfile") \cup OfKind("backup")}}
Opening(c) == locked \/ calls[c].op = "change"
Kept(c, creds) == IF creds.op = "change" THEN creds ELSE calls[c]

Accepted(c, creds, opening) ==
    /\ OpensVault(creds)
    /\ locked' = (locked /\ ~opening)
    /\ Becomes(c, IF creds.op = "change" THEN [creds EXCEPT !.pc = "body"]
                  ELSE [NoCall EXCEPT !.op = "manage", !.pc = "body"])
    /\ UNCHANGED mu

(* evaluateSecurityKeyLocked: the key that will be touched is one of those   *)
(* enrolled now.  If none answers, a "touch" fails and a "pair" goes on.     *)
AskKey(c, call, pc) ==
    /\ \E answer \in {{k} : k \in SecurityKeys} \cup (IF pc = "pair" THEN {{}} ELSE {}) :
          Becomes(c, [call EXCEPT !.pc = pc, !.held = @ \cup answer, !.opening = Opening(c)])
    /\ mu' = ReleasedMu(c)

(* The management gate is open.                                              *)
PassGate(c) ==
    /\ Holds(c, "auth") /\ calls[c].op = "manage" /\ ~locked
    /\ Becomes(c, [calls[c] EXCEPT !.pc = "body"])
    /\ UNCHANGED <<slots, locked, mu, raced>>

(* A password change that has opened the vault asks for a key that some slot *)
(* pairs with a password.                                                    *)
Authenticate(c) ==
    /\ Holds(c, "auth")
    /\ \E creds \in Supplied(c) :
          LET pairs == creds.op = "change" /\ \E s \in OfKind("securitykey") : s.pw # None IN
          \/ ~pairs /\ Accepted(c, creds, Opening(c))
          \/ pairs /\ OpensVault(creds) /\ AskKey(c, creds, "pair") /\ locked' = FALSE
          \/ /\ ~OpensVault(creds) /\ SecurityKeys # {}
             /\ AskKey(c, Kept(c, creds), "touch") /\ UNCHANGED locked
    /\ UNCHANGED <<slots, raced>>

AuthenticateWithKey(c) ==
    /\ Holds(c, "verify")
    /\ \E creds \in IF calls[c].op = "change" THEN {calls[c]} ELSE Supplied(c) :
          Accepted(c, creds, calls[c].opening)
    /\ UNCHANGED <<slots, raced>>

(* reopenedVaultLocked, after the key that is paired with the password.      *)
ReopenToRekey(c) ==
    /\ Holds(c, "rekey") /\ ~locked
    /\ Becomes(c, [calls[c] EXCEPT !.pc = "body"])
    /\ UNCHANGED <<slots, locked, mu, raced>>

(* The user answers a dialog or a key, if ever, and the call goes on when it *)
(* has the mutex again.                                                      *)
After(pc) == CASE pc = "touch" -> "verify" [] pc = "pair" -> "rekey" [] OTHER -> "enrol"
Answer(c) ==
    /\ calls[c].pc \in Prompts /\ mu \in {None, c}
    /\ mu' = c /\ Becomes(c, [calls[c] EXCEPT !.pc = After(@)])
    /\ UNCHANGED <<slots, locked, raced>>

(* Refusals, cancelled prompts and failed commits leave everything as it is. *)
Fail(c) ==
    /\ mu = c /\ calls[c].pc \notin Prompts
    /\ Ends(c)
    /\ UNCHANGED <<slots, locked, raced>>

-----------------------------------------------------------------------------
(* The calls themselves.                                                     *)

Manages(c) == Holds(c, "body") /\ calls[c].op = "manage"
Enrols(c, op) == Holds(c, "enrol") /\ calls[c].op = op
Prompt(c, op) ==
    /\ FreshDevices # {}
    /\ Becomes(c, [NoCall EXCEPT !.op = op, !.pc = "prompt", !.dev = FreshDevice])
    /\ mu' = ReleasedMu(c)
    /\ UNCHANGED <<slots, locked, raced>>
EnrolDevice(c) ==
    \E pw \in Passwords \cup {None} : AddSlot(c, SlotOf(calls[c].op, pw, calls[c].dev), {})

CreateVaultBackupKey(c) ==
    /\ Manages(c) /\ FreshDevices # {}
    /\ AddSlot(c, SlotOf("backup", None, FreshDevice), OfKind("backup"))

EnrollVaultSecurityKey(c) == Manages(c) /\ HasBackupKey /\ Prompt(c, "securitykey")
SecurityKeyEnrolled(c) == Enrols(c, "securitykey") /\ EnrolDevice(c)

EnrollVaultKeyfile(c) == Manages(c) /\ HasBackupKey /\ ~HasKeyfile /\ Prompt(c, "keyfile")
(* Mutant: what was checked before the dialog is not checked after it.       *)
KeyfileEnrolledUnchecked(c) == Enrols(c, "keyfile") /\ EnrolDevice(c)
KeyfileEnrolled(c) == Enrols(c, "keyfile") /\ ~HasKeyfile /\ EnrolDevice(c)

EnrollVaultPassword(c) ==
    /\ Manages(c) /\ ~PasswordOpens
    /\ \E new \in Passwords : AddSlot(c, SlotOf("password", new, None), {})

BeingEnrolled == {c \in Callers : calls[c].op \in {"securitykey", "keyfile"}}
RemoveVaultFactor(c) ==
    /\ Manages(c) /\ ~locked
    /\ \E s \in slots :
          /\ Removable(s)
          /\ slots' = slots \ {s}
          /\ raced' = (raced \/ (s.kind = "backup" /\ BeingEnrolled # {}))
    /\ Ends(c)
    /\ UNCHANGED locked

(* reissueSlots: slots that open get the new password, others stay.  It is   *)
(* refused if one that uses a password was offered too little to tell        *)
(* whether it is this one, or if no slot proved the password.                *)
(* Mutant: a slot whose device is missing has a password of its own.         *)
PasswordOffered(creds) == \A s \in slots : s.pw # None => creds.pw # None
NothingSkipped(creds) == \A s \in slots : s.pw # None => Offered(s, creds)
ChangePassword(c) ==
    LET creds == calls[c]
        reissued == {s \in slots : Opens(s, creds)}
    IN
    /\ Holds(c, "body") /\ creds.op = "change"
    /\ NothingSkipped(creds)
    /\ \E s \in reissued : s.pw # None
    /\ \E new \in Passwords :
          slots' = (slots \ reissued)
                     \cup {[s EXCEPT !.pw = IF @ = None THEN None ELSE new] : s \in reissued}
    /\ locked' = TRUE
    /\ Ends(c)
    /\ UNCHANGED raced

-----------------------------------------------------------------------------
(* The rest of the program.  LockNow and the app lock take Service.mu.       *)

LockNow == mu = None /\ ~locked /\ locked' = TRUE /\ UNCHANGED <<slots, mu, calls, raced>>
UnlockVault == mu = None /\ locked /\ locked' = FALSE /\ UNCHANGED <<slots, mu, calls, raced>>
LeaseEnds == ~locked /\ locked' = TRUE /\ UNCHANGED <<slots, mu, calls, raced>>

(* What a call does while it holds the mutex.                                *)
Work(c) ==
    \/ Fail(c) \/ PassGate(c) \/ Authenticate(c) \/ AuthenticateWithKey(c) \/ ReopenToRekey(c)
    \/ CreateVaultBackupKey(c) \/ EnrollVaultSecurityKey(c) \/ SecurityKeyEnrolled(c)
    \/ EnrollVaultKeyfile(c) \/ KeyfileEnrolled(c) \/ EnrollVaultPassword(c)
    \/ RemoveVaultFactor(c) \/ ChangePassword(c)

Next ==
    \/ \E c \in Callers : Begin(c) \/ Work(c) \/ Answer(c)
    \/ LockNow \/ UnlockVault \/ LeaseEnds

(* The goroutine that holds the mutex runs; nothing is assumed of the user.  *)
Fairness == WF_vars(\E c \in Callers : Work(c))

Spec == Init /\ [][Next]_vars /\ Fairness
-----------------------------------------------------------------------------
(* Types; a header that validateSlots refuses could not be read back, and no *)
(* two ways in share a device.                                               *)
TypeOK ==
    /\ slots \subseteq Slot /\ Cardinality(slots) \in 1 .. MaxSlots
    /\ \A s, t \in slots : s.dev = t.dev => s = t
    /\ locked \in BOOLEAN
    /\ mu \in Callers \cup {None} /\ calls \in [Callers -> Call]
    /\ raced \in BOOLEAN

OneKeyfile == \A s, t \in OfKind("keyfile") : s = t
UserCanOpen == Interactive # {}
LossIsCovered == Losable # {} => HasBackupKey \/ raced
(* Whatever calls overlap at their prompts: removing the keyfile removes     *)
(* every keyfile, the user is not left with a code on paper, and what can be *)
(* lost is backed up, unless the backup key was removed during an enrollment *)
(* (the rules of EnrollVaultKeyfile, EnrollVaultSecurityKey and              *)
(* RemoveVaultFactor).                                                       *)
WaysInAreSound == OneKeyfile /\ UserCanOpen /\ LossIsCovered

(* After a password change the old password is part of no way in, and the    *)
(* ways in that never used it are as before, although slots may come and go  *)
(* while a key is touched (reissueSlots and ChangePasswordWith).             *)
OldPasswordRetired ==
    [][\A c \in Callers : LET old == calls[c].pw IN
          calls[c].op = "change" /\ mu = c /\ slots' # slots =>
             /\ \A s \in slots' : s.pw # old
             /\ \A s \in slots : s.pw # old => s \in slots']_vars

(* A prompt that nobody answers does not keep Service.mu from Lock Now, the  *)
(* app lock and every other call (promptWithoutServiceLock,                  *)
(* evaluateSecurityKeyLocked).                                               *)
LockNotKeptWaiting == []<>(mu = None)
=============================================================================
