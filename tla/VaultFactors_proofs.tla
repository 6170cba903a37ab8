------------------------ MODULE VaultFactors_proofs ------------------------
(* Theorems about VaultFactors, for every number of callers, every set of    *)
(* passwords and devices and every slot limit: types, that the ways into the *)
(* vault stay sound, and that a password change retires the old password.    *)
EXTENDS VaultFactors, FiniteSetTheorems, FunctionTheorems, TLAPS

USE NoneIsNothing, RoomForOne

(* A device that a call enrols is enrolled by nobody else, and no way in     *)
(* already: only then do two ways in never share one.                        *)
Named(call) == call.op \in {"securitykey", "keyfile"} <=> call.dev # None
EnrolFits ==
    \A c \in Callers :
        /\ Named(calls[c])
        /\ calls[c].dev # None =>
              /\ \A s \in slots : s.dev # calls[c].dev
              /\ \A d \in Callers \ {c} : calls[d].dev # calls[c].dev

(* While a device is being enrolled there is a backup key, or it went while  *)
(* its user was at the prompt.                                               *)
EnrolCovered == BeingEnrolled # {} => HasBackupKey \/ raced

FactorsInv == TypeOK /\ IsFiniteSet(slots) /\ EnrolFits /\ EnrolCovered /\ WaysInAreSound
-----------------------------------------------------------------------------
(* Slots and calls, said by their parts.                                     *)
AsSlot(s) ==
    /\ s \in [kind : {"password", "keyfile", "securitykey", "backup"}, pw : Passwords \cup {None}, dev : Devices \cup {None}]
    /\ s.kind = "password" => s.pw \in Passwords /\ s.dev = None
    /\ s.kind # "password" => s.dev \in Devices
    /\ s.kind = "backup" => s.pw = None

LEMMA SlotsByPart == \A s : s \in Slot <=> AsSlot(s)
<1> SUFFICES ASSUME NEW s
             PROVE  s \in Slot <=> AsSlot(s)
  OBVIOUS
<1>1. s \in [kind : {"password"}, pw : Passwords, dev : {None}] => AsSlot(s)
  BY DEF AsSlot
<1>2. s \in [kind : {"keyfile", "securitykey"}, pw : Passwords \cup {None}, dev : Devices] => AsSlot(s)
  BY DEF AsSlot
<1>3. s \in [kind : {"backup"}, pw : {None}, dev : Devices] => AsSlot(s)
  BY DEF AsSlot
<1>4. AsSlot(s) => s \in Slot
  BY DEF AsSlot, Slot
<1> QED
  BY <1>1, <1>2, <1>3, <1>4 DEF Slot

LEMMA NoCallIsOne == NoCall \in Call
  BY DEF NoCall, Call, Ops, Stages, Prompts

LEMMA FreshDeviceIsFresh == FreshDevices # {} => FreshDevice \in FreshDevices
  BY DEF FreshDevice

LEMMA FactorsInitial == Init => FactorsInv
<1> SUFFICES ASSUME Init
             PROVE  FactorsInv
  OBVIOUS
<1>1. PICK p \in Passwords : slots = {SlotOf("password", p, None)}
  BY DEF Init
<1>2. SlotOf("password", p, None) \in Slot /\ SlotOf("password", p, None).kind = "password"
  BY DEF SlotOf, Slot
<1>3. IsFiniteSet(slots) /\ Cardinality(slots) = 1 /\ slots \subseteq Slot
  BY <1>1, <1>2, FS_Singleton
<1>4. TypeOK
  <2>1. calls \in [Callers -> Call]
    BY NoCallIsOne DEF Init
  <2>2. \A s, t \in slots : s.dev = t.dev => s = t
    BY <1>1
  <2>3. Cardinality(slots) \in 1 .. MaxSlots
    BY <1>3
  <2> QED
    BY <1>3, <2>1, <2>2, <2>3 DEF Init, TypeOK
<1>5. EnrolFits /\ EnrolCovered
  BY DEF Init, EnrolFits, EnrolCovered, BeingEnrolled, NoCall, Named
<1>6. WaysInAreSound
  BY <1>1, <1>2 DEF WaysInAreSound, OneKeyfile, UserCanOpen, LossIsCovered, Interactive, Losable, OfKind
<1> QED
  BY <1>3, <1>4, <1>5, <1>6 DEF FactorsInv

-----------------------------------------------------------------------------
(* What a step does to the calls.                                            *)

(* A way in that is new has no device, a device nobody had, or the one the   *)
(* call has just enrolled.                                                   *)
NewWays(c, k) ==
    \A s \in slots' : \/ \E t \in slots : t.dev = s.dev
                      \/ k.dev = None /\ s.dev \in {None, calls[c].dev} \cup FreshDevices

LEMMA CallsStay ==
  ASSUME TypeOK, EnrolFits, NEW c \in Callers, NEW k \in Call, Becomes(c, k),
         k.dev \in {None, calls[c].dev} \cup FreshDevices,
         Named(k), NewWays(c, k)
  PROVE  calls' \in [Callers -> Call] /\ EnrolFits'
<1>1. calls' \in [Callers -> Call] /\ calls'[c] = k /\ \A d \in Callers \ {c} : calls'[d] = calls[d]
  BY DEF TypeOK, Becomes
<1>2. \A x \in FreshDevices : x # None /\ (\A s \in slots : s.dev # x) /\ \A d \in Callers : calls[d].dev # x
  BY DEF FreshDevices
<1>3. \A d \in Callers : Named(calls'[d])
  BY <1>1 DEF EnrolFits
<1>4. \A d, e \in Callers : calls'[d].dev # None /\ d # e => calls'[d].dev # calls'[e].dev
  BY <1>1, <1>2 DEF EnrolFits
<1>5. ASSUME NEW d \in Callers, calls'[d].dev # None, NEW s \in slots'
      PROVE  s.dev # calls'[d].dev
  <2>1. CASE \E t \in slots : t.dev = s.dev
    BY <1>1, <1>2, <1>5, <2>1 DEF EnrolFits
  <2>2. CASE k.dev = None /\ s.dev \in {None, calls[c].dev} \cup FreshDevices
    BY <1>1, <1>2, <1>5, <2>2 DEF EnrolFits
  <2> QED
    BY <2>1, <2>2 DEF NewWays
<1> QED
  BY <1>1, <1>3, <1>4, <1>5 DEF EnrolFits

(* A step that leaves the ways in alone.                                     *)
LEMMA CallMoves ==
  ASSUME FactorsInv, NEW c \in Callers, NEW k \in Call, Becomes(c, k),
         k.dev \in {None, calls[c].dev} \cup FreshDevices,
         Named(k),
         k.dev \in {None, calls[c].dev} \/ HasBackupKey,
         UNCHANGED <<slots, raced>>, locked' \in BOOLEAN, mu' \in Callers \cup {None}
  PROVE  FactorsInv'
<1>1. calls' \in [Callers -> Call] /\ EnrolFits'
  <2>1. NewWays(c, k)
    BY DEF NewWays
  <2>2. TypeOK /\ EnrolFits
    BY DEF FactorsInv
  <2> QED
    BY <2>1, <2>2, CallsStay
<1>2. TypeOK'
  BY <1>1 DEF FactorsInv, TypeOK
<1>3. EnrolCovered'
  <2>1. calls'[c] = k /\ \A d \in Callers \ {c} : calls'[d] = calls[d]
    BY DEF FactorsInv, TypeOK, Becomes
  <2> QED
    BY <2>1 DEF FactorsInv, EnrolCovered, BeingEnrolled, HasBackupKey, OfKind, EnrolFits, Named
<1>4. WaysInAreSound'
  BY DEF FactorsInv, WaysInAreSound, OneKeyfile, UserCanOpen, LossIsCovered, Interactive, Losable, HasBackupKey, OfKind
<1> QED
  BY <1>1, <1>2, <1>3, <1>4 DEF FactorsInv

(* Credentials are those of a call.                                          *)
LEMMA SuppliedSays ==
  ASSUME TypeOK, NEW c \in Callers, NEW creds \in Supplied(c)
  PROVE  creds \in Call /\ creds.op = calls[c].op /\ creds.dev = calls[c].dev
<1>1. PICK pw \in Passwords \cup {None}, held \in SUBSET {s.dev : s \in OfKind("keyfile") \cup OfKind("backup")} :
          creds = With(calls[c], pw, held)
  BY DEF Supplied
<1>2. held \subseteq Devices
  BY <1>1, SlotsByPart DEF OfKind, TypeOK, AsSlot
<1>3. calls[c] \in Call
  BY DEF TypeOK
<1> QED
  BY <1>1, <1>2, <1>3 DEF Call, With

LEMMA AcceptedSays ==
  ASSUME FactorsInv, NEW c \in Callers, NEW creds \in Call, creds.op = calls[c].op, creds.dev = calls[c].dev,
         NEW opening, Accepted(c, creds, opening), UNCHANGED <<slots, raced>>
  PROVE  FactorsInv'
<1> DEFINE k == IF creds.op = "change" THEN [creds EXCEPT !.pc = "body"]
                ELSE [NoCall EXCEPT !.op = "manage", !.pc = "body"]
<1>1. k \in Call /\ k.dev \in {None, calls[c].dev} /\ Named(k)
  <2>1. CASE creds.op = "change"
    BY <2>1 DEF Call, Stages, FactorsInv, EnrolFits, Named
  <2>2. CASE creds.op # "change"
    BY <2>2, NoCallIsOne DEF NoCall, Call, Stages, Ops, Named
  <2> QED
    BY <2>1, <2>2
<1>2. Becomes(c, k) /\ locked' \in BOOLEAN /\ mu' \in Callers \cup {None}
  BY DEF Accepted, FactorsInv, TypeOK
<1> HIDE DEF k
<1> QED
  BY <1>1, <1>2, CallMoves

LEMMA AskKeySays ==
  ASSUME FactorsInv, NEW c \in Callers, NEW call \in Call, call.op = calls[c].op, call.dev = calls[c].dev,
         NEW pc \in {"touch", "pair"}, AskKey(c, call, pc), UNCHANGED <<slots, raced>>, locked' \in BOOLEAN
  PROVE  FactorsInv'
<1>1. SecurityKeys \subseteq Devices
  BY SlotsByPart DEF SecurityKeys, OfKind, FactorsInv, TypeOK, AsSlot
<1>2. PICK answer \in SUBSET Devices :
          Becomes(c, [call EXCEPT !.pc = pc, !.held = @ \cup answer, !.opening = Opening(c)])
  BY <1>1 DEF AskKey
<1> DEFINE k == [call EXCEPT !.pc = pc, !.held = @ \cup answer, !.opening = Opening(c)]
<1>3. Opening(c) \in BOOLEAN
  BY DEF Opening, FactorsInv, TypeOK
<1>4. k \in Call /\ k.dev = calls[c].dev /\ k.op = calls[c].op
  BY <1>3 DEF Call, Stages, Prompts
<1>5. Named(k)
  BY <1>4 DEF FactorsInv, EnrolFits, Named
<1>6. mu' \in Callers \cup {None} /\ Becomes(c, k)
  BY <1>2 DEF AskKey, ReleasedMu
<1> HIDE DEF k
<1> QED
  BY <1>4, <1>5, <1>6, CallMoves

LEMMA PromptSays ==
  ASSUME FactorsInv, NEW c \in Callers, NEW op \in {"securitykey", "keyfile"}, HasBackupKey, Prompt(c, op)
  PROVE  FactorsInv'
<1> DEFINE k == [NoCall EXCEPT !.op = op, !.pc = "prompt", !.dev = FreshDevice]
<1>1. FreshDevice \in FreshDevices /\ FreshDevice \in Devices
  BY FreshDeviceIsFresh DEF Prompt, FreshDevices
<1>2. k \in Call /\ k.dev = FreshDevice /\ Named(k)
  BY <1>1, NoCallIsOne DEF NoCall, Call, Stages, Prompts, Ops, Named
<1>3. mu' \in Callers \cup {None} /\ Becomes(c, k) /\ UNCHANGED <<slots, locked, raced>> /\ locked' \in BOOLEAN
  BY DEF Prompt, ReleasedMu, FactorsInv, TypeOK
<1> HIDE DEF k
<1> QED
  BY <1>1, <1>2, <1>3, CallMoves

(* What a call does while it is on its way.                                  *)
LEMMA OnItsWay ==
  ASSUME FactorsInv, NEW c \in Callers,
         \/ Begin(c) \/ Fail(c) \/ PassGate(c) \/ Authenticate(c) \/ AuthenticateWithKey(c)
         \/ ReopenToRekey(c) \/ EnrollVaultSecurityKey(c) \/ EnrollVaultKeyfile(c) \/ Answer(c)
  PROVE  FactorsInv'
<1>1. calls[c] \in Call /\ TypeOK /\ Named(calls[c])
  BY DEF FactorsInv, TypeOK, EnrolFits
<1>2. ASSUME NEW pc \in Stages, Becomes(c, [calls[c] EXCEPT !.pc = pc]), UNCHANGED <<slots, locked, raced>>,
             mu' \in Callers \cup {None}
      PROVE  FactorsInv'
  <2> DEFINE k == [calls[c] EXCEPT !.pc = pc]
  <2>1. k \in Call /\ k.dev = calls[c].dev /\ Named(k)
    BY <1>1 DEF Call, Named
  <2>2. locked' \in BOOLEAN
    BY <1>1, <1>2 DEF TypeOK
  <2> HIDE DEF k
  <2> QED
    BY <1>1, <1>2, <2>1, <2>2, CallMoves DEF k
<1>3. CASE Begin(c)
  <2>1. PICK op \in {"manage", "change"} : Becomes(c, [NoCall EXCEPT !.op = op, !.pc = "auth"])
    BY <1>3 DEF Begin
  <2> DEFINE k == [NoCall EXCEPT !.op = op, !.pc = "auth"]
  <2>2. k \in Call /\ k.dev = None /\ Named(k)
    BY NoCallIsOne DEF NoCall, Call, Ops, Stages, Named
  <2>3. UNCHANGED <<slots, raced>> /\ locked' \in BOOLEAN /\ mu' \in Callers \cup {None} /\ Becomes(c, k)
    BY <1>1, <1>3, <2>1 DEF Begin, TypeOK
  <2> HIDE DEF k
  <2> QED
    BY <2>2, <2>3, CallMoves
<1>4. CASE Fail(c)
  <2>1. NoCall.dev = None /\ Named(NoCall)
    BY DEF NoCall, Named
  <2>2. UNCHANGED <<slots, raced>> /\ locked' \in BOOLEAN /\ mu' \in Callers \cup {None} /\ Becomes(c, NoCall)
    BY <1>1, <1>4 DEF Fail, Ends, TypeOK
  <2> QED
    BY <2>1, <2>2, NoCallIsOne, CallMoves
<1>5. CASE PassGate(c) \/ ReopenToRekey(c)
  BY <1>1, <1>2, <1>5 DEF PassGate, ReopenToRekey, Stages, TypeOK
<1>6. CASE Answer(c)
  <2>1. After(calls[c].pc) \in Stages
    BY DEF After, Stages
  <2>2. Becomes(c, [calls[c] EXCEPT !.pc = After(calls[c].pc)])
    BY <1>6 DEF Answer
  <2> QED
    BY <1>2, <1>6, <2>1, <2>2 DEF Answer
<1>7. CASE Authenticate(c)
  <2>1. PICK creds \in Supplied(c) :
            \/ Accepted(c, creds, Opening(c))
            \/ AskKey(c, creds, "pair") /\ locked' = FALSE
            \/ AskKey(c, Kept(c, creds), "touch") /\ UNCHANGED locked
    BY <1>7 DEF Authenticate
  <2>2. UNCHANGED <<slots, raced>> /\ (locked' \in BOOLEAN \/ Accepted(c, creds, Opening(c)))
    BY <1>1, <1>7, <2>1 DEF Authenticate, TypeOK
  <2>3. creds \in Call /\ creds.op = calls[c].op /\ creds.dev = calls[c].dev
    BY <1>1, SuppliedSays
  <2>4. Kept(c, creds) \in {creds, calls[c]}
    BY DEF Kept
  <2> QED
    BY <1>1, <2>1, <2>2, <2>3, <2>4, AcceptedSays, AskKeySays
<1>8. CASE AuthenticateWithKey(c)
  <2>1. PICK creds \in {calls[c]} \cup Supplied(c) : Accepted(c, creds, calls[c].opening)
    BY <1>8 DEF AuthenticateWithKey
  <2>2. creds \in Call /\ creds.op = calls[c].op /\ creds.dev = calls[c].dev
    BY <1>1, SuppliedSays
  <2> QED
    BY <1>8, <2>1, <2>2, AcceptedSays DEF AuthenticateWithKey
<1>9. CASE EnrollVaultSecurityKey(c) \/ EnrollVaultKeyfile(c)
  BY <1>9, PromptSays DEF EnrollVaultSecurityKey, EnrollVaultKeyfile
<1> QED
  BY <1>3, <1>4, <1>5, <1>6, <1>7, <1>8, <1>9

-----------------------------------------------------------------------------
(* What a step does to the ways in.                                          *)

(* The call that changed them is over.                                       *)
LEMMA CallOver ==
  ASSUME FactorsInv, NEW c \in Callers, Becomes(c, NoCall), NewWays(c, NoCall)
  PROVE  /\ calls' \in [Callers -> Call] /\ EnrolFits'
         /\ (BeingEnrolled)' \subseteq BeingEnrolled
<1>1. NoCall.dev = None /\ Named(NoCall)
  BY DEF NoCall, Named
<1>2. TypeOK /\ EnrolFits
  BY DEF FactorsInv
<1>3. calls'[c] = NoCall /\ \A d \in Callers \ {c} : calls'[d] = calls[d]
  BY <1>2 DEF TypeOK, Becomes
<1>4. (BeingEnrolled)' \subseteq BeingEnrolled
  BY <1>3 DEF BeingEnrolled, NoCall
<1> QED
  BY <1>1, <1>2, <1>4, NoCallIsOne, CallsStay

(* A way in that is added shares its device with none, and takes the place   *)
(* of nothing but another backup key.                                        *)
LEMMA SlotAdded ==
  ASSUME FactorsInv, NEW c \in Callers, NEW s \in Slot, NEW replaced \in SUBSET slots,
         AddSlot(c, s, replaced),
         s.dev \in {None, calls[c].dev} \cup FreshDevices,
         \A t \in slots : t.dev # s.dev,
         replaced = {} \/ (s.kind = "backup" /\ replaced = OfKind("backup")),
         s.kind = "keyfile" => ~HasKeyfile,
         s.kind \in {"keyfile", "securitykey"} => BeingEnrolled # {}
  PROVE  FactorsInv'
<1> DEFINE next == (slots \ replaced) \cup {s}
<1>1. TypeOK /\ EnrolFits /\ EnrolCovered /\ WaysInAreSound /\ IsFiniteSet(slots)
  BY DEF FactorsInv
<1>2. Becomes(c, NoCall) /\ mu' = None /\ locked' \in BOOLEAN
  BY DEF AddSlot, Ends, Fit
<1>3. CASE ~Fit(next)
  <2>1. UNCHANGED <<slots, raced>>
    BY <1>1, <1>3 DEF AddSlot, TypeOK
  <2>2. NoCall.dev = None /\ Named(NoCall)
    BY DEF NoCall, Named
  <2>3. mu' \in Callers \cup {None}
    BY <1>2
  <2> QED
    BY <1>2, <2>1, <2>2, <2>3, NoCallIsOne, CallMoves
<1>4. CASE Fit(next)
  <2>1. slots' = next /\ raced' = (raced /\ s.kind # "backup")
    BY <1>4 DEF AddSlot
  <2>2. IsFiniteSet(slots') /\ Cardinality(slots') \in 1 .. MaxSlots
    <3>1. IsFiniteSet(slots \ replaced)
      BY <1>1, FS_Subset
    <3>2. IsFiniteSet(next)
      BY <3>1, FS_AddElement
    <3>3. Cardinality(next) \in Nat /\ Cardinality(next) # 0
      BY <3>2, FS_CardinalityType, FS_EmptySet
    <3> QED
      BY <1>4, <2>1, <3>2, <3>3 DEF Fit
  <2>3. \A x, y \in slots' : x.dev = y.dev => x = y
    BY <1>1, <2>1 DEF TypeOK
  <2>4. NewWays(c, NoCall)
    BY <2>1 DEF NewWays, NoCall
  <2>5. calls' \in [Callers -> Call] /\ EnrolFits' /\ (BeingEnrolled)' \subseteq BeingEnrolled
    BY <1>2, <2>4, CallOver
  <2>6. TypeOK'
    BY <1>1, <1>2, <2>1, <2>2, <2>3, <2>5 DEF TypeOK
  <2>7. s.kind # "backup" => UNCHANGED raced /\ slots' = slots \cup {s}
    BY <1>1, <2>1 DEF TypeOK
  <2>8. s.kind = "backup" => HasBackupKey'
    BY <2>1 DEF HasBackupKey, OfKind
  <2>9. HasBackupKey \/ raced => HasBackupKey' \/ raced'
    BY <2>7, <2>8 DEF HasBackupKey, OfKind
  <2>10. EnrolCovered'
    BY <1>1, <2>5, <2>9 DEF EnrolCovered
  <2>11. OneKeyfile'
    BY <1>1, <2>1 DEF WaysInAreSound, OneKeyfile, HasKeyfile, OfKind
  <2>12. UserCanOpen'
    <3>1. replaced \subseteq OfKind("backup")
      OBVIOUS
    <3>2. \A x \in slots : x.kind # "backup" => x \in slots'
      BY <2>1, <3>1 DEF OfKind
    <3> QED
      BY <1>1, <3>2 DEF WaysInAreSound, UserCanOpen, Interactive, OfKind
  <2>13. LossIsCovered'
    <3>1. CASE s.kind = "backup"
      BY <2>8, <3>1 DEF LossIsCovered
    <3>2. CASE s.kind \in {"keyfile", "securitykey"}
      BY <1>1, <2>9, <3>2 DEF LossIsCovered, EnrolCovered
    <3>3. CASE s.kind = "password"
      BY <1>1, <2>7, <2>9, <3>3 DEF WaysInAreSound, LossIsCovered, Losable, OfKind
    <3>4. s.kind \in {"password", "keyfile", "securitykey", "backup"}
      BY SlotsByPart DEF AsSlot
    <3> QED
      BY <3>1, <3>2, <3>3, <3>4
  <2> QED
    BY <2>2, <2>5, <2>6, <2>10, <2>11, <2>12, <2>13 DEF FactorsInv, WaysInAreSound
<1> QED
  BY <1>3, <1>4

LEMMA DeviceEnrolled ==
  ASSUME FactorsInv, NEW c \in Callers, NEW op \in {"securitykey", "keyfile"},
         Enrols(c, op), op = "keyfile" => ~HasKeyfile, EnrolDevice(c)
  PROVE  FactorsInv'
<1>1. TypeOK /\ Named(calls[c]) /\ calls[c].op = op /\ \A t \in slots : calls[c].dev # None => t.dev # calls[c].dev
  BY DEF FactorsInv, EnrolFits, Enrols
<1>2. calls[c].dev # None /\ calls[c].dev \in Devices
  BY <1>1 DEF Named, TypeOK, Call
<1>3. PICK pw \in Passwords \cup {None} : AddSlot(c, SlotOf(calls[c].op, pw, calls[c].dev), {})
  BY DEF EnrolDevice
<1> DEFINE s == SlotOf(calls[c].op, pw, calls[c].dev)
<1>4. s \in Slot /\ s.kind = op /\ s.dev = calls[c].dev
  BY <1>1, <1>2 DEF SlotOf, Slot
<1>5. BeingEnrolled # {}
  BY <1>1 DEF BeingEnrolled
<1>6. AddSlot(c, s, {})
  BY <1>3
<1> HIDE DEF s
<1> QED
  BY <1>1, <1>2, <1>4, <1>5, <1>6, SlotAdded

LEMMA WayInCreated ==
  ASSUME FactorsInv, NEW c \in Callers, CreateVaultBackupKey(c) \/ EnrollVaultPassword(c)
  PROVE  FactorsInv'
<1>1. CASE CreateVaultBackupKey(c)
  <2> DEFINE s == SlotOf("backup", None, FreshDevice)
  <2>1. FreshDevice \in FreshDevices /\ FreshDevice \in Devices /\ \A t \in slots : t.dev # FreshDevice
    BY <1>1, FreshDeviceIsFresh DEF CreateVaultBackupKey, FreshDevices
  <2>2. s \in Slot /\ s.kind = "backup" /\ s.dev = FreshDevice
    BY <2>1 DEF SlotOf, Slot
  <2>3. AddSlot(c, s, OfKind("backup")) /\ OfKind("backup") \in SUBSET slots
    BY <1>1 DEF CreateVaultBackupKey, OfKind
  <2> HIDE DEF s
  <2> QED
    BY <2>1, <2>2, <2>3, SlotAdded
<1>2. CASE EnrollVaultPassword(c)
  <2>1. PICK new \in Passwords : AddSlot(c, SlotOf("password", new, None), {})
    BY <1>2 DEF EnrollVaultPassword
  <2> DEFINE s == SlotOf("password", new, None)
  <2>2. s \in Slot /\ s.kind = "password" /\ s.dev = None
    BY DEF SlotOf, Slot
  <2>3. \A t \in slots : t.dev # None
    BY <1>2, SlotsByPart DEF EnrollVaultPassword, PasswordOpens, OfKind, FactorsInv, TypeOK, AsSlot
  <2>4. AddSlot(c, s, {})
    BY <2>1
  <2> HIDE DEF s
  <2> QED
    BY <2>2, <2>3, <2>4, SlotAdded
<1> QED
  BY <1>1, <1>2

LEMMA WayInRemoved ==
  ASSUME FactorsInv, NEW c \in Callers, RemoveVaultFactor(c)
  PROVE  FactorsInv'
<1>1. TypeOK /\ EnrolFits /\ EnrolCovered /\ WaysInAreSound /\ IsFiniteSet(slots)
  BY DEF FactorsInv
<1>2. PICK s \in slots : /\ Removable(s)
                         /\ slots' = slots \ {s}
                         /\ raced' = (raced \/ (s.kind = "backup" /\ BeingEnrolled # {}))
  BY DEF RemoveVaultFactor
<1>3. Becomes(c, NoCall) /\ mu' = None /\ UNCHANGED locked
  BY DEF RemoveVaultFactor, Ends
<1>4. NewWays(c, NoCall)
  BY <1>2 DEF NewWays
<1>5. calls' \in [Callers -> Call] /\ EnrolFits' /\ (BeingEnrolled)' \subseteq BeingEnrolled
  BY <1>3, <1>4, CallOver
<1>6. IsFiniteSet(slots') /\ Cardinality(slots') \in 1 .. MaxSlots
  <2>1. IsFiniteSet(slots') /\ Cardinality(slots') = Cardinality(slots) - 1
    BY <1>1, <1>2, FS_RemoveElement
  <2> QED
    BY <1>1, <1>2, <2>1 DEF TypeOK, Removable
<1>7. TypeOK'
  BY <1>1, <1>2, <1>3, <1>5, <1>6 DEF TypeOK
<1>8. s.kind # "backup" => (HasBackupKey \/ raced => HasBackupKey' \/ raced')
  BY <1>2 DEF HasBackupKey, OfKind
<1>9. s.kind = "backup" => Losable' = {} /\ (raced' \/ BeingEnrolled = {})
  BY <1>2 DEF Removable, Losable, OfKind
<1>10. EnrolCovered'
  BY <1>1, <1>5, <1>8, <1>9 DEF EnrolCovered
<1>11. OneKeyfile'
  BY <1>1, <1>2 DEF WaysInAreSound, OneKeyfile, OfKind
<1>12. UserCanOpen'
  <2>1. CASE s.kind = "backup"
    BY <1>1, <1>2, <2>1 DEF WaysInAreSound, UserCanOpen, Interactive, OfKind
  <2>2. CASE s.kind # "backup"
    <3>1. IsFiniteSet(Interactive) /\ s \in Interactive
      BY <1>1, <1>2, <2>2, FS_Subset DEF Interactive, OfKind
    <3>2. Cardinality(Interactive) > 1
      BY <1>2, <2>2 DEF Removable
    <3>3. Interactive \ {s} # {}
      <4>1. Cardinality(Interactive \ {s}) = Cardinality(Interactive) - 1 /\ Cardinality(Interactive) \in Nat
        BY <3>1, FS_RemoveElement, FS_CardinalityType
      <4> QED
        BY <3>2, <4>1, FS_EmptySet
    <3> QED
      BY <1>2, <3>3 DEF UserCanOpen, Interactive, OfKind
  <2> QED
    BY <2>1, <2>2
<1>13. LossIsCovered'
  <2>1. CASE s.kind = "backup"
    BY <1>9, <2>1 DEF LossIsCovered
  <2>2. CASE s.kind # "backup"
    BY <1>1, <1>2, <1>8, <2>2 DEF WaysInAreSound, LossIsCovered, Losable, OfKind
  <2> QED
    BY <2>1, <2>2
<1> QED
  BY <1>5, <1>6, <1>7, <1>10, <1>11, <1>12, <1>13 DEF FactorsInv, WaysInAreSound

-----------------------------------------------------------------------------
(* A password change.  A way in that it reissues keeps its kind and its      *)
(* device.                                                                   *)
Reissued(s, creds, new) ==
    IF Opens(s, creds) THEN [s EXCEPT !.pw = IF @ = None THEN None ELSE new] ELSE s

LEMMA ReissuedSays ==
  ASSUME NEW s \in Slot, NEW creds \in Call, NEW new \in Passwords
  PROVE  /\ Reissued(s, creds, new) \in Slot
         /\ Reissued(s, creds, new).kind = s.kind /\ Reissued(s, creds, new).dev = s.dev
         /\ Reissued(s, creds, new).pw = IF s.pw # None /\ Opens(s, creds) THEN new ELSE s.pw
         /\ s.pw = None => Reissued(s, creds, new) = s
<1>1. AsSlot(s)
  BY SlotsByPart
<1>2. AsSlot(Reissued(s, creds, new))
  BY <1>1 DEF AsSlot, Reissued
<1>3. Reissued(s, creds, new) \in Slot
  BY <1>2, SlotsByPart
<1> QED
  BY <1>1, <1>3 DEF AsSlot, Reissued

(* The ways in after a change are those before it, reissued.                 *)
LEMMA ChangeSays ==
  ASSUME FactorsInv, NEW c \in Callers, ChangePassword(c)
  PROVE  \E new \in Passwords : slots' = {Reissued(s, calls[c], new) : s \in slots}
<1>1. PICK new \in Passwords :
          slots' = (slots \ {s \in slots : Opens(s, calls[c])})
                     \cup {[s EXCEPT !.pw = IF @ = None THEN None ELSE new] : s \in {s \in slots : Opens(s, calls[c])}}
  BY DEF ChangePassword
<1>2. \A s \in slots : Reissued(s, calls[c], new) \in slots'
  BY <1>1 DEF Reissued
<1>3. \A t \in slots' : \E s \in slots : t = Reissued(s, calls[c], new)
  BY <1>1 DEF Reissued
<1>4. slots' = {Reissued(s, calls[c], new) : s \in slots}
  BY <1>2, <1>3
<1> QED
  BY <1>4

LEMMA PasswordChanged ==
  ASSUME FactorsInv, NEW c \in Callers, ChangePassword(c)
  PROVE  FactorsInv'
<1>1. TypeOK /\ EnrolFits /\ EnrolCovered /\ WaysInAreSound /\ IsFiniteSet(slots)
  BY DEF FactorsInv
<1>2. PICK new \in Passwords : slots' = {Reissued(s, calls[c], new) : s \in slots}
  BY ChangeSays
<1> DEFINE New(s) == Reissued(s, calls[c], new)
<1>3. \A s \in slots : New(s) \in slots' /\ New(s) \in Slot /\ New(s).kind = s.kind /\ New(s).dev = s.dev
  <2>1. calls[c] \in Call /\ slots \subseteq Slot
    BY <1>1 DEF TypeOK
  <2> QED
    BY <1>2, <2>1, ReissuedSays
<1>4. \A t \in slots' : \E s \in slots : t = New(s)
  BY <1>2
<1>5. IsFiniteSet(slots') /\ Cardinality(slots') \in 1 .. MaxSlots
  <2> DEFINE F == [s \in slots |-> New(s)]
  <2>1. F \in Surjection(slots, slots')
    <3>1. F \in [slots -> slots']
      BY <1>3
    <3>2. \A t \in slots' : \E s \in slots : F[s] = t
      BY <1>4
    <3> QED
      BY <3>1, <3>2 DEF Surjection
  <2>2. IsFiniteSet(slots') /\ Cardinality(slots') <= Cardinality(slots)
    BY <1>1, <2>1, FS_Surjection
  <2>3. slots' # {}
    BY <1>1, <1>3 DEF WaysInAreSound, UserCanOpen, Interactive
  <2>4. Cardinality(slots') \in Nat /\ Cardinality(slots') # 0
    BY <2>2, <2>3, FS_CardinalityType, FS_EmptySet
  <2> QED
    BY <1>1, <2>2, <2>4 DEF TypeOK
<1> HIDE DEF New
<1>6. Becomes(c, NoCall) /\ mu' = None /\ locked' = TRUE /\ UNCHANGED raced
  BY DEF ChangePassword, Ends
<1>7. NewWays(c, NoCall)
  BY <1>3, <1>4 DEF NewWays
<1>8. calls' \in [Callers -> Call] /\ EnrolFits' /\ (BeingEnrolled)' \subseteq BeingEnrolled
  BY <1>6, <1>7, CallOver
<1>9. TypeOK'
  <2>1. \A x, y \in slots' : x.dev = y.dev => x = y
    BY <1>1, <1>3, <1>4 DEF TypeOK
  <2> QED
    BY <1>1, <1>3, <1>4, <1>5, <1>6, <1>8, <2>1 DEF TypeOK
<1>10. HasBackupKey' = HasBackupKey /\ (Losable' = {} <=> Losable = {}) /\ (Interactive' = {} <=> Interactive = {})
  BY <1>3, <1>4 DEF HasBackupKey, Losable, Interactive, OfKind
<1>11. OneKeyfile'
  BY <1>1, <1>3, <1>4 DEF WaysInAreSound, OneKeyfile, OfKind
<1>12. WaysInAreSound' /\ EnrolCovered'
  BY <1>1, <1>6, <1>8, <1>10, <1>11 DEF WaysInAreSound, UserCanOpen, LossIsCovered, EnrolCovered
<1> QED
  BY <1>5, <1>8, <1>9, <1>12 DEF FactorsInv

-----------------------------------------------------------------------------
LEMMA FactorsStep == FactorsInv /\ [Next]_vars => FactorsInv'
<1> SUFFICES ASSUME FactorsInv, [Next]_vars
             PROVE  FactorsInv'
  OBVIOUS
<1>1. ASSUME UNCHANGED <<slots, calls, raced>>, locked' \in BOOLEAN, mu' = mu
      PROVE  FactorsInv'
  <2>1. TypeOK'
    BY <1>1 DEF FactorsInv, TypeOK
  <2>2. EnrolFits' /\ EnrolCovered'
    BY <1>1 DEF FactorsInv, EnrolFits, EnrolCovered, BeingEnrolled, HasBackupKey, OfKind
  <2>3. WaysInAreSound'
    BY <1>1 DEF FactorsInv, WaysInAreSound, OneKeyfile, UserCanOpen, LossIsCovered, Interactive, Losable, HasBackupKey, OfKind
  <2> QED
    BY <1>1, <2>1, <2>2, <2>3 DEF FactorsInv
<1>2. CASE UNCHANGED vars
  BY <1>1, <1>2 DEF vars, FactorsInv, TypeOK
<1>3. CASE LockNow \/ UnlockVault \/ LeaseEnds
  BY <1>1, <1>3 DEF LockNow, UnlockVault, LeaseEnds
<1>4. ASSUME NEW c \in Callers, Begin(c) \/ Work(c) \/ Answer(c)
      PROVE  FactorsInv'
  <2>1. CASE \/ Begin(c) \/ Fail(c) \/ PassGate(c) \/ Authenticate(c) \/ AuthenticateWithKey(c)
             \/ ReopenToRekey(c) \/ EnrollVaultSecurityKey(c) \/ EnrollVaultKeyfile(c) \/ Answer(c)
    BY <2>1, OnItsWay
  <2>2. CASE CreateVaultBackupKey(c) \/ EnrollVaultPassword(c)
    BY <2>2, WayInCreated
  <2>3. CASE SecurityKeyEnrolled(c)
    BY <2>3, DeviceEnrolled DEF SecurityKeyEnrolled
  <2>4. CASE KeyfileEnrolled(c)
    BY <2>4, DeviceEnrolled DEF KeyfileEnrolled
  <2>5. CASE RemoveVaultFactor(c)
    BY <2>5, WayInRemoved
  <2>6. CASE ChangePassword(c)
    BY <2>6, PasswordChanged
  <2> QED
    BY <1>4, <2>1, <2>2, <2>3, <2>4, <2>5, <2>6 DEF Work
<1> QED
  BY <1>2, <1>3, <1>4 DEF Next

(* A slot that uses the old password is reissued, whatever device it needs;  *)
(* any other is left alone.  A new password that is the old one changes      *)
(* nothing.                                                                  *)
LEMMA OldIsReissued ==
  ASSUME FactorsInv, NEW c \in Callers, ChangePassword(c), slots' # slots
  PROVE  /\ \A s \in slots' : s.pw # calls[c].pw
         /\ \A s \in slots : s.pw # calls[c].pw => s \in slots'
<1> DEFINE old == calls[c].pw
<1>1. PICK new \in Passwords : slots' = {Reissued(s, calls[c], new) : s \in slots}
  BY ChangeSays
<1> DEFINE New(s) == Reissued(s, calls[c], new)
<1>2. calls[c] \in Call /\ slots \subseteq Slot
  BY DEF FactorsInv, TypeOK
<1>3. \A s \in slots : /\ New(s) \in slots'
                       /\ New(s).pw = IF s.pw # None /\ Opens(s, calls[c]) THEN new ELSE s.pw
                       /\ s.pw = None => New(s) = s
  BY <1>1, <1>2, ReissuedSays
<1>4. \A t \in slots' : \E s \in slots : t = New(s)
  BY <1>1
<1>5. \A s \in slots : s.pw # None => (Opens(s, calls[c]) <=> s.pw = old)
  BY DEF ChangePassword, NothingSkipped, Offered, Opens
<1>6. old # None
  BY DEF ChangePassword, Opens
<1>7. \A s \in slots : s.pw # old => New(s) = s
  <2>1. \A s \in slots : ~Opens(s, calls[c]) => New(s) = s
    BY DEF Reissued
  <2> QED
    BY <1>3, <1>5, <2>1
<1>8. new # old
  <2> SUFFICES ASSUME new = old
               PROVE  slots' = slots
    OBVIOUS
  <2>1. ASSUME NEW s \in slots, s.pw = old
        PROVE  New(s) = s
    <3>1. AsSlot(s) /\ New(s) = [s EXCEPT !.pw = new]
      BY <1>2, <1>5, <1>6, <2>1, SlotsByPart DEF Reissued
    <3> QED
      BY <2>1, <3>1 DEF AsSlot
  <2>2. \A s \in slots : New(s) = s
    BY <1>7, <2>1
  <2>3. \A s \in slots : s \in slots'
    BY <1>3, <2>2
  <2>4. \A s \in slots' : s \in slots
    BY <1>4, <2>2
  <2> QED
    BY <2>3, <2>4
<1> HIDE DEF New
<1>9. ASSUME NEW t \in slots'
      PROVE  t.pw # old
  <2>1. PICK s \in slots : t = New(s)
    BY <1>4
  <2> QED
    BY <1>3, <1>5, <1>6, <1>8, <2>1
<1>10. \A s \in slots : s.pw # old => s \in slots'
  BY <1>3, <1>7
<1> QED
  BY <1>9, <1>10

LEMMA ChangeRetires ==
  ASSUME FactorsInv, Next, NEW c \in Callers, calls[c].op = "change", mu = c, slots' # slots
  PROVE  /\ \A s \in slots' : s.pw # calls[c].pw
         /\ \A s \in slots : s.pw # calls[c].pw => s \in slots'
<1>1. PICK d \in Callers : Work(d)
  BY DEF Next, Begin, Answer, LockNow, UnlockVault, LeaseEnds
<1>2. ChangePassword(d) /\ d = c
  BY <1>1 DEF Work, Fail, PassGate, Authenticate, AuthenticateWithKey, ReopenToRekey, CreateVaultBackupKey,
              EnrollVaultSecurityKey, SecurityKeyEnrolled, EnrollVaultKeyfile, KeyfileEnrolled,
              EnrollVaultPassword, RemoveVaultFactor, ChangePassword, Manages, Enrols, Holds, Prompt
<1> QED
  BY <1>2, OldIsReissued
-----------------------------------------------------------------------------
LEMMA FactorsInvariant == Spec => []FactorsInv
  BY FactorsInitial, FactorsStep, PTL DEF Spec

(* The header never holds more slots than validateSlots reads back, and no   *)
(* two ways in share a device, whatever calls overlap at their prompts.      *)
THEOREM FactorsTypeCorrect == Spec => []TypeOK
<1>1. FactorsInv => TypeOK
  BY DEF FactorsInv
<1> QED
  BY <1>1, FactorsInvariant, PTL

(* There is one keyfile at most, a way in that the user can take without a   *)
(* code on paper, and a backup key for what can be lost, unless it was       *)
(* removed during an enrollment: the rules of EnrollVaultKeyfile,            *)
(* EnrollVaultSecurityKey and RemoveVaultFactor hold over their prompts.     *)
THEOREM WaysInStaySound == Spec => []WaysInAreSound
<1>1. FactorsInv => WaysInAreSound
  BY DEF FactorsInv
<1> QED
  BY <1>1, FactorsInvariant, PTL

(* A password change leaves no way in with the old password, and those that  *)
(* never used it as they were (reissueSlots, ChangePasswordWith).            *)
THEOREM OldPasswordIsRetired == Spec => OldPasswordRetired
<1>1. FactorsInv /\ [Next]_vars =>
        [\A c \in Callers : LET old == calls[c].pw IN
            calls[c].op = "change" /\ mu = c /\ slots' # slots =>
               /\ \A s \in slots' : s.pw # old
               /\ \A s \in slots : s.pw # old => s \in slots']_vars
  BY ChangeRetires
<1> QED
  BY <1>1, FactorsInvariant, PTL DEF Spec, OldPasswordRetired
=============================================================================
