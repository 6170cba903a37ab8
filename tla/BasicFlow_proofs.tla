--------------------------- MODULE BasicFlow_proofs ---------------------------
(* Theorems about BasicFlow, for every set of accounts, names, login files,  *)
(* callers and platforms and every number of failures: types, and, when the  *)
(* calls run one after the other, that no session is lost, that a save is    *)
(* its account's own and that a switch delivers the session asked for, with  *)
(* the exceptions the properties name.                                       *)
EXTENDS BasicFlow, TLAPS

USE MarkersDiffer, BoundsAreNumbers, PlatformsAreDescribed, NoneIsNoToken, NoneIsNoSession

(* Where a call of each kind can be, and what it has by then.                *)
Saving == {"read", "write", "touch", "touched"}
Fits(k) ==
    /\ k \in Call
    /\ k.kind = "none" => k.pc = "idle"
    /\ k.pc = "idle" => k = NoCall
    /\ k.kind = "swap" => /\ k.uid \in Accounts /\ k.name \in Names
                          /\ k.pc \in {"kill", "save", "clear", "login", "last", "lasted", "launch"} \cup Saving
    /\ k.kind = "save" => k.old \in Names /\ k.pc \in {"kill", "save", "launch"} \cup Saving
    /\ k.kind = "add" => k.old = None /\ k.pc \in {"kill", "clear", "launch"}
    /\ k.kind = "logout" => k.pc = "clear"
    /\ k.kind \in {"forget", "rename"} => k.of \in Accounts /\ k.old \in Names
    /\ k.kind = "forget" => k.pc \in {"write", "remove"}
    /\ k.kind = "rename" => k.name \in Names /\ k.pc \in {"write", "move"}
    /\ k.kind \in {"swap", "save"} /\ k.pc \in Saving => k.old \in Names /\ k.of \in Accounts
    /\ k.pc = "save" => k.old \in Names
    /\ k.pc \in {"kill", "save"} => ~k.saved
    /\ k.saved => k.kind \in {"swap", "save"}
CallsFit == calls \in [Callers -> Call] /\ \A c \in Callers : Fits(calls[c])

LauncherTyped == descriptor \in Platforms /\ live \in Session /\ running \in BOOLEAN
DiskTyped == dir \in [Names -> Session \cup {None}] /\ ids \in Index
PastTyped ==
    /\ latest \in [Accounts -> 0 .. MaxSessions]
    /\ excused \subseteq Accounts /\ crossed \subseteq Accounts /\ tainted \in BOOLEAN
    /\ claim \in Accounts \cup {None} /\ mishaps \in 0 .. MaxMishaps
TypeInv == CallsFit /\ LauncherTyped /\ DiskTyped /\ PastTyped

-----------------------------------------------------------------------------
(* One call at a time.                                                       *)
Alone == \A c, d \in Callers : ~Idle(c) /\ ~Idle(d) => c = d

(* Every account known anywhere has signed in once, and no two accounts      *)
(* share a name.                                                             *)
Issued ==
    /\ \A a \in Listed : latest[a] # 0
    /\ live.id # None => latest[live.id] # 0
    /\ \A n \in Names : dir[n] # None /\ dir[n].id # None => latest[dir[n].id] # 0
NamesDiffer == \A a, b \in Listed : ids[a] = ids[b] => a = b

(* A session that holds nothing of another account than a.                   *)
OwnOf(s, a) == s # None => /\ s.id \in {a, None}
                           /\ \A f \in Files : s.files[f] = None \/ s.files[f][1] = a

(* Between two restores the session in place is one the launcher knows or    *)
(* one given up, and is of one account.                                      *)
LiveFits ==
    ~tainted /\ (\A c \in Callers : ~At(c, "login")) =>
        /\ live.id \in Accounts \ excused => NewestOf(live, live.id)
        /\ \E a \in Accounts \cup {None} : OwnOf(live, a)

(* A call that replaces the session has stopped the launcher.                *)
Stopped(k) == k.kind \in {"swap", "save", "add"} /\ k.pc # "kill" => ~running
(* ids.json is as the call has read it.                                      *)
ReadFits(k) == k.pc \in {"write", "touched", "lasted"} => k.ids = ids
(* The account asked for has the name its session is restored by; what was   *)
(* seen in place is saved, unless it has no name or is the one asked for.    *)
SwapFits(k) == k.kind = "swap" =>
    /\ ids[k.uid] = k.name
    /\ k.pc \in {"kill", "save"} => k.old = SaveAs(k.seen, k.uid)
    /\ k.pc = "clear" => k.saved \/ k.seen \notin Listed \ {k.uid}
(* The save of the session in place is made, but for what it dropped, and    *)
(* then named after it.                                                      *)
SaveFits(k) == k.kind \in {"swap", "save"} /\ (k.pc \in Saving \/ (k.pc = "clear" /\ k.saved)) =>
    /\ k.saved /\ k.of = live.id /\ k.of \in Accounts /\ k.old \in Names
    /\ dir[k.old] # None /\ (k.torn \/ dir[k.old] = live)
    /\ k.kind = "swap" => k.of # k.uid
    /\ k.of \in excused \/ NewestOf(live, k.of)
    /\ tainted \/ OwnOf(dir[k.old], k.of)
    /\ k.pc \in {"read", "write"} => MaySaveAs(k.of, k.old) /\ (tainted => k.of \in crossed)
    /\ k.pc \notin {"read", "write"} => ids[k.of] = k.old
(* Nobody else has the directory that Forget and Rename change.              *)
ForgetFits(k) == k.kind = "forget" =>
    /\ k.pc = "write" => ids[k.of] = k.old
    /\ k.pc = "remove" => \A a \in Accounts : ids[a] # k.old
RenameFits(k) == k.kind = "rename" =>
    /\ k.pc = "write" => ids[k.of] = k.old /\ \A a \in Accounts : ids[a] # k.name
    /\ k.pc = "move" =>
          /\ ids[k.of] = k.name /\ \A a \in Accounts : ids[a] # k.old
          /\ k.of \in excused \/ NewestOf(live, k.of) \/ NewestOf(dir[k.old], k.of)
          /\ k.of \in crossed \/ OwnOf(dir[k.old], k.of)
(* A restore copies what the save has, part by part, over nothing, or over   *)
(* what a failure left; no session depends on what it overwrites.            *)
SavedId(k) == IF IdFirst THEN k.uid ELSE IF dir[k.name] = None THEN None ELSE dir[k.name].id
SavedFile(k, f) == IF dir[k.name] = None THEN None ELSE dir[k.name].files[f]
Copied(k) ==
    /\ live.id = IF Id \in k.todo THEN None ELSE SavedId(k)
    /\ \A f \in Files : live.files[f] = IF f \in k.todo THEN None ELSE SavedFile(k, f)
Overwritten(k) ==
    /\ Id \notin k.todo => live.id = SavedId(k)
    /\ \A f \in Files \ k.todo : live.files[f] = SavedFile(k, f)
LoginFits(k) == k.pc = "login" =>
    /\ \A a \in Listed \ excused : NewestOf(dir[ids[a]], a)
    /\ tainted \/ Copied(k)
    /\ k.torn \/ Overwritten(k)
Delivered(a) == a \in excused \cup crossed \/ tainted \/ NewestOf(live, a)
LastFits(k) == k.kind = "swap" /\ k.pc \in {"last", "lasted", "launch"} => Delivered(k.uid)

Flows(k) ==
    /\ Stopped(k) /\ ReadFits(k) /\ SwapFits(k) /\ SaveFits(k)
    /\ ForgetFits(k) /\ RenameFits(k) /\ LoginFits(k) /\ LastFits(k)
FlowFits == \A c \in Callers : Flows(calls[c])
ClaimFits == claim # None => AllIdle /\ Delivered(claim)

(* What holds of the sessions, and what of the calls.                        *)
Standing == Issued /\ NamesDiffer /\ LiveFits /\ SessionsKept /\ SaveIsOwn
FlowInv == TypeInv /\ Standing /\ Alone /\ FlowFits /\ ClaimFits
-----------------------------------------------------------------------------
(* What each step does to the calls.                                         *)
Others(c) == \A d \in Callers \ {c} : calls'[d] = calls[d]
SameAs(k, l) == /\ k.kind = l.kind /\ k.uid = l.uid /\ k.name = l.name /\ k.of = l.of /\ k.old = l.old
                /\ k.todo = l.todo /\ k.saved = l.saved /\ k.torn = l.torn /\ k.seen = l.seen

LEMMA NoCallSays ==
  /\ NoCall \in Call /\ Fits(NoCall) /\ NoCall.kind = "none" /\ NoCall.pc = "idle" /\ NoCall.saved = FALSE
  /\ NoCall.uid = None /\ NoCall.name = None /\ NoCall.of = None /\ NoCall.old = None /\ NoCall.seen = None
  /\ NoCall.ids = NoIndex /\ NoCall.todo = {} /\ NoCall.torn = FALSE
<1>1. NoCall \in Call
  BY DEF NoCall, Call, Kinds, Stages, NoIndex, Index
<1>2. /\ NoCall.kind = "none" /\ NoCall.pc = "idle" /\ NoCall.saved = FALSE
      /\ NoCall.uid = None /\ NoCall.name = None /\ NoCall.of = None /\ NoCall.old = None /\ NoCall.seen = None
      /\ NoCall.ids = NoIndex /\ NoCall.todo = {} /\ NoCall.torn = FALSE
  BY DEF NoCall
<1>3. Fits(NoCall)
  BY <1>1, <1>2 DEF Fits
<1> QED
  BY <1>1, <1>2, <1>3

LEMMA CallGoesOn ==
  ASSUME CallsFit, NEW c \in Callers, NEW k, k \in Call, calls' = [calls EXCEPT ![c] = k]
  PROVE  calls' \in [Callers -> Call] /\ calls'[c] = k /\ Others(c)
  BY DEF CallsFit, Others

LEMMA OthersFit ==
  ASSUME CallsFit, NEW c \in Callers, Others(c), calls' \in [Callers -> Call], Fits(calls'[c])
  PROVE  CallsFit'
  BY DEF CallsFit, Others

LEMMA ReturnSays ==
  ASSUME CallsFit, NEW c \in Callers, Return(c)
  PROVE  CallsFit' /\ calls'[c] = NoCall /\ Others(c)
<1>1. calls' \in [Callers -> Call] /\ calls'[c] = NoCall /\ Others(c)
  BY NoCallSays, CallGoesOn DEF Return
<1> QED
  BY <1>1, NoCallSays, OthersFit

LEMMA GotoSays ==
  ASSUME CallsFit, NEW c \in Callers, NEW pc \in Stages, Goto(c, pc)
  PROVE  /\ calls' \in [Callers -> Call] /\ Others(c)
         /\ calls'[c].pc = pc /\ SameAs(calls'[c], calls[c]) /\ calls'[c].ids = calls[c].ids
<1> DEFINE k == [calls[c] EXCEPT !.pc = pc]
<1>1. calls[c] \in Call /\ calls \in [Callers -> Call]
  BY DEF CallsFit
<1>2. k \in Call /\ k.pc = pc /\ SameAs(k, calls[c]) /\ k.ids = calls[c].ids
  BY <1>1 DEF Call, SameAs
<1>3. calls' = [calls EXCEPT ![c] = k]
  BY <1>1 DEF Goto
<1> HIDE DEF k
<1> QED
  BY <1>2, <1>3, CallGoesOn

LEMMA BeginSays ==
  ASSUME CallsFit, NEW c \in Callers, NEW k, k \in Call, Fits(k), Begin(c, k)
  PROVE  CallsFit' /\ calls'[c] = k /\ Others(c) /\ claim' = None
<1>1. calls' \in [Callers -> Call] /\ calls'[c] = k /\ Others(c)
  BY CallGoesOn DEF Begin
<1> QED
  BY <1>1, OthersFit DEF Begin

(* How the calls begin.                                                      *)
Swapping(uid, seen) == [NoCall EXCEPT !.kind = "swap", !.pc = "kill", !.uid = uid,
                                      !.name = ids[uid], !.old = SaveAs(seen, uid), !.seen = seen]

SwapBegun(c, uid, seen) ==
    LET k == calls'[c] IN
    /\ CallsFit' /\ Others(c) /\ claim' = None
    /\ k.kind = "swap" /\ k.pc = "kill" /\ k.uid = uid /\ k.name = ids[uid]
    /\ k.old = SaveAs(seen, uid) /\ k.seen = seen /\ k.saved = FALSE

LEMMA SwapToSays ==
  ASSUME TypeInv, NEW c \in Callers, NEW uid \in Accounts, NEW args \in BOOLEAN, SwapTo(c, uid, args)
  PROVE  /\ MayBegin(c) /\ ids[uid] # None
         /\ \/ /\ live.id = uid /\ claim' = uid /\ UNCHANGED calls
            \/ \E seen \in {live.id, None} : SwapBegun(c, uid, seen)
         /\ mishaps' \in 0 .. MaxMishaps
         /\ UNCHANGED <<descriptor, live, running, dir, ids, latest, excused, crossed, tainted>>
<1>1. PICK cur \in {live.id, None} :
          /\ IF cur = live.id THEN Smooth ELSE Mishap
          /\ IF AlreadyOnRequested(cur, uid, args)
             THEN claim' = uid /\ UNCHANGED calls ELSE Begin(c, Swapping(uid, cur))
  BY DEF SwapTo, Swapping
<1>2. MayBegin(c) /\ ids[uid] # None /\ UNCHANGED <<descriptor, live, running, dir, ids, latest, excused, crossed, tainted>>
  BY DEF SwapTo, disk, history
<1>3. mishaps' \in 0 .. MaxMishaps
  BY <1>1 DEF Smooth, Mishap, TypeInv, PastTyped
<1>4. CASE AlreadyOnRequested(cur, uid, args)
  BY <1>1, <1>2, <1>3, <1>4 DEF AlreadyOnRequested
<1>5. CASE ~AlreadyOnRequested(cur, uid, args)
  <2> DEFINE k == Swapping(uid, cur)
  <2>1. /\ cur \in Accounts \cup {None} /\ ids[uid] \in Names
        /\ SaveAs(cur, uid) \in Names \cup {None}
    BY <1>2 DEF TypeInv, LauncherTyped, Session, DiskTyped, Index, SaveAs, Listed
  <2>2. /\ k \in Call /\ k.kind = "swap" /\ k.pc = "kill" /\ k.uid = uid /\ k.name = ids[uid]
        /\ k.old = SaveAs(cur, uid) /\ k.seen = cur /\ k.saved = FALSE
    BY <2>1, NoCallSays DEF Swapping, Call, Kinds, Stages
  <2> HIDE DEF k
  <2>3. Fits(k)
    BY <2>1, <2>2 DEF Fits, Saving
  <2>4. CallsFit /\ Begin(c, k)
    BY <1>1, <1>5 DEF TypeInv, k
  <2>5. CallsFit' /\ calls'[c] = k /\ Others(c) /\ claim' = None
    BY <2>2, <2>3, <2>4, BeginSays
  <2> QED
    BY <1>2, <1>3, <2>2, <2>5 DEF SwapBegun
<1> QED
  BY <1>4, <1>5

Opening(kind, pc, of, old, name, index) ==
    [NoCall EXCEPT !.kind = kind, !.pc = pc, !.of = of, !.old = old, !.name = name, !.ids = index]

Untouched == UNCHANGED <<descriptor, live, running, disk, history, mishaps>>

LEMMA SaveCurrentSays ==
  ASSUME TypeInv, NEW n \in Names, SaveCurrent(n)
  PROVE  LET k == calls'[Ui] IN
         /\ CallsFit' /\ Others(Ui) /\ claim' = None /\ MayBegin(Ui) /\ Untouched
         /\ k.kind = "save" /\ k.pc = "kill" /\ k.old = n /\ k.saved = FALSE
<1> DEFINE k == [NoCall EXCEPT !.kind = "save", !.pc = "kill", !.old = n]
<1>1. k \in Call /\ k.kind = "save" /\ k.pc = "kill" /\ k.old = n /\ k.saved = FALSE
  BY NoCallSays DEF Call, Kinds, Stages
<1>2. Begin(Ui, k) /\ MayBegin(Ui) /\ Untouched /\ CallsFit /\ Ui \in Callers
  BY DEF SaveCurrent, TypeInv, Callers, Untouched
<1> HIDE DEF k
<1>3. Fits(k)
  BY <1>1 DEF Fits, Saving
<1> QED
  BY <1>1, <1>2, <1>3, BeginSays

LEMMA AddNewSays ==
  ASSUME TypeInv, AddNew
  PROVE  LET k == calls'[Ui] IN
         /\ CallsFit' /\ Others(Ui) /\ claim' = None /\ MayBegin(Ui) /\ Untouched
         /\ k.kind = "add" /\ k.pc = "kill" /\ k.saved = FALSE
<1> DEFINE k == [NoCall EXCEPT !.kind = "add", !.pc = "kill"]
<1>1. k \in Call /\ k.kind = "add" /\ k.pc = "kill" /\ k.old = None /\ k.saved = FALSE
  BY NoCallSays DEF Call, Kinds, Stages
<1>2. Begin(Ui, k) /\ MayBegin(Ui) /\ Untouched /\ CallsFit /\ Ui \in Callers
  BY DEF AddNew, TypeInv, Callers, Untouched
<1> HIDE DEF k
<1>3. Fits(k)
  BY <1>1 DEF Fits, Saving
<1> QED
  BY <1>1, <1>2, <1>3, BeginSays

LEMMA LogoutSays ==
  ASSUME TypeInv, NEW c \in Callers, Logout(c)
  PROVE  LET k == calls'[c] IN
         /\ CallsFit' /\ Others(c) /\ claim' = None /\ MayBegin(c) /\ Untouched
         /\ k.kind = "logout" /\ k.pc = "clear" /\ k.saved = FALSE
<1> DEFINE k == [NoCall EXCEPT !.kind = "logout", !.pc = "clear"]
<1>1. k \in Call /\ k.kind = "logout" /\ k.pc = "clear" /\ k.saved = FALSE
  BY NoCallSays DEF Call, Kinds, Stages
<1>2. Begin(c, k) /\ MayBegin(c) /\ Untouched /\ CallsFit
  BY DEF Logout, TypeInv, Untouched
<1> HIDE DEF k
<1>3. Fits(k)
  BY <1>1 DEF Fits, Saving
<1> QED
  BY <1>1, <1>2, <1>3, BeginSays

LEMMA ForgetAccountSays ==
  ASSUME TypeInv, NEW a \in Accounts, ForgetAccount(a)
  PROVE  LET k == calls'[Ui] IN
         /\ CallsFit' /\ Others(Ui) /\ claim' = None /\ MayBegin(Ui) /\ Untouched /\ ids[a] # None
         /\ k.kind = "forget" /\ k.pc = "write" /\ k.of = a /\ k.old = ids[a] /\ k.ids = ids /\ k.saved = FALSE
<1> DEFINE k == Opening("forget", "write", a, ids[a], None, ids)
<1>1. Begin(Ui, k) /\ MayBegin(Ui) /\ Untouched /\ CallsFit /\ Ui \in Callers /\ ids[a] # None
  BY NoCallSays DEF ForgetAccount, TypeInv, Callers, Untouched, Opening, NoCall
<1>2. ids \in Index /\ ids[a] \in Names
  BY <1>1 DEF TypeInv, DiskTyped, Index
<1>3. /\ k \in Call /\ k.kind = "forget" /\ k.pc = "write" /\ k.of = a /\ k.old = ids[a] /\ k.ids = ids
      /\ k.saved = FALSE
  BY <1>2, NoCallSays DEF Opening, Call, Kinds, Stages
<1> HIDE DEF k
<1>4. Fits(k)
  BY <1>2, <1>3 DEF Fits, Saving
<1> QED
  BY <1>1, <1>3, <1>4, BeginSays

LEMMA RenameAccountSays ==
  ASSUME TypeInv, NEW a \in Accounts, NEW n \in Names, RenameAccount(a, n)
  PROVE  LET k == calls'[Ui] IN
         /\ CallsFit' /\ Others(Ui) /\ claim' = None /\ MayBegin(Ui) /\ Untouched /\ ids[a] \notin {None, n}
         /\ "taken" \notin Happens => \A b \in Accounts : ids[b] # n
         /\ k.kind = "rename" /\ k.pc = "write" /\ k.of = a /\ k.old = ids[a] /\ k.name = n /\ k.ids = ids
         /\ k.saved = FALSE
<1> DEFINE k == Opening("rename", "write", a, ids[a], n, ids)
<1>1. /\ Begin(Ui, k) /\ MayBegin(Ui) /\ Untouched /\ CallsFit /\ Ui \in Callers /\ ids[a] \notin {None, n}
      /\ "taken" \notin Happens => \A b \in Accounts : ids[b] # n
  BY NoCallSays DEF RenameAccount, TypeInv, Callers, Untouched, Opening, NoCall
<1>2. ids \in Index /\ ids[a] \in Names
  BY <1>1 DEF TypeInv, DiskTyped, Index
<1>3. /\ k \in Call /\ k.kind = "rename" /\ k.pc = "write" /\ k.of = a /\ k.old = ids[a] /\ k.name = n
      /\ k.ids = ids /\ k.saved = FALSE
  BY <1>2, NoCallSays DEF Opening, Call, Kinds, Stages
<1> HIDE DEF k
<1>4. Fits(k)
  BY <1>2, <1>3 DEF Fits, Saving
<1> QED
  BY <1>1, <1>3, <1>4, BeginSays

-----------------------------------------------------------------------------
(* How they go on.                                                           *)

(* The call ends, with an error or done, and leaves what it worked on.       *)
Ends(c) == /\ Return(c) /\ mishaps' \in 0 .. MaxMishaps
           /\ UNCHANGED <<descriptor, live, running, dir, ids, latest, excused, crossed, tainted, claim>>

LEMMA FailSays ==
  ASSUME TypeInv, NEW c \in Callers, Fail(c), Smooth \/ Mishap, UNCHANGED descriptor
  PROVE  Ends(c)
  BY DEF Fail, Ends, Smooth, Mishap, TypeInv, PastTyped, disk, history

LEMMA KillSays ==
  ASSUME TypeInv, NEW c \in Callers, Kill(c)
  PROVE  LET k == calls'[c] IN
         /\ At(c, "kill") /\ CallsFit'
         /\ \/ /\ Others(c) /\ SameAs(k, calls[c])
               /\ k.pc = IF calls[c].old # None THEN "save" ELSE "clear"
               /\ running' = FALSE
               /\ UNCHANGED <<descriptor, live, dir, ids, latest, excused, crossed, tainted, claim, mishaps>>
            \/ Ends(c)
<1>1. CallsFit /\ Fits(calls[c]) /\ At(c, "kill")
  BY DEF TypeInv, CallsFit, Kill
<1>2. CASE Fail(c) /\ Mishap
  BY <1>1, <1>2, FailSays, ReturnSays DEF Kill, Ends
<1>3. CASE ~(Fail(c) /\ Mishap)
  <2> DEFINE pc == IF calls[c].old # None THEN "save" ELSE "clear"
  <2>1. /\ Goto(c, pc) /\ running' = FALSE /\ pc \in Stages
        /\ UNCHANGED <<descriptor, live, dir, ids, latest, excused, crossed, tainted, claim, mishaps>>
    BY <1>3 DEF Kill, Smooth, disk, history, Stages
  <2>2. /\ calls' \in [Callers -> Call] /\ Others(c)
        /\ calls'[c].pc = pc /\ SameAs(calls'[c], calls[c]) /\ calls'[c] \in Call
    BY <1>1, <2>1, GotoSays
  <2>3. Fits(calls'[c])
    BY <1>1, <2>2 DEF Fits, SameAs, Saving, At, Call
  <2> QED
    BY <1>1, <2>1, <2>2, <2>3, OthersFit
<1> QED
  BY <1>2, <1>3

(* What is left of a session that loses parts.                               *)
PartOf(s, t) == /\ s \in Session /\ s.id \in {t.id, None}
                /\ \A f \in Files : s.files[f] \in {t.files[f], None}

LEMMA OnlySays ==
  ASSUME NEW s \in Session, NEW kept
  PROVE  /\ SignedOut \in Session /\ PartOf(SignedOut, s) /\ PartOf(s, s)
         /\ PartOf(Only(s, kept), s) /\ (Parts \subseteq kept => Only(s, kept) = s)
<1>1. SignedOut \in Session /\ PartOf(SignedOut, s) /\ PartOf(s, s)
  BY DEF SignedOut, Session, PartOf
<1>2. Only(s, kept) \in Session
  <2>1. [f \in Files |-> IF f \in kept THEN s.files[f] ELSE None] \in [Files -> Token \cup {None}]
    BY DEF Session
  <2> QED
    BY <2>1 DEF Only, Session
<1>3. PartOf(Only(s, kept), s)
  BY <1>2 DEF PartOf, Only
<1>4. ASSUME Parts \subseteq kept
      PROVE  Only(s, kept) = s
  <2>1. Id \in kept /\ Files \subseteq kept
    BY <1>4 DEF Parts
  <2>2. s.files = [f \in Files |-> IF f \in kept THEN s.files[f] ELSE None]
    BY <2>1 DEF Session
  <2>3. s = [id |-> s.id, files |-> s.files]
    BY DEF Session
  <2> QED
    BY <2>1, <2>2, <2>3 DEF Only
<1> QED
  BY <1>1, <1>3, <1>4

LEMMA CommitSaveSays ==
  ASSUME TypeInv, NEW c \in Callers, CommitSave(c)
  PROVE  LET k == calls'[c]  n == calls[c].old IN
         /\ At(c, "save") /\ CallsFit' /\ n \in Names
         /\ \/ /\ Others(c) /\ live.id \in Accounts /\ MaySaveAs(live.id, n)
               /\ \E s \in Session : /\ dir' = [dir EXCEPT ![n] = s]
                                     /\ PartOf(s, live) /\ (k.torn \/ s = live)
               /\ k.pc = "read" /\ k.saved /\ k.of = live.id /\ k.old = n
               /\ k.kind = calls[c].kind /\ k.uid = calls[c].uid /\ k.name = calls[c].name /\ k.seen = calls[c].seen
               /\ k.kind \in {"swap", "save"}
               /\ IF tainted
                  THEN excused' = excused \cup {live.id} /\ crossed' = crossed \cup {live.id}
                  ELSE UNCHANGED <<excused, crossed>>
               /\ mishaps' \in 0 .. MaxMishaps
               /\ UNCHANGED <<descriptor, live, running, ids, latest, tainted, claim>>
            \/ Ends(c)
<1> DEFINE n == calls[c].old
<1>1. /\ CallsFit /\ Fits(calls[c]) /\ At(c, "save") /\ n \in Names /\ calls[c] \in Call
      /\ live \in Session /\ mishaps \in 0 .. MaxMishaps
  BY DEF TypeInv, CallsFit, CommitSave, Fits, At, LauncherTyped, PastTyped
<1>2. CASE Fail(c)
  <2>1. Smooth \/ Mishap
    BY DEF CommitSave
  <2> QED
    BY <1>1, <1>2, <2>1, FailSays, ReturnSays DEF CommitSave, Ends
<1>3. CASE ~Fail(c)
  <2>0. PICK lost \in SUBSET Parts :
          /\ IF lost = {} THEN Smooth ELSE Mishap
          /\ dir' = [dir EXCEPT ![n] = Only(live, Parts \ lost)]
          /\ calls' = [calls EXCEPT ![c].pc = "read", ![c].saved = TRUE, ![c].of = live.id,
                                    ![c].torn = (lost # {})]
    <3>1. Held(live) \subseteq Parts
      BY DEF Held, Parts
    <3> QED
      BY <1>3, <3>1 DEF CommitSave
  <2> DEFINE k == [calls[c] EXCEPT !.pc = "read", !.saved = TRUE, !.of = live.id, !.torn = (lost # {})]
             s == Only(live, Parts \ lost)
  <2>1. /\ live.id # None /\ MaySaveAs(live.id, n)
        /\ IF tainted
           THEN excused' = excused \cup {live.id} /\ crossed' = crossed \cup {live.id}
           ELSE UNCHANGED <<excused, crossed>>
        /\ UNCHANGED <<descriptor, live, running, ids, latest, tainted, claim>>
    BY <1>3 DEF CommitSave
  <2>2. live.id \in Accounts /\ mishaps' \in 0 .. MaxMishaps
    BY <1>1, <2>0, <2>1 DEF Session, Smooth, Mishap
  <2>3. /\ k \in Call /\ k.pc = "read" /\ k.saved /\ k.of = live.id /\ k.old = n /\ k.torn = (lost # {})
        /\ k.kind = calls[c].kind /\ k.uid = calls[c].uid /\ k.name = calls[c].name /\ k.seen = calls[c].seen
    BY <1>1, <2>2 DEF Call, Stages
  <2>4. calls' = [calls EXCEPT ![c] = k]
    BY <1>1, <2>0 DEF CallsFit
  <2> HIDE DEF k
  <2>5. Fits(k) /\ k.kind \in {"swap", "save"}
    BY <1>1, <2>2, <2>3 DEF Fits, Saving, At, Call, Kinds
  <2>6. calls' \in [Callers -> Call] /\ calls'[c] = k /\ Others(c)
    BY <1>1, <2>3, <2>4, CallGoesOn
  <2>7. CallsFit'
    BY <1>1, <2>5, <2>6, OthersFit
  <2>8. PartOf(s, live) /\ (lost = {} => s = live)
    BY <1>1, OnlySays
  <2>9. \E t \in Session : dir' = [dir EXCEPT ![n] = t] /\ PartOf(t, live) /\ (k.torn \/ t = live)
    <3> HIDE DEF s
    <3>1. s \in Session /\ dir' = [dir EXCEPT ![n] = s] /\ (k.torn \/ s = live)
      BY <2>0, <2>3, <2>8 DEF PartOf, s
    <3> QED
      BY <2>8, <3>1
  <2> QED
    BY <1>1, <2>1, <2>2, <2>3, <2>5, <2>6, <2>7, <2>9
<1> QED
  BY <1>2, <1>3

LEMMA ReadIdsSays ==
  ASSUME TypeInv, NEW c \in Callers, ReadIds(c)
  PROVE  LET k == calls'[c] IN
         /\ CallsFit' /\ Others(c) /\ SameAs(k, calls[c]) /\ k.ids = ids
         /\ <<calls[c].pc, k.pc>> \in {<<"read", "write">>, <<"touch", "touched">>, <<"last", "lasted">>}
         /\ UNCHANGED <<descriptor, live, running, dir, ids, latest, excused, crossed, tainted, claim, mishaps>>
<1> DEFINE pc == CASE calls[c].pc = "read" -> "write" [] calls[c].pc = "touch" -> "touched" [] OTHER -> "lasted"
           k == [calls[c] EXCEPT !.ids = ids, !.pc = pc]
<1>1. CallsFit /\ Fits(calls[c]) /\ calls[c] \in Call /\ ids \in Index
  BY DEF TypeInv, CallsFit, Fits, DiskTyped
<1>2. calls[c].pc \in {"read", "touch", "last"} /\ calls' = [calls EXCEPT ![c].ids = ids, ![c].pc = pc]
  BY DEF ReadIds
<1>3. <<calls[c].pc, pc>> \in {<<"read", "write">>, <<"touch", "touched">>, <<"last", "lasted">>} /\ pc \in Stages
  BY <1>2 DEF Stages
<1>4. UNCHANGED <<descriptor, live, running, dir, ids, latest, excused, crossed, tainted, claim, mishaps>>
  BY DEF ReadIds, disk, history
<1> HIDE DEF pc
<1>5. k \in Call /\ k.pc = pc /\ SameAs(k, calls[c]) /\ k.ids = ids
  BY <1>1, <1>3 DEF Call, SameAs
<1>6. calls' = [calls EXCEPT ![c] = k]
  BY <1>1, <1>2 DEF CallsFit
<1> HIDE DEF k
<1>7. Fits(k)
  BY <1>1, <1>3, <1>5 DEF Fits, SameAs, Saving
<1>8. calls' \in [Callers -> Call] /\ calls'[c] = k /\ Others(c)
  BY <1>1, <1>5, <1>6, CallGoesOn
<1>9. CallsFit'
  BY <1>1, <1>7, <1>8, OthersFit
<1> QED
  BY <1>3, <1>4, <1>5, <1>8, <1>9

LEMMA WriteIdsSays ==
  ASSUME TypeInv, NEW c \in Callers, WriteIds(c)
  PROVE  LET k == calls'[c] IN
         /\ At(c, "write") /\ CallsFit' /\ calls[c].kind \in {"swap", "save", "forget", "rename"}
         /\ calls[c].of \in Accounts /\ calls[c].ids \in Index
         /\ \/ /\ Others(c) /\ SameAs(k, calls[c])
               /\ ids' = Edited(calls[c]) /\ ids' \in Index
               /\ k.pc = CASE calls[c].kind = "rename" -> "move"
                           [] calls[c].kind = "forget" -> "remove"
                           [] OTHER -> "touch"
               /\ crossed' = IF calls[c].kind \in {"swap", "save"} /\ ~tainted
                             THEN crossed \ {calls[c].of} ELSE crossed
               /\ UNCHANGED <<descriptor, live, running, dir, latest, excused, tainted, claim, mishaps>>
            \/ Ends(c)
<1>1. /\ CallsFit /\ Fits(calls[c]) /\ At(c, "write") /\ calls[c] \in Call
      /\ calls[c].kind \in {"swap", "save", "forget", "rename"} /\ calls[c].of \in Accounts /\ calls[c].ids \in Index
  BY NoCallSays DEF TypeInv, CallsFit, WriteIds, Fits, At, Call, Kinds, Saving
<1>2. CASE Fail(c) /\ Mishap
  BY <1>1, <1>2, FailSays, ReturnSays DEF WriteIds, Ends
<1>3. CASE ~(Fail(c) /\ Mishap)
  <2> DEFINE pc == CASE calls[c].kind = "rename" -> "move" [] calls[c].kind = "forget" -> "remove" [] OTHER -> "touch"
  <2>1. /\ Goto(c, pc) /\ ids' = Edited(calls[c])
        /\ crossed' = IF calls[c].kind \in {"swap", "save"} /\ ~tainted THEN crossed \ {calls[c].of} ELSE crossed
        /\ UNCHANGED <<descriptor, live, running, dir, latest, excused, tainted, claim, mishaps>>
    BY <1>3 DEF WriteIds, Smooth
  <2>2. pc \in Stages
    BY DEF Stages
  <2>3. /\ calls' \in [Callers -> Call] /\ Others(c)
        /\ calls'[c].pc = pc /\ SameAs(calls'[c], calls[c]) /\ calls'[c] \in Call
    BY <1>1, <2>1, <2>2, GotoSays
  <2>4. Fits(calls'[c])
    BY <1>1, <2>3 DEF Fits, SameAs, Saving, At
  <2>5. Edited(calls[c]) \in Index
    <3>1. (CASE calls[c].kind = "rename" -> calls[c].name [] calls[c].kind = "forget" -> None
             [] OTHER -> calls[c].old) \in Names \cup {None}
      BY <1>1 DEF Fits, Saving, Call
    <3> QED
      BY <1>1, <3>1 DEF Edited, Index
  <2>6. CallsFit'
    BY <1>1, <2>3, <2>4, OthersFit
  <2> QED
    BY <1>1, <2>1, <2>3, <2>5, <2>6
<1> QED
  BY <1>2, <1>3

LEMMA WriteLastUsedSays ==
  ASSUME TypeInv, NEW c \in Callers, WriteLastUsed(c)
  PROVE  LET k == calls'[c] IN
         /\ calls[c].pc \in {"touched", "lasted"} /\ CallsFit'
         /\ \/ /\ Others(c) /\ SameAs(k, calls[c])
               /\ ids' \in {calls[c].ids, ids} /\ ids' \in Index /\ mishaps' \in 0 .. MaxMishaps
               /\ k.pc = IF At(c, "touched") /\ calls[c].kind = "swap" THEN "clear" ELSE "launch"
               /\ UNCHANGED <<descriptor, live, running, dir, latest, excused, crossed, tainted, claim>>
            \/ At(c, "touched") /\ Ends(c)
<1>1. /\ CallsFit /\ Fits(calls[c]) /\ calls[c] \in Call /\ calls[c].pc \in {"touched", "lasted"}
      /\ ids \in Index /\ mishaps \in 0 .. MaxMishaps
  BY DEF TypeInv, CallsFit, Fits, WriteLastUsed, DiskTyped, PastTyped
<1>2. CASE At(c, "touched") /\ Mishap /\ Fail(c)
  BY <1>1, <1>2, FailSays, ReturnSays DEF WriteLastUsed, Ends
<1>3. CASE ~(At(c, "touched") /\ Mishap /\ Fail(c))
  <2> DEFINE pc == IF At(c, "touched") /\ calls[c].kind = "swap" THEN "clear" ELSE "launch"
  <2>1. /\ Goto(c, pc) /\ pc \in Stages
        /\ (ids' = calls[c].ids /\ Smooth) \/ (Mishap /\ UNCHANGED ids)
        /\ UNCHANGED <<descriptor, live, running, dir, latest, excused, crossed, tainted, claim>>
    BY <1>3 DEF WriteLastUsed, history, Stages
  <2>2. ids' \in {calls[c].ids, ids} /\ ids' \in Index /\ mishaps' \in 0 .. MaxMishaps
    BY <1>1, <2>1 DEF Call, Smooth, Mishap
  <2>3. /\ calls' \in [Callers -> Call] /\ Others(c)
        /\ calls'[c].pc = pc /\ SameAs(calls'[c], calls[c]) /\ calls'[c] \in Call
    BY <1>1, <2>1, GotoSays
  <2>4. Fits(calls'[c])
    BY <1>1, <2>3 DEF Fits, SameAs, Saving, At
  <2>5. CallsFit'
    BY <1>1, <2>3, <2>4, OthersFit
  <2> QED
    BY <1>1, <2>1, <2>2, <2>3, <2>5
<1> QED
  BY <1>2, <1>3

LEMMA ClearCurrentLoginSays ==
  ASSUME TypeInv, NEW c \in Callers, ClearCurrentLogin(c)
  PROVE  LET k == calls'[c] IN
         /\ At(c, "clear") /\ CallsFit' /\ Others(c) /\ calls[c].kind \in {"swap", "add", "logout"}
         /\ \/ k = NoCall
            \/ /\ k.kind = "swap" /\ calls[c].kind = "swap" /\ k.pc = "login" /\ k.todo = Parts
               /\ k.uid = calls[c].uid /\ k.name = calls[c].name /\ k.torn = FALSE
            \/ k.kind = "add" /\ calls[c].kind = "add" /\ k.pc = "launch"
         /\ \/ live' = SignedOut /\ tainted' = FALSE
            \/ tainted' = TRUE
         /\ PartOf(live', live) /\ live' \in Session /\ mishaps' \in 0 .. MaxMishaps
         /\ excused' = IF (calls[c].saved \/ Promised(calls[c])) /\ ~calls[c].torn THEN excused
                       ELSE excused \cup ({live.id} \ {None})
         /\ excused' \subseteq Accounts
         /\ UNCHANGED <<descriptor, running, dir, ids, latest, crossed, claim>>
<1> DEFINE next == CASE calls[c].kind = "swap" -> [calls[c] EXCEPT !.pc = "login", !.todo = Parts, !.torn = FALSE]
                     [] calls[c].kind = "add" -> [calls[c] EXCEPT !.pc = "launch"]
                     [] OTHER -> NoCall
<1>1. /\ CallsFit /\ Fits(calls[c]) /\ At(c, "clear") /\ calls[c] \in Call
      /\ mishaps \in 0 .. MaxMishaps /\ excused \subseteq Accounts /\ live.id \in Accounts \cup {None}
  BY DEF TypeInv, CallsFit, ClearCurrentLogin, Fits, PastTyped, LauncherTyped, Session
<1>2. /\ next \in Call
      /\ \/ next = NoCall
         \/ /\ next.kind = "swap" /\ calls[c].kind = "swap" /\ next.pc = "login" /\ next.todo = Parts
            /\ next.uid = calls[c].uid /\ next.name = calls[c].name /\ next.torn = FALSE
         \/ /\ next.kind = "add" /\ calls[c].kind = "add" /\ next.pc = "launch"
            /\ next.old = calls[c].old /\ next.saved = calls[c].saved
  <2>1. CASE calls[c].kind = "swap"
    <3>1. next = [calls[c] EXCEPT !.pc = "login", !.todo = Parts, !.torn = FALSE]
      BY <2>1
    <3> QED
      BY <1>1, <2>1, <3>1 DEF Call, Stages
  <2>2. CASE calls[c].kind = "add"
    <3>1. next = [calls[c] EXCEPT !.pc = "launch"]
      BY <2>2
    <3> QED
      BY <1>1, <2>2, <3>1 DEF Call, Stages
  <2>3. CASE calls[c].kind \notin {"swap", "add"}
    BY <2>3, NoCallSays
  <2> QED
    BY <2>1, <2>2, <2>3
<1>3. calls[c].kind \in {"swap", "add", "logout"}
  BY <1>1 DEF Fits, At, Call, Kinds, Saving
<1>4. calls[c].kind = "add" => calls[c].old = None
  BY <1>1 DEF Fits
<1>5. calls[c].kind = "swap" => calls[c].uid \in Accounts /\ calls[c].name \in Names
  BY <1>1 DEF Fits
<1>6. next.kind = "add" => next.old = None /\ ~next.saved
  BY <1>1, <1>2, <1>4, NoCallSays DEF Fits
<1> HIDE DEF next
<1>7. Fits(next)
  BY <1>2, <1>5, <1>6, NoCallSays DEF Fits, Saving
<1>8. \E then \in {next, NoCall} : calls' = [calls EXCEPT ![c] = then]
  BY DEF ClearCurrentLogin, next
<1>9. PICK then \in {next, NoCall} : calls' = [calls EXCEPT ![c] = then]
  BY <1>8
<1>10. then \in Call /\ Fits(then)
  BY <1>2, <1>7, <1>9, NoCallSays
<1>11. calls' \in [Callers -> Call] /\ calls'[c] = then /\ Others(c)
  BY <1>1, <1>9, <1>10, CallGoesOn
<1>12. CallsFit'
  BY <1>1, <1>10, <1>11, OthersFit
<1>13. /\ \/ live' = SignedOut /\ tainted' = FALSE
          \/ tainted' = TRUE /\ \E left \in SUBSET Parts : live' = Only(live, left)
       /\ mishaps' \in 0 .. MaxMishaps
  BY <1>1 DEF ClearCurrentLogin, Smooth, Mishap
<1>14. PartOf(live', live) /\ live' \in Session
  <2>1. live \in Session
    BY DEF TypeInv, LauncherTyped
  <2>2. PartOf(live', live)
    BY <1>13, <2>1, OnlySays
  <2> QED
    BY <2>2 DEF PartOf
<1>15. /\ excused' = IF (calls[c].saved \/ Promised(calls[c])) /\ ~calls[c].torn THEN excused
                     ELSE excused \cup ({live.id} \ {None})
       /\ UNCHANGED <<descriptor, running, dir, ids, latest, crossed, claim>>
  BY DEF ClearCurrentLogin, disk
<1>16. excused' \subseteq Accounts
  BY <1>1, <1>15
<1> QED
  BY <1>1, <1>2, <1>3, <1>9, <1>11, <1>12, <1>13, <1>14, <1>15, <1>16

(* A call at the restore of a part.                                          *)
LEMMA EmptiedSays ==
  ASSUME TypeInv, NEW p \in Parts
  PROVE  PartOf(Emptied(p), live) /\ PartOf(live, live)
<1>1. live \in Session
  BY DEF TypeInv, LauncherTyped
<1>2. CASE p = Id
  BY <1>1, <1>2 DEF Emptied, PartOf, Session
<1>3. CASE p # Id
  BY <1>1, <1>3 DEF Emptied, PartOf, Session, Parts
<1> QED
  BY <1>1, <1>2, <1>3, OnlySays

(* What it makes of the part p: it is written, as it was saved or empty, ... *)
Written(n, p) == \/ Present(n, p) /\ Put(n, p)
                 \/ ~Present(n, p) /\ p # Id /\ dir[n] # None /\ live' = Emptied(p)

LEMMA WrittenSays ==
  ASSUME TypeInv, NEW n \in Names, NEW p \in Parts, Written(n, p)
  PROVE  live' \in Session
<1>1. live \in Session /\ dir[n] \in Session \cup {None}
  BY DEF TypeInv, LauncherTyped, DiskTyped
<1>2. CASE Present(n, p) /\ p = Id
  <2>1. IdsOf(n) \subseteq Accounts
    BY <1>1 DEF IdsOf, Session
  <2>2. PICK a \in IdsOf(n) : live' = [live EXCEPT !.id = a]
    BY <1>2 DEF Written, Put
  <2> QED
    BY <1>1, <2>1, <2>2 DEF Session
<1>3. CASE Present(n, p) /\ p # Id
  <2>1. p \in Files /\ dir[n] # None /\ live' = [live EXCEPT !.files[p] = dir[n].files[p]]
    BY <1>3 DEF Written, Put, Present, Parts
  <2>2. dir[n].files[p] \in Token \cup {None}
    BY <1>1, <2>1 DEF Session
  <2> QED
    BY <1>1, <2>1, <2>2 DEF Session
<1>4. CASE ~Present(n, p)
  BY <1>4, EmptiedSays DEF Written, PartOf
<1> QED
  BY <1>2, <1>3, <1>4

(* ... or left as it is, or the call ends.                                   *)
LEMMA RestorePartSays ==
  ASSUME TypeInv, NEW c \in Callers, RestorePart(c)
  PROVE  LET k == calls'[c]  n == calls[c].name IN
         /\ At(c, "login") /\ CallsFit' /\ Others(c)
         /\ calls[c].kind = "swap" /\ calls[c].uid \in Accounts /\ n \in Names
         /\ live' \in Session /\ tainted' \in BOOLEAN /\ mishaps' \in 0 .. MaxMishaps
         /\ \/ k = NoCall /\ tainted' /\ PartOf(live', live)
            \/ \E p \in Parts :
                  /\ p \in calls[c].todo
                  /\ k.pc = "login" /\ k.kind = "swap" /\ k.uid = calls[c].uid /\ k.name = n
                  /\ k.todo = calls[c].todo \ {p}
                  /\ UNCHANGED tainted
                  /\ \/ Written(n, p) /\ k.torn = calls[c].torn
                     \/ ~Present(n, p) /\ UNCHANGED live /\ k.torn
         /\ UNCHANGED <<descriptor, running, dir, ids, latest, excused, crossed, claim>>
<1> DEFINE n == calls[c].name
<1>1. /\ CallsFit /\ Fits(calls[c]) /\ At(c, "login") /\ calls[c] \in Call
      /\ mishaps \in 0 .. MaxMishaps /\ tainted \in BOOLEAN /\ live \in Session
  BY DEF TypeInv, CallsFit, RestorePart, Fits, PastTyped, LauncherTyped
<1>2. calls[c].kind = "swap" /\ calls[c].uid \in Accounts /\ n \in Names
  BY <1>1 DEF Fits, At, Call, Kinds, Saving
<1>3. UNCHANGED <<descriptor, running, dir, ids, latest, excused, crossed, claim>>
  BY DEF RestorePart, disk
<1>4. PICK p \in Parts :
          /\ Turn(calls[c], p)
          /\ \/ Written(n, p) /\ Smooth /\ Done(c, {p}, FALSE) /\ UNCHANGED tainted
             \/ ~Present(n, p) /\ Smooth /\ Done(c, {p}, TRUE) /\ UNCHANGED <<live, tainted>>
             \/ /\ Smooth \/ Mishap
                /\ Return(c) /\ tainted' = TRUE /\ live' \in {live, Emptied(p)}
  <2>1. PICK p \in Parts :
          /\ Turn(calls[c], p)
          /\ \/ /\ Present(n, p) /\ Smooth /\ Done(c, {p}, FALSE)
                /\ Put(n, p) /\ UNCHANGED tainted
             \/ /\ ~Present(n, p) /\ MaySkip(n, p)
                /\ Smooth /\ Done(c, {p}, TRUE) /\ UNCHANGED <<live, tainted>>
             \/ /\ ~Present(n, p) /\ MayBeEmpty(n, p)
                /\ Smooth /\ Done(c, {p}, FALSE) /\ live' = Emptied(p) /\ UNCHANGED tainted
             \/ /\ ~Present(n, p) /\ ~MaySkip(n, p)
                /\ Smooth /\ Return(c) /\ tainted' = TRUE /\ UNCHANGED live
             \/ /\ Present(n, p) /\ Mishap /\ Return(c) /\ tainted' = TRUE
                /\ live' \in IF Kind(p) \in {"path", "glob"} THEN {live, Emptied(p)} ELSE {live}
    BY DEF RestorePart
  <2> QED
    BY <2>1 DEF Written, MayBeEmpty
<1>5. mishaps' \in 0 .. MaxMishaps /\ tainted' \in BOOLEAN
  <2>1. (Smooth \/ Mishap) /\ tainted' \in {tainted, TRUE}
    BY <1>4
  <2>2. mishaps' \in 0 .. MaxMishaps
    BY <1>1, <2>1 DEF Smooth, Mishap
  <2>3. tainted' \in BOOLEAN
    BY <1>1, <2>1
  <2> QED
    BY <2>2, <2>3
<1>6. CASE Return(c) /\ tainted' = TRUE /\ live' \in {live, Emptied(p)}
  <2>1. CallsFit' /\ calls'[c] = NoCall /\ Others(c)
    BY <1>1, <1>6, ReturnSays
  <2>2. PartOf(live', live) /\ live' \in Session
    BY <1>6, EmptiedSays DEF PartOf
  <2> QED
    BY <1>1, <1>2, <1>3, <1>5, <1>6, <2>1, <2>2
<1>7. CASE ~(Return(c) /\ tainted' = TRUE /\ live' \in {live, Emptied(p)})
  <2>1. PICK left \in BOOLEAN :
          /\ Done(c, {p}, left) /\ UNCHANGED tainted
          /\ \/ Written(n, p) /\ left = FALSE
             \/ ~Present(n, p) /\ UNCHANGED live /\ left = TRUE
    BY <1>4, <1>7
  <2> DEFINE k == [calls[c] EXCEPT !.todo = calls[c].todo \ {p}, !.torn = (calls[c].torn \/ left)]
  <2>2. /\ k \in Call /\ k.pc = "login" /\ k.kind = "swap" /\ k.uid = calls[c].uid /\ k.name = n
        /\ k.todo = calls[c].todo \ {p} /\ k.torn = (calls[c].torn \/ left) /\ calls[c].torn \in BOOLEAN
    BY <1>1, <1>2 DEF Call, At
  <2>3. calls' = [calls EXCEPT ![c] = k]
    BY <1>1, <2>1 DEF Done, CallsFit
  <2> HIDE DEF k
  <2>4. Fits(k)
    BY <1>2, <2>2 DEF Fits, Saving
  <2>5. calls' \in [Callers -> Call] /\ calls'[c] = k /\ Others(c)
    BY <1>1, <2>2, <2>3, CallGoesOn
  <2>6. CallsFit'
    BY <1>1, <2>4, <2>5, OthersFit
  <2>7. live' \in Session
    BY <1>1, <1>2, <2>1, WrittenSays
  <2>8. p \in calls[c].todo
    BY <1>4 DEF Turn
  <2>9. \/ Written(n, p) /\ k.torn = calls[c].torn
        \/ ~Present(n, p) /\ UNCHANGED live /\ k.torn
    BY <2>1, <2>2
  <2> QED
    BY <1>1, <1>2, <1>3, <1>5, <2>1, <2>2, <2>5, <2>6, <2>7, <2>8, <2>9
<1> QED
  BY <1>6, <1>7

(* A call that drops what failed goes on with less of a session.             *)
LEMMA RestoreDropsSays ==
  ASSUME TypeInv, NEW c \in Callers, RestoreDrops(c)
  PROVE  LET k == calls'[c] IN
         /\ At(c, "login") /\ CallsFit' /\ Others(c)
         /\ k.pc = "login" /\ k.kind = "swap" /\ k.uid = calls[c].uid /\ k.name = calls[c].name /\ k.torn
         /\ calls[c].kind = "swap" /\ calls[c].uid \in Accounts /\ calls[c].name \in Names
         /\ PartOf(live', live) /\ live' \in Session /\ tainted' = TRUE /\ mishaps' \in 0 .. MaxMishaps
         /\ UNCHANGED <<descriptor, running, dir, ids, latest, excused, crossed, claim>>
<1>1. /\ CallsFit /\ Fits(calls[c]) /\ At(c, "login") /\ calls[c] \in Call
      /\ mishaps \in 0 .. MaxMishaps /\ live \in Session
  BY DEF TypeInv, CallsFit, RestoreDrops, Fits, PastTyped, LauncherTyped
<1>2. calls[c].kind = "swap" /\ calls[c].uid \in Accounts /\ calls[c].name \in Names
  BY <1>1 DEF Fits, At, Call, Kinds, Saving
<1>3. /\ mishaps' \in 0 .. MaxMishaps /\ tainted' = TRUE
      /\ UNCHANGED <<descriptor, running, dir, ids, latest, excused, crossed, claim>>
  BY <1>1 DEF RestoreDrops, Mishap, disk
<1>4. PICK lost : Done(c, lost, TRUE) /\ \E broken \in SUBSET lost : live' = Only(live, Parts \ broken)
  BY DEF RestoreDrops
<1>5. PartOf(live', live) /\ live' \in Session
  BY <1>1, <1>4, OnlySays DEF PartOf
<1> DEFINE k == [calls[c] EXCEPT !.todo = calls[c].todo \ lost, !.torn = (calls[c].torn \/ TRUE)]
<1>6. k \in Call /\ k.pc = "login" /\ k.kind = "swap" /\ k.uid = calls[c].uid /\ k.name = calls[c].name /\ k.torn
  BY <1>1, <1>2 DEF Call, At
<1>7. calls' = [calls EXCEPT ![c] = k]
  BY <1>1, <1>4 DEF Done, CallsFit
<1> HIDE DEF k
<1>8. Fits(k)
  BY <1>2, <1>6 DEF Fits, Saving
<1>9. calls' \in [Callers -> Call] /\ calls'[c] = k /\ Others(c)
  BY <1>1, <1>6, <1>7, CallGoesOn
<1>10. CallsFit'
  BY <1>1, <1>8, <1>9, OthersFit
<1> QED
  BY <1>1, <1>2, <1>3, <1>5, <1>6, <1>9, <1>10

LEMMA RestoredSays ==
  ASSUME TypeInv, NEW c \in Callers, Restored(c)
  PROVE  LET k == calls'[c] IN
         /\ At(c, "login") /\ calls[c].todo = {} /\ CallsFit' /\ Others(c) /\ SameAs(k, calls[c]) /\ k.pc = "last"
         /\ calls[c].kind = "swap" /\ calls[c].uid \in Accounts /\ calls[c].name \in Names
         /\ tainted' = (calls[c].uid \in crossed \/ (tainted /\ calls[c].torn))
         /\ UNCHANGED <<descriptor, live, running, dir, ids, latest, excused, crossed, claim, mishaps>>
<1>1. CallsFit /\ Fits(calls[c]) /\ At(c, "login") /\ calls[c] \in Call /\ Goto(c, "last") /\ "last" \in Stages
  BY DEF TypeInv, CallsFit, Restored, Fits, Stages
<1>2. calls[c].kind = "swap" /\ calls[c].uid \in Accounts /\ calls[c].name \in Names
  BY <1>1 DEF Fits, At, Call, Kinds, Saving
<1>3. /\ calls' \in [Callers -> Call] /\ Others(c)
      /\ calls'[c].pc = "last" /\ SameAs(calls'[c], calls[c]) /\ calls'[c] \in Call
  BY <1>1, GotoSays
<1>4. Fits(calls'[c])
  BY <1>1, <1>2, <1>3 DEF Fits, SameAs, Saving
<1>5. CallsFit'
  BY <1>1, <1>3, <1>4, OthersFit
<1> QED
  BY <1>1, <1>2, <1>3, <1>5 DEF Restored, disk

LEMMA LaunchSays ==
  ASSUME TypeInv, NEW c \in Callers, Launch(c)
  PROVE  /\ At(c, "launch") /\ CallsFit' /\ Others(c) /\ calls'[c] = NoCall
         /\ running' \in BOOLEAN
         /\ claim' = IF calls[c].kind = "swap" THEN calls[c].uid ELSE claim
         /\ calls[c].kind = "swap" => calls[c].uid \in Accounts
         /\ UNCHANGED <<descriptor, live, dir, ids, latest, excused, crossed, tainted, mishaps>>
<1>1. CallsFit /\ Fits(calls[c]) /\ Return(c) /\ running \in BOOLEAN
  BY DEF TypeInv, CallsFit, Launch, LauncherTyped
<1>2. CallsFit' /\ calls'[c] = NoCall /\ Others(c)
  BY <1>1, ReturnSays
<1>3. calls[c].kind = "swap" => calls[c].uid \in Accounts
  BY <1>1 DEF Fits
<1> QED
  BY <1>1, <1>2, <1>3 DEF Launch, disk, history

LEMMA RemoveSaveSays ==
  ASSUME TypeInv, NEW c \in Callers, RemoveSave(c)
  PROVE  /\ At(c, "remove") /\ CallsFit' /\ Others(c) /\ calls'[c] = NoCall
         /\ calls[c].kind = "forget" /\ calls[c].old \in Names
         /\ dir' \in {dir, [dir EXCEPT ![calls[c].old] = None]} /\ dir' \in [Names -> Session \cup {None}]
         /\ mishaps' \in 0 .. MaxMishaps
         /\ UNCHANGED <<descriptor, live, running, ids, latest, excused, crossed, tainted, claim>>
<1>1. /\ CallsFit /\ Fits(calls[c]) /\ calls[c] \in Call /\ Return(c) /\ At(c, "remove")
      /\ mishaps \in 0 .. MaxMishaps /\ dir \in [Names -> Session \cup {None}]
  BY DEF TypeInv, CallsFit, RemoveSave, PastTyped, DiskTyped, Fits
<1>2. CallsFit' /\ calls'[c] = NoCall /\ Others(c)
  BY <1>1, ReturnSays
<1>3. calls[c].kind = "forget" /\ calls[c].old \in Names
  BY <1>1 DEF Fits, At, Call, Kinds, Saving
<1>4. mishaps' \in 0 .. MaxMishaps /\ dir' \in {dir, [dir EXCEPT ![calls[c].old] = None]}
  BY <1>1 DEF RemoveSave, Smooth, Mishap
<1> QED
  BY <1>1, <1>2, <1>3, <1>4 DEF RemoveSave, history

LEMMA MoveSaveSays ==
  ASSUME TypeInv, NEW c \in Callers, MoveSave(c)
  PROVE  LET k == calls[c] IN
         /\ At(c, "move") /\ CallsFit' /\ Others(c) /\ calls'[c] = NoCall
         /\ k.kind = "rename" /\ k.of \in Accounts /\ k.old \in Names /\ k.name \in Names
         /\ \/ /\ dir[k.old] # None /\ dir[k.name] = None
               /\ dir' = [dir EXCEPT ![k.name] = dir[k.old], ![k.old] = None]
               /\ UNCHANGED <<excused, crossed>>
            \/ /\ excused' = excused \cup {k.of} /\ crossed' = crossed \cup {k.of}
               /\ UNCHANGED dir
         /\ dir' \in [Names -> Session \cup {None}]
         /\ mishaps' \in 0 .. MaxMishaps
         /\ UNCHANGED <<descriptor, live, running, ids, latest, tainted, claim>>
<1>1. /\ CallsFit /\ Fits(calls[c]) /\ calls[c] \in Call /\ Return(c) /\ At(c, "move")
      /\ mishaps \in 0 .. MaxMishaps /\ dir \in [Names -> Session \cup {None}]
  BY DEF TypeInv, CallsFit, MoveSave, PastTyped, DiskTyped, Fits
<1>2. CallsFit' /\ calls'[c] = NoCall /\ Others(c)
  BY <1>1, ReturnSays
<1>3. /\ calls[c].kind = "rename" /\ calls[c].of \in Accounts /\ calls[c].old \in Names
      /\ calls[c].name \in Names
  BY <1>1 DEF Fits, At, Call, Kinds, Saving
<1>4. /\ \/ /\ dir[calls[c].old] # None /\ dir[calls[c].name] = None
            /\ dir' = [dir EXCEPT ![calls[c].name] = dir[calls[c].old], ![calls[c].old] = None]
            /\ UNCHANGED <<excused, crossed>>
         \/ /\ excused' = excused \cup {calls[c].of} /\ crossed' = crossed \cup {calls[c].of}
            /\ UNCHANGED dir
      /\ mishaps' \in 0 .. MaxMishaps
  BY <1>1 DEF MoveSave, Smooth, Mishap
<1>5. dir' \in [Names -> Session \cup {None}]
  BY <1>1, <1>3, <1>4
<1> QED
  BY <1>1, <1>2, <1>3, <1>4, <1>5 DEF MoveSave

LEMMA CrashSays ==
  ASSUME TypeInv, Crash
  PROVE  /\ CallsFit' /\ \A c \in Callers : calls'[c] = NoCall
         /\ claim' = None /\ mishaps' \in 0 .. MaxMishaps
         /\ tainted' = (tainted \/ \E c \in Callers : At(c, "login"))
         /\ \E moved \in SUBSET Accounts :
               /\ moved = {calls[c].of : c \in {d \in Callers : At(d, "move")}}
               /\ excused' = excused \cup moved /\ crossed' = crossed \cup moved
         /\ UNCHANGED <<descriptor, live, running, dir, ids, latest>>
<1>1. /\ CallsFit /\ mishaps \in 0 .. MaxMishaps
  BY DEF TypeInv, PastTyped
<1>2. \A c \in Callers : calls'[c] = NoCall
  BY DEF Crash
<1>3. CallsFit'
  BY NoCallSays DEF Crash, CallsFit
<1>4. {calls[c].of : c \in {d \in Callers : At(d, "move")}} \in SUBSET Accounts
  <2>1. ASSUME NEW c \in Callers, At(c, "move")
        PROVE  calls[c].of \in Accounts
    BY <1>1, <2>1 DEF CallsFit, Fits, At, Call, Kinds, Saving
  <2> QED
    BY <2>1
<1>5. mishaps' \in 0 .. MaxMishaps
  BY <1>1 DEF Crash, Mishap
<1> DEFINE moved == {calls[c].of : c \in {d \in Callers : At(d, "move")}}
<1>6. excused' = excused \cup moved /\ crossed' = crossed \cup moved
  BY DEF Crash
<1>7. /\ claim' = None /\ tainted' = (tainted \/ \E c \in Callers : At(c, "login"))
      /\ UNCHANGED <<descriptor, live, running, dir, ids, latest>>
  BY DEF Crash, disk
<1> HIDE DEF moved
<1>8. \E m \in SUBSET Accounts : m = moved /\ excused' = excused \cup m /\ crossed' = crossed \cup m
  BY <1>4, <1>6 DEF moved
<1> QED
  BY <1>2, <1>3, <1>5, <1>7, <1>8 DEF moved

LEMMA SignInSays ==
  ASSUME TypeInv, NEW a \in Accounts, SignIn(a)
  PROVE  /\ live' \in Session /\ latest' \in [Accounts -> 0 .. MaxSessions]
         /\ running /\ live'.id = a /\ \A f \in Files : live'.files[f] = <<a, latest'[a]>>
         /\ \A b \in Accounts : ~NewestOf(live, b)
         /\ latest'[a] # 0 /\ \A b \in Accounts \ {a} : latest'[b] = latest[b]
         /\ excused' = excused \ {a} /\ tainted' = FALSE /\ claim' = None
         /\ UNCHANGED <<descriptor, running, dir, ids, calls, crossed, mishaps>>
<1>1. /\ latest \in [Accounts -> 0 .. MaxSessions] /\ latest[a] \in Nat /\ latest[a] < MaxSessions
      /\ latest' = [latest EXCEPT ![a] = latest[a] + 1]
  BY DEF SignIn, TypeInv, PastTyped
<1>2. latest[a] + 1 \in 1 .. MaxSessions
  BY <1>1
<1>3. /\ latest' \in [Accounts -> 0 .. MaxSessions] /\ latest'[a] = latest[a] + 1
      /\ \A b \in Accounts \ {a} : latest'[b] = latest[b]
  BY <1>1, <1>2
<1>4. <<a, latest[a] + 1>> \in Token
  BY <1>2 DEF Token
<1>5. live' = [id |-> a, files |-> [f \in Files |-> <<a, latest[a] + 1>>]]
  BY DEF SignIn
<1>6. live' \in Session
  BY <1>4, <1>5 DEF Session
<1>7. live'.id = a /\ \A f \in Files : live'.files[f] = <<a, latest'[a]>>
  BY <1>3, <1>5
<1>8. latest'[a] # 0
  BY <1>1, <1>3
<1> QED
  BY <1>3, <1>6, <1>7, <1>8 DEF SignIn, disk

LEMMA RotateSays ==
  ASSUME TypeInv, Rotate
  PROVE  \E a \in Accounts :
         /\ live' \in Session /\ latest' \in [Accounts -> 0 .. MaxSessions]
         /\ running /\ live.id = a /\ live'.id = a /\ \A f \in Files : live'.files[f] = <<a, latest'[a]>>
         /\ latest'[a] # 0 /\ \A b \in Accounts \ {a} : latest'[b] = latest[b]
         /\ excused' = excused \ {a} /\ claim' = None
         /\ UNCHANGED <<descriptor, running, dir, ids, calls, crossed, tainted, mishaps>>
<1>1. PICK a \in Accounts :
          /\ NewestOf(live, a) /\ latest[a] < MaxSessions
          /\ latest' = [latest EXCEPT ![a] = latest[a] + 1]
          /\ live' = [live EXCEPT !.files = [f \in Files |-> <<a, latest[a] + 1>>]]
          /\ excused' = excused \ {a}
  BY DEF Rotate
<1>2. latest \in [Accounts -> 0 .. MaxSessions] /\ latest[a] \in Nat /\ latest[a] + 1 \in 1 .. MaxSessions /\ live \in Session
  BY <1>1 DEF TypeInv, PastTyped, LauncherTyped
<1>3. /\ latest' \in [Accounts -> 0 .. MaxSessions] /\ latest'[a] = latest[a] + 1
      /\ \A b \in Accounts \ {a} : latest'[b] = latest[b]
  BY <1>1, <1>2
<1>4. <<a, latest[a] + 1>> \in Token
  BY <1>2 DEF Token
<1>5. live' \in Session /\ live'.id = live.id /\ live.id = a /\ \A f \in Files : live'.files[f] = <<a, latest'[a]>>
  BY <1>1, <1>2, <1>3, <1>4 DEF Session, NewestOf
<1>6. latest'[a] # 0
  BY <1>2, <1>3
<1> QED
  BY <1>1, <1>3, <1>5, <1>6 DEF Rotate, disk

LEMMA SignOutSays ==
  ASSUME TypeInv, SignOut
  PROVE  \E a \in Accounts :
         /\ live.id = a /\ excused' = excused \cup {a}
         /\ live' = SignedOut /\ live' \in Session /\ claim' = None /\ running
         /\ UNCHANGED <<descriptor, running, dir, ids, calls, latest, crossed, tainted, mishaps>>
  BY DEF SignOut, NewestOf, SignedOut, Session, disk
-----------------------------------------------------------------------------
LEMMA TypesInitial == Init => TypeInv
<1> SUFFICES ASSUME Init
             PROVE  TypeInv
  OBVIOUS
<1>1. CallsFit
  BY NoCallSays DEF Init, CallsFit
<1>2. LauncherTyped
  BY DEF Init, LauncherTyped, SignedOut, Session
<1>3. DiskTyped
  BY DEF Init, DiskTyped, NoIndex, Index
<1>4. PastTyped
  <2>1. 0 \in 0 .. MaxSessions /\ 0 \in 0 .. MaxMishaps
    OBVIOUS
  <2>2. latest \in [Accounts -> 0 .. MaxSessions]
    BY <2>1 DEF Init
  <2>3. mishaps \in 0 .. MaxMishaps
    BY <2>1 DEF Init
  <2>4. /\ excused \subseteq Accounts /\ crossed \subseteq Accounts /\ tainted \in BOOLEAN
        /\ claim \in Accounts \cup {None}
    BY DEF Init
  <2> QED
    BY <2>2, <2>3, <2>4 DEF PastTyped
<1> QED
  BY <1>1, <1>2, <1>3, <1>4 DEF TypeInv

LEMMA EndsTyped ==
  ASSUME TypeInv, NEW c \in Callers, Ends(c)
  PROVE  TypeInv'
<1>1. CallsFit'
  BY ReturnSays DEF Ends, TypeInv
<1> QED
  BY <1>1 DEF Ends, TypeInv, LauncherTyped, DiskTyped, PastTyped

LEMMA RestTyped ==
  ASSUME TypeInv, CallsFit', UNCHANGED <<descriptor, live, dir, ids, latest, excused, crossed, tainted>>,
         running' \in BOOLEAN, claim' \in Accounts \cup {None}, mishaps' \in 0 .. MaxMishaps
  PROVE  TypeInv'
  BY DEF TypeInv, LauncherTyped, DiskTyped, PastTyped

LEMMA TypesStep == TypeInv /\ [Next]_vars => TypeInv'
<1> SUFFICES ASSUME TypeInv, [Next]_vars
             PROVE  TypeInv'
  OBVIOUS
<1>1. CallsFit /\ LauncherTyped /\ DiskTyped /\ PastTyped
  BY DEF TypeInv
<1>2. CASE UNCHANGED vars
  BY <1>1, <1>2 DEF vars, TypeInv, CallsFit, LauncherTyped, DiskTyped, PastTyped
<1>3. ASSUME NEW a \in Accounts, SignIn(a)
      PROVE  TypeInv'
  BY <1>1, <1>3, SignInSays DEF TypeInv, CallsFit, LauncherTyped, DiskTyped, PastTyped
<1>4. CASE Rotate
  BY <1>1, <1>4, RotateSays DEF TypeInv, CallsFit, LauncherTyped, DiskTyped, PastTyped
<1>5. CASE SignOut
  BY <1>1, <1>5, SignOutSays DEF TypeInv, CallsFit, LauncherTyped, DiskTyped, PastTyped
<1>6. CASE StartLauncher
  BY <1>1, <1>6 DEF StartLauncher, disk, history, TypeInv, CallsFit, LauncherTyped, DiskTyped, PastTyped
<1>7. ASSUME NEW a \in Accounts, ForgetAccount(a)
      PROVE  TypeInv'
  BY <1>1, <1>7, ForgetAccountSays, RestTyped DEF Untouched, LauncherTyped, PastTyped, disk, history
<1>8. ASSUME NEW c \in Callers, NEW a \in Accounts, NEW args \in BOOLEAN, SwapTo(c, a, args)
      PROVE  TypeInv'
  <2>1. CallsFit'
    BY <1>1, <1>8, SwapToSays DEF CallsFit, SwapBegun
  <2> QED
    <3>1. claim' \in {None, a} /\ mishaps' \in 0 .. MaxMishaps
          /\ UNCHANGED <<descriptor, live, running, dir, ids, latest, excused, crossed, tainted>>
      BY <1>8, SwapToSays DEF SwapBegun
    <3> QED
      BY <1>1, <2>1, <3>1, RestTyped DEF LauncherTyped, PastTyped
<1>9. ASSUME NEW c \in Outsiders, Logout(c)
      PROVE  TypeInv'
  BY <1>1, <1>9, LogoutSays, RestTyped DEF Untouched, LauncherTyped, PastTyped, disk, history, Callers
<1>10. ASSUME NEW n \in Names, SaveCurrent(n)
       PROVE  TypeInv'
  BY <1>1, <1>10, SaveCurrentSays, RestTyped DEF Untouched, LauncherTyped, PastTyped, disk, history
<1>11. CASE AddNew
  BY <1>1, <1>11, AddNewSays, RestTyped DEF Untouched, LauncherTyped, PastTyped, disk, history
<1>12. ASSUME NEW a \in Accounts, NEW n \in Names, RenameAccount(a, n)
       PROVE  TypeInv'
  BY <1>1, <1>12, RenameAccountSays, RestTyped DEF Untouched, LauncherTyped, PastTyped, disk, history
<1>13. ASSUME NEW c \in Callers, Kill(c)
       PROVE  TypeInv'
  BY <1>1, <1>13, KillSays, EndsTyped, RestTyped DEF PastTyped
<1>14. ASSUME NEW c \in Callers, CommitSave(c)
       PROVE  TypeInv'
  <2>1. CASE Ends(c)
    BY <2>1, EndsTyped
  <2>2. CASE ~Ends(c)
    <3>1. /\ CallsFit' /\ live.id \in Accounts
          /\ \E s \in Session : dir' = [dir EXCEPT ![calls[c].old] = s]
      BY <1>14, <2>2, CommitSaveSays
    <3>2. DiskTyped' /\ LauncherTyped'
      BY <1>1, <1>14, <2>2, <3>1, CommitSaveSays DEF DiskTyped, LauncherTyped
    <3>3. PastTyped'
      BY <1>1, <1>14, <2>2, CommitSaveSays DEF PastTyped
    <3> QED
      BY <3>1, <3>2, <3>3 DEF TypeInv
  <2> QED
    BY <2>1, <2>2
<1>15. ASSUME NEW c \in Callers, ReadIds(c)
       PROVE  TypeInv'
  BY <1>1, <1>15, ReadIdsSays, RestTyped DEF LauncherTyped, PastTyped
<1>16. ASSUME NEW c \in Callers, WriteIds(c)
       PROVE  TypeInv'
  <2>1. CASE Ends(c)
    BY <2>1, EndsTyped
  <2>2. CASE ~Ends(c)
    <3>1. CallsFit' /\ DiskTyped' /\ LauncherTyped'
      BY <1>1, <1>16, <2>2, WriteIdsSays DEF DiskTyped, LauncherTyped
    <3>2. PastTyped'
      BY <1>1, <1>16, <2>2, WriteIdsSays DEF PastTyped
    <3> QED
      BY <3>1, <3>2 DEF TypeInv
  <2> QED
    BY <2>1, <2>2
<1>17. ASSUME NEW c \in Callers, WriteLastUsed(c)
       PROVE  TypeInv'
  <2>1. CASE Ends(c)
    BY <2>1, EndsTyped
  <2>2. CASE ~Ends(c)
    BY <1>1, <1>17, <2>2, WriteLastUsedSays DEF TypeInv, DiskTyped, LauncherTyped, PastTyped
  <2> QED
    BY <2>1, <2>2
<1>18. ASSUME NEW c \in Callers, ClearCurrentLogin(c)
       PROVE  TypeInv'
  BY <1>1, <1>18, ClearCurrentLoginSays DEF TypeInv, DiskTyped, LauncherTyped, PastTyped
<1>19. ASSUME NEW c \in Callers, RestorePart(c)
       PROVE  TypeInv'
  BY <1>1, <1>19, RestorePartSays DEF TypeInv, DiskTyped, LauncherTyped, PastTyped
<1>20. ASSUME NEW c \in Callers, Restored(c)
       PROVE  TypeInv'
  BY <1>1, <1>20, RestoredSays DEF TypeInv, DiskTyped, LauncherTyped, PastTyped
<1>21. ASSUME NEW c \in Callers, Launch(c)
       PROVE  TypeInv'
  BY <1>1, <1>21, LaunchSays, RestTyped DEF PastTyped
<1>22. ASSUME NEW c \in Callers, RemoveSave(c)
       PROVE  TypeInv'
  BY <1>1, <1>22, RemoveSaveSays DEF TypeInv, DiskTyped, LauncherTyped, PastTyped
<1>23. ASSUME NEW c \in Callers, MoveSave(c)
       PROVE  TypeInv'
  <2>1. PastTyped'
    BY <1>1, <1>23, MoveSaveSays DEF PastTyped
  <2> QED
    BY <1>1, <1>23, <2>1, MoveSaveSays DEF TypeInv, DiskTyped, LauncherTyped
<1>24. CASE Crash
  <2>1. PastTyped'
    BY <1>1, <1>24, CrashSays DEF PastTyped
  <2> QED
    BY <1>1, <1>24, <2>1, CrashSays DEF TypeInv, DiskTyped, LauncherTyped
<1>25. ASSUME NEW c \in Callers, RestoreDrops(c)
       PROVE  TypeInv'
  BY <1>1, <1>25, RestoreDropsSays DEF TypeInv, DiskTyped, LauncherTyped, PastTyped
<1> QED
  BY <1>2, <1>3, <1>4, <1>5, <1>6, <1>7, <1>8, <1>9, <1>10, <1>11, <1>12, <1>13, <1>14, <1>15, <1>16,
     <1>17, <1>18, <1>19, <1>20, <1>21, <1>22, <1>23, <1>24, <1>25 DEF Next, CallStep

-----------------------------------------------------------------------------
(* One call at a time: the others are idle, and an idle call has nothing to  *)
(* keep.                                                                     *)
LEMMA OnlyCall ==
  ASSUME TypeInv, Alone, NEW c \in Callers, Others(c), ~Idle(c) \/ AllIdle
  PROVE  Alone' /\ \A d \in Callers \ {c} : calls[d] = NoCall /\ calls'[d] = NoCall
<1>1. ASSUME NEW d \in Callers \ {c}
      PROVE  calls[d] = NoCall /\ calls'[d] = NoCall
  <2>1. Idle(d)
    BY DEF Alone, AllIdle
  <2> QED
    BY <2>1 DEF Idle, TypeInv, CallsFit, Fits, Others
<1>2. Alone'
  BY <1>1, NoCallSays DEF Alone, Idle
<1> QED
  BY <1>1, <1>2

LEMMA NoCallFlows == Flows(NoCall) /\ (Flows(NoCall))'
<1>1. NoCall.kind = "none" /\ NoCall.pc = "idle"
  BY NoCallSays
<1>2. Flows(NoCall)
  BY <1>1 DEF Flows, Stopped, ReadFits, SwapFits, SaveFits, ForgetFits, RenameFits, LoginFits, LastFits
<1>3. (Flows(NoCall))'
  BY <1>1 DEF Flows, Stopped, ReadFits, SwapFits, SaveFits, ForgetFits, RenameFits, LoginFits, LastFits
<1> QED
  BY <1>2, <1>3

LEMMA FlowsAre ==
  ASSUME NEW c, NEW CONSTANT k, calls'[c] = k, (Flows(k))'
  PROVE  (Flows(calls[c]))'
  BY DEF Flows, Stopped, ReadFits, SwapFits, SaveFits, ForgetFits, RenameFits, LoginFits, LastFits,
     Copied, Overwritten, SavedId, SavedFile

LEMMA OneFlows ==
  ASSUME NEW c \in Callers, \A d \in Callers \ {c} : calls'[d] = NoCall, (Flows(calls[c]))'
  PROVE  FlowFits'
<1> SUFFICES ASSUME NEW d \in Callers
             PROVE  (Flows(calls[d]))'
  BY DEF FlowFits
<1>1. CASE d = c
  BY <1>1
<1>2. CASE d # c
  <2>1. calls'[d] = NoCall
    BY <1>2
  <2> QED
    BY <2>1, NoCallFlows, FlowsAre
<1> QED
  BY <1>1, <1>2

LEMMA NobodyFlows ==
  ASSUME \A c \in Callers : calls'[c] = NoCall
  PROVE  FlowFits' /\ Alone' /\ AllIdle'
<1>1. ASSUME NEW c \in Callers
      PROVE  (Flows(calls[c]))'
  <2>1. calls'[c] = NoCall
    OBVIOUS
  <2> QED
    BY <2>1, NoCallFlows, FlowsAre
<1>2. Alone' /\ AllIdle'
  BY NoCallSays DEF Alone, AllIdle, Idle
<1> QED
  BY <1>1, <1>2 DEF FlowFits

LEMMA IdleIsNoCall == TypeInv /\ AllIdle => \A c \in Callers : calls[c] = NoCall
  BY DEF TypeInv, CallsFit, Fits, AllIdle, Idle

(* Nothing happens to any session.                                           *)
LEMMA StandingRests ==
  ASSUME TypeInv, Standing, UNCHANGED <<live, dir, ids, latest, excused, crossed>>, tainted => tainted',
         \A c \in Callers : At(c, "move") => calls'[c].pc = "move" /\ calls'[c].of = calls[c].of,
         tainted' \/ \A c \in Callers : At(c, "login") => calls'[c].pc = "login"
  PROVE  Standing'
<1>1. Issued' /\ NamesDiffer'
  BY DEF Standing, Issued, NamesDiffer, Listed
<1>2. LiveFits'
  BY DEF Standing, LiveFits, At, NewestOf, OwnOf
<1>3. \A a \in Accounts : Moving(a) => Moving(a)'
  BY DEF Moving, At
<1>4. SessionsKept'
  BY <1>3 DEF Standing, SessionsKept, Listed, NewestOf
<1>5. SaveIsOwn'
  BY <1>3 DEF Standing, SaveIsOwn, Listed
<1> QED
  BY <1>1, <1>2, <1>4, <1>5 DEF Standing

LEMMA EndsFlow ==
  ASSUME FlowInv, NEW c \in Callers, Ends(c), ~Idle(c), ~At(c, "move"), ~At(c, "login")
  PROVE  Standing' /\ Alone' /\ FlowFits' /\ ClaimFits'
<1>1. TypeInv /\ Alone /\ Standing /\ ClaimFits /\ CallsFit
  BY DEF FlowInv, TypeInv
<1>2. calls'[c] = NoCall /\ Others(c)
  BY <1>1, ReturnSays DEF Ends
<1>3. \A d \in Callers \ {c} : calls[d] = NoCall /\ calls'[d] = NoCall
  BY <1>1, <1>2, OnlyCall
<1>4. FlowFits' /\ Alone' /\ AllIdle'
  BY <1>2, <1>3, NobodyFlows
<1>5. Standing'
  BY <1>1, <1>3, NoCallSays, StandingRests DEF Ends, At
<1>6. ClaimFits'
  BY <1>1 DEF ClaimFits, Ends, AllIdle
<1> QED
  BY <1>4, <1>5, <1>6
-----------------------------------------------------------------------------
(* The launcher and its user.  A launcher that runs meets no call that       *)
(* replaces the session.                                                     *)
LEMMA RunningMeets ==
  ASSUME TypeInv, FlowFits, running, NEW c \in Callers
  PROVE  LET k == calls[c] IN
         /\ k.kind \in {"swap", "save", "add"} => k.pc = "kill"
         /\ k.pc # "login"
<1>1. Fits(calls[c]) /\ Stopped(calls[c]) /\ calls[c] \in Call
  BY DEF TypeInv, CallsFit, FlowFits, Flows, Fits
<1> QED
  BY <1>1, NoCallSays DEF Fits, Stopped, Call, Kinds, Saving

LEMMA RenewedFlow ==
  ASSUME FlowInv, running, NEW a \in Accounts, live' \in Session, live'.id = a,
         \A f \in Files : live'.files[f] = <<a, latest'[a]>>, latest'[a] # 0,
         \A b \in Accounts \ {a} : latest'[b] = latest[b] /\ ~NewestOf(live, b),
         excused' = excused \ {a}, claim' = None,
         UNCHANGED <<descriptor, running, dir, ids, calls, crossed>>
  PROVE  Standing' /\ Alone' /\ FlowFits' /\ ClaimFits'
<1>1. TypeInv /\ Alone /\ Standing /\ FlowFits
  BY DEF FlowInv
<1>2. (NewestOf(live, a))' /\ (\E b \in Accounts \cup {None} : OwnOf(live, b))'
  <2>1. (NewestOf(live, a))' /\ (OwnOf(live, a))'
    BY DEF NewestOf, OwnOf, Session
  <2> QED
    BY <2>1
<1>3. \A b \in Accounts \ {a} : \A n \in Names : NewestOf(dir[n], b) => (NewestOf(dir[n], b))'
  BY DEF NewestOf
<1>4. \A b \in Accounts : latest[b] # 0 => latest'[b] # 0
  OBVIOUS
<1>5. Issued'
  <2>1. \A n \in Names : dir[n] # None /\ dir[n].id # None => dir[n].id \in Accounts
    BY <1>1 DEF TypeInv, DiskTyped, Session
  <2> QED
    BY <1>1, <1>4, <2>1 DEF Standing, Issued, Listed
<1>6. NamesDiffer' /\ LiveFits' /\ Alone' /\ ClaimFits'
  BY <1>1, <1>2 DEF Standing, NamesDiffer, LiveFits, Listed, Alone, Idle, ClaimFits
<1>7. \A b \in Accounts : Moving(b)' <=> Moving(b)
  BY DEF Moving, At
<1>8. SessionsKept'
  <2> SUFFICES ASSUME NEW b \in Accounts, ids[b] # None, b \notin excused'
               PROVE  Moving(b)' \/ (NewestOf(live, b))' \/ (NewestOf(dir[ids[b]], b))'
    BY DEF SessionsKept, Listed
  <2>1. CASE b = a
    BY <1>2, <2>1
  <2>2. CASE b # a
    <3>1. ids[b] \in Names
      BY <1>1 DEF TypeInv, DiskTyped, Index
    <3>2. Moving(b) \/ NewestOf(dir[ids[b]], b)
      BY <1>1, <2>2 DEF Standing, SessionsKept, Listed
    <3>3. NewestOf(dir[ids[b]], b) => (NewestOf(dir[ids[b]], b))'
      BY <2>2 DEF NewestOf
    <3> QED
      BY <1>7, <3>2, <3>3
  <2> QED
    BY <2>1, <2>2
<1>9. SaveIsOwn'
  BY <1>1, <1>7 DEF Standing, SaveIsOwn, Listed
<1>10. FlowFits'
  <2> SUFFICES ASSUME NEW c \in Callers
               PROVE  (Flows(calls[c]))'
    BY DEF FlowFits
  <2>0. PICK k : k = calls[c] /\ calls'[c] = k
    OBVIOUS
  <2>1. Flows(k) /\ k \in Call /\ Fits(k)
    BY <1>1, <2>0 DEF FlowFits, TypeInv, CallsFit, Fits
  <2>2. /\ k.kind \in {"swap", "save", "add"} => k.pc = "kill"
        /\ k.pc # "login"
    BY <1>1, <2>0, RunningMeets
  <2>3. k.kind = "rename" /\ k.pc = "move" =>
          k.of \in excused' \/ (NewestOf(live, k.of))' \/ (NewestOf(dir[k.old], k.of))'
    <3> SUFFICES ASSUME k.kind = "rename", k.pc = "move", k.of # a, k.of \notin excused
                 PROVE  (NewestOf(dir[k.old], k.of))'
      BY <1>2
    <3>1. k.of \in Accounts /\ k.old \in Names
      BY <2>1 DEF Fits
    <3>2. NewestOf(dir[k.old], k.of)
      BY <2>1, <3>1 DEF Flows, RenameFits
    <3> QED
      BY <3>1, <3>2 DEF NewestOf
  <2>4. (Stopped(k) /\ ReadFits(k) /\ SwapFits(k) /\ ForgetFits(k))'
    BY <2>1 DEF Flows, Stopped, ReadFits, SwapFits, ForgetFits, SaveAs, Listed
  <2>5. (SaveFits(k) /\ LoginFits(k) /\ LastFits(k))'
    BY <2>2 DEF SaveFits, LoginFits, LastFits, Saving
  <2>6. (RenameFits(k))'
    BY <2>1, <2>3 DEF Flows, RenameFits, OwnOf
  <2>7. (Flows(k))'
    BY <2>4, <2>5, <2>6 DEF Flows
  <2> QED
    BY <2>0, <2>7, FlowsAre
<1> QED
  BY <1>5, <1>6, <1>8, <1>9, <1>10 DEF Standing

LEMMA SignOutFlow ==
  ASSUME FlowInv, running, NEW a \in Accounts, live.id = a, excused' = excused \cup {a},
         live' = SignedOut, claim' = None,
         UNCHANGED <<descriptor, running, dir, ids, calls, latest, crossed, tainted>>
  PROVE  Standing' /\ Alone' /\ FlowFits' /\ ClaimFits'
<1>1. TypeInv /\ Alone /\ Standing /\ FlowFits
  BY DEF FlowInv
<1>2. live'.id = None /\ (OwnOf(live, None))'
  BY DEF SignedOut, OwnOf
<1>3. \A b \in Accounts \ {a} : ~NewestOf(live, b)
  BY DEF NewestOf
<1>4. Issued' /\ NamesDiffer' /\ Alone' /\ ClaimFits'
  BY <1>1, <1>2 DEF Standing, Issued, NamesDiffer, Listed, Alone, Idle, ClaimFits
<1>5. LiveFits'
  <2>1. (\E b \in Accounts \cup {None} : OwnOf(live, b))'
    BY <1>2
  <2> QED
    BY <1>2, <2>1 DEF LiveFits
<1>6. \A b \in Accounts : Moving(b)' <=> Moving(b)
  BY DEF Moving, At
<1>7. SessionsKept'
  BY <1>1, <1>3, <1>6 DEF Standing, SessionsKept, Listed, NewestOf
<1>8. SaveIsOwn'
  BY <1>1, <1>6 DEF Standing, SaveIsOwn, Listed
<1>9. FlowFits'
  <2> SUFFICES ASSUME NEW c \in Callers
               PROVE  (Flows(calls[c]))'
    BY DEF FlowFits
  <2>0. PICK k : k = calls[c] /\ calls'[c] = k
    OBVIOUS
  <2>1. Flows(k) /\ k \in Call /\ Fits(k)
    BY <1>1, <2>0 DEF FlowFits, TypeInv, CallsFit, Fits
  <2>2. /\ k.kind \in {"swap", "save", "add"} => k.pc = "kill"
        /\ k.pc # "login"
    BY <1>1, <2>0, RunningMeets
  <2>3. k.kind = "rename" => k.of \in Accounts
    BY <2>1 DEF Fits
  <2>4. (Stopped(k) /\ ReadFits(k) /\ SwapFits(k) /\ ForgetFits(k))'
    BY <2>1 DEF Flows, Stopped, ReadFits, SwapFits, ForgetFits, SaveAs, Listed
  <2>5. (SaveFits(k) /\ LoginFits(k) /\ LastFits(k))'
    BY <2>2 DEF SaveFits, LoginFits, LastFits, Saving
  <2>6. (RenameFits(k))'
    BY <1>3, <2>1, <2>3 DEF Flows, RenameFits, OwnOf, NewestOf
  <2>7. (Flows(k))'
    BY <2>4, <2>5, <2>6 DEF Flows
  <2> QED
    BY <2>0, <2>7, FlowsAre
<1> QED
  BY <1>1, <1>4, <1>5, <1>7, <1>8, <1>9 DEF Standing
-----------------------------------------------------------------------------
(* A call begins when no other is in flight.                                 *)
LEMMA BeginFlow ==
  ASSUME FlowInv, AllIdle, NEW c \in Callers, Others(c), claim' = None,
         UNCHANGED <<live, dir, ids, latest, excused, crossed, tainted>>, (Flows(calls[c]))'
  PROVE  Standing' /\ Alone' /\ FlowFits' /\ ClaimFits'
<1>1. TypeInv /\ Alone /\ Standing
  BY DEF FlowInv
<1>2. \A d \in Callers : calls[d] = NoCall
  BY <1>1, IdleIsNoCall
<1>3. Standing'
  BY <1>1, <1>2, NoCallSays, StandingRests DEF At
<1>4. Alone' /\ \A d \in Callers \ {c} : calls'[d] = NoCall
  BY <1>1, OnlyCall
<1>5. FlowFits'
  BY <1>4, OneFlows
<1> QED
  BY <1>3, <1>4, <1>5 DEF ClaimFits

LEMMA SwapToFlow ==
  ASSUME "overlap" \notin Happens, FlowInv,
         NEW c \in Callers, NEW uid \in Accounts, NEW args \in BOOLEAN, SwapTo(c, uid, args)
  PROVE  Standing' /\ Alone' /\ FlowFits' /\ ClaimFits'
<1>1. TypeInv /\ Alone /\ Standing /\ FlowFits
  BY DEF FlowInv
<1>2. AllIdle /\ ids[uid] # None
  <2>1. MayBegin(c) /\ ids[uid] # None
    BY DEF SwapTo
  <2> QED
    BY <2>1 DEF MayBegin
<1>3. UNCHANGED <<descriptor, live, running, dir, ids, latest, excused, crossed, tainted>>
  BY <1>1, SwapToSays
<1>4. CASE live.id = uid /\ claim' = uid /\ UNCHANGED calls
  <2>1. \A d \in Callers : calls[d] = NoCall /\ calls'[d] = NoCall
    BY <1>1, <1>2, <1>4, IdleIsNoCall
  <2>2. Standing'
    BY <1>1, <1>3, <2>1, NoCallSays, StandingRests DEF At
  <2>3. Alone' /\ FlowFits' /\ AllIdle'
    BY <2>1, NobodyFlows
  <2>4. (Delivered(uid))'
    BY <1>3, <1>4, <2>1, <2>2, NoCallSays DEF Standing, LiveFits, At, Delivered, NewestOf
  <2>5. ClaimFits'
    BY <1>4, <2>3, <2>4 DEF ClaimFits, Delivered, NewestOf
  <2> QED
    BY <2>2, <2>3, <2>5
<1>5. CASE ~(live.id = uid /\ claim' = uid /\ UNCHANGED calls)
  <2>1. PICK seen \in {live.id, None} :
          /\ Others(c) /\ claim' = None
          /\ calls'[c].kind = "swap" /\ calls'[c].pc = "kill" /\ calls'[c].uid = uid /\ calls'[c].name = ids[uid]
          /\ calls'[c].old = SaveAs(seen, uid) /\ calls'[c].seen = seen
    <3>1. PICK seen \in {live.id, None} : SwapBegun(c, uid, seen)
      BY <1>1, <1>5, SwapToSays
    <3> QED
      BY <3>1 DEF SwapBegun
  <2>2. PICK k : calls'[c] = k
    OBVIOUS
  <2>3. (SwapFits(k))'
    BY <1>3, <2>1, <2>2 DEF SwapFits, SaveAs, Listed
  <2>4. (Flows(k))'
    BY <2>1, <2>2, <2>3 DEF Flows, Stopped, ReadFits, SaveFits, ForgetFits, RenameFits, LoginFits, LastFits, Saving
  <2>5. (Flows(calls[c]))'
    BY <2>2, <2>4, FlowsAre
  <2> QED
    BY <1>2, <1>3, <2>1, <2>5, BeginFlow
<1> QED
  BY <1>4, <1>5

(* The other calls begin with what they have read in hand.                   *)
LEMMA OpeningFlow ==
  ASSUME "overlap" \notin Happens, FlowInv, NEW c \in Callers, MayBegin(c), Others(c), claim' = None, Untouched,
         \/ calls'[c].kind \in {"save", "add"} /\ calls'[c].pc = "kill"
         \/ calls'[c].kind = "logout" /\ calls'[c].pc = "clear"
         \/ /\ calls'[c].kind = "forget" /\ calls'[c].pc = "write"
            /\ calls'[c].ids = ids /\ ids[calls'[c].of] = calls'[c].old
         \/ /\ calls'[c].kind = "rename" /\ calls'[c].pc = "write"
            /\ calls'[c].ids = ids /\ ids[calls'[c].of] = calls'[c].old
            /\ \A a \in Accounts : ids[a] # calls'[c].name
  PROVE  Standing' /\ Alone' /\ FlowFits' /\ ClaimFits'
<1>1. AllIdle
  BY DEF MayBegin
<1>2. UNCHANGED <<descriptor, live, running, dir, ids, latest, excused, crossed, tainted>>
  BY DEF Untouched, disk, history
<1>3. PICK k : calls'[c] = k
  OBVIOUS
<1>4. (Flows(k))'
  BY <1>2, <1>3 DEF Flows, Stopped, ReadFits, SwapFits, SaveFits, ForgetFits, RenameFits, LoginFits, LastFits, Saving
<1>5. (Flows(calls[c]))'
  BY <1>3, <1>4, FlowsAre
<1> QED
  BY <1>1, <1>2, <1>5, BeginFlow
-----------------------------------------------------------------------------
(* A call goes on while nothing happens to any session.                      *)
LEMMA GoesOnFlow ==
  ASSUME FlowInv, NEW c \in Callers, ~Idle(c), Others(c), UNCHANGED <<live, dir, ids, latest, excused, crossed, claim>>,
         tainted => tainted', ~At(c, "move"), At(c, "login") => tainted' \/ calls'[c].pc = "login", (Flows(calls[c]))'
  PROVE  Standing' /\ Alone' /\ FlowFits' /\ ClaimFits'
<1>1. TypeInv /\ Alone /\ Standing /\ ClaimFits
  BY DEF FlowInv
<1>2. Alone' /\ \A d \in Callers \ {c} : calls[d] = NoCall /\ calls'[d] = NoCall
  BY <1>1, OnlyCall
<1>3. FlowFits'
  BY <1>2, OneFlows
<1>4. Standing'
  BY <1>1, <1>2, NoCallSays, StandingRests DEF At
<1> QED
  BY <1>1, <1>2, <1>3, <1>4 DEF ClaimFits, AllIdle

LEMMA KillFlow ==
  ASSUME FlowInv, NEW c \in Callers, Kill(c)
  PROVE  Standing' /\ Alone' /\ FlowFits' /\ ClaimFits'
<1>1. TypeInv /\ Flows(calls[c]) /\ Fits(calls[c]) /\ calls[c] \in Call
  BY DEF FlowInv, FlowFits, TypeInv, CallsFit, Fits
<1>2. At(c, "kill") /\ ~Idle(c) /\ ~At(c, "move") /\ ~At(c, "login")
  BY <1>1, KillSays DEF At, Idle
<1>3. CASE Ends(c)
  BY <1>2, <1>3, EndsFlow
<1>4. CASE ~Ends(c)
  <2>1. /\ Others(c) /\ SameAs(calls'[c], calls[c]) /\ running' = FALSE
        /\ calls'[c].pc = IF calls[c].old # None THEN "save" ELSE "clear"
        /\ UNCHANGED <<descriptor, live, dir, ids, latest, excused, crossed, tainted, claim>>
    BY <1>1, <1>4, KillSays
  <2>2. PICK k : calls'[c] = k
    OBVIOUS
  <2>3. calls[c].kind \in {"swap", "save", "add"}
    BY <1>1, <1>2, NoCallSays DEF Fits, At, Call, Kinds
  <2>4. (SwapFits(k))'
    <3> SUFFICES ASSUME k.kind = "swap"
                 PROVE  /\ ids[k.uid] = k.name
                        /\ k.pc \in {"kill", "save"} => k.old = SaveAs(k.seen, k.uid)
                        /\ k.pc = "clear" => k.seen \notin Listed \ {k.uid}
      BY <2>1 DEF SwapFits, SaveAs, Listed
    <3>1. ids[k.uid] = k.name /\ k.old = SaveAs(k.seen, k.uid)
      BY <1>1, <1>2, <2>1, <2>2 DEF SameAs, Flows, SwapFits, At
    <3>2. k.pc = "clear" => k.old = None
      BY <2>1, <2>2 DEF SameAs
    <3> QED
      BY <3>1, <3>2 DEF SaveAs, Listed
  <2>5. k.pc = "clear" => k.kind # "save" /\ ~(k.kind = "swap" /\ k.saved)
    <3>1. calls[c].kind = "save" => calls[c].old # None
      BY <1>1 DEF Fits
    <3> QED
      BY <1>1, <1>2, <2>1, <2>2, <3>1 DEF SameAs, Fits, At
  <2>6. (Flows(k))'
    BY <2>1, <2>2, <2>3, <2>4, <2>5 DEF SameAs, Flows, Stopped, ReadFits, SaveFits, ForgetFits, RenameFits, LoginFits, LastFits, Saving
  <2>7. (Flows(calls[c]))'
    BY <2>2, <2>6, FlowsAre
  <2> QED
    BY <1>2, <2>1, <2>7, GoesOnFlow
<1> QED
  BY <1>3, <1>4

-----------------------------------------------------------------------------
(* The steps that change sessions.                                           *)

(* A session that loses parts stays one account's own.                       *)
LEMMA PartIsOwn ==
  ASSUME NEW s, NEW t, NEW a, t # None, PartOf(s, t), OwnOf(t, a)
  PROVE  OwnOf(s, a)
  BY DEF PartOf, OwnOf

LEMMA LiveIsOwn ==
  ASSUME TypeInv, LiveFits, ~tainted, \A c \in Callers : ~At(c, "login"), live.id # None
  PROVE  OwnOf(live, live.id)
<1>1. PICK a \in Accounts \cup {None} : OwnOf(live, a)
  BY DEF LiveFits
<1>2. live # None
  BY DEF TypeInv, LauncherTyped
<1>3. a = live.id
  BY <1>1, <1>2 DEF OwnOf
<1> QED
  BY <1>1, <1>3

(* What the only call in flight finds.                                       *)
LEMMA InFlight ==
  ASSUME FlowInv, NEW c \in Callers, ~Idle(c), Others(c)
  PROVE  /\ TypeInv /\ Standing /\ FlowFits /\ CallsFit /\ claim = None
         /\ Alone' /\ \A d \in Callers \ {c} : calls[d] = NoCall /\ calls'[d] = NoCall
         /\ \A a : Moving(a) => At(c, "move") /\ calls[c].of = a
         /\ \A a : Moving(a)' => calls'[c].pc = "move" /\ calls'[c].of = a
         /\ ~At(c, "login") => \A d \in Callers : ~At(d, "login")
         /\ Flows(calls[c]) /\ Fits(calls[c]) /\ calls[c] \in Call
<1>1. TypeInv /\ Standing /\ FlowFits /\ CallsFit /\ Alone /\ ClaimFits
  BY DEF FlowInv, TypeInv
<1>2. Alone' /\ \A d \in Callers \ {c} : calls[d] = NoCall /\ calls'[d] = NoCall
  BY <1>1, OnlyCall
<1>3. claim = None
  BY <1>1 DEF ClaimFits, AllIdle
<1>4. \A a : Moving(a) => At(c, "move") /\ calls[c].of = a
  BY <1>2, NoCallSays DEF Moving, At
<1>5. \A a : Moving(a)' => calls'[c].pc = "move" /\ calls'[c].of = a
  BY <1>2, NoCallSays DEF Moving, At
<1>6. ~At(c, "login") => \A d \in Callers : ~At(d, "login")
  BY <1>2, NoCallSays DEF At
<1>7. Flows(calls[c]) /\ Fits(calls[c]) /\ calls[c] \in Call
  BY <1>1 DEF FlowFits, CallsFit, Fits
<1> QED
  BY <1>1, <1>2, <1>3, <1>4, <1>5, <1>6, <1>7

LEMMA OwnSaves == SaveIsOwn <=> \A a \in Listed \ crossed : Moving(a) \/ OwnOf(dir[ids[a]], a)
  BY DEF SaveIsOwn, OwnOf

LEMMA CommitSaveFlow ==
  ASSUME FlowInv, NEW c \in Callers, CommitSave(c)
  PROVE  Standing' /\ Alone' /\ FlowFits' /\ ClaimFits'
<1>1. TypeInv
  BY DEF FlowInv
<1>2. At(c, "save") /\ ~Idle(c) /\ ~At(c, "move") /\ ~At(c, "login")
  BY <1>1, CommitSaveSays DEF At, Idle
<1>3. CASE Ends(c)
  BY <1>2, <1>3, EndsFlow
<1>4. CASE ~Ends(c)
  <2> DEFINE u == live.id
             n == calls[c].old
  <2>1. /\ Others(c) /\ u \in Accounts /\ MaySaveAs(u, n) /\ n \in Names
        /\ IF tainted
           THEN excused' = excused \cup {u} /\ crossed' = crossed \cup {u}
           ELSE UNCHANGED <<excused, crossed>>
        /\ UNCHANGED <<descriptor, live, running, ids, latest, tainted, claim>>
    BY <1>1, <1>4, CommitSaveSays
  <2>2. PICK k : calls'[c] = k
    OBVIOUS
  <2>3. /\ k.pc = "read" /\ k.saved /\ k.of = u /\ k.old = n
        /\ k.kind = calls[c].kind /\ k.uid = calls[c].uid /\ k.name = calls[c].name /\ k.seen = calls[c].seen
        /\ k.kind \in {"swap", "save"}
    BY <1>1, <1>4, <2>2, CommitSaveSays
  <2>4. /\ Standing /\ claim = None /\ Alone' /\ \A d \in Callers \ {c} : calls'[d] = NoCall
        /\ \A a : ~Moving(a) /\ ~Moving(a)'
        /\ \A d \in Callers : ~At(d, "login")
        /\ Flows(calls[c])
    BY <1>2, <2>1, <2>2, <2>3, InFlight
  <2>5. /\ ~tainted => (u \in excused \/ NewestOf(live, u)) /\ OwnOf(live, u)
        /\ latest[u] # 0 /\ u # None
    <3>1. u # None /\ latest[u] # 0 /\ (~tainted => u \in excused \/ NewestOf(live, u))
      BY <2>1, <2>4 DEF Standing, LiveFits, Issued
    <3>2. ~tainted => OwnOf(live, u)
      BY <1>1, <2>4, <3>1, LiveIsOwn DEF Standing
    <3> QED
      BY <3>1, <3>2
(* The save is what is in place, or a part of it.                            *)
  <2>18. PICK s \in Session : dir' = [dir EXCEPT ![n] = s] /\ PartOf(s, live) /\ (k.torn \/ s = live)
    BY <1>1, <1>4, <2>2, CommitSaveSays
  <2>6. dir'[n] = s /\ \A m \in Names \ {n} : dir'[m] = dir[m]
    BY <1>1, <2>1, <2>18 DEF TypeInv, DiskTyped
  <2>19. s # None /\ s.id \in {u, None} /\ (OwnOf(live, u) => OwnOf(s, u))
    <3>1. live # None
      BY <1>1 DEF TypeInv, LauncherTyped
    <3> QED
      BY <2>18, <3>1, PartIsOwn DEF PartOf
  <2>7. \A a \in Listed : ids[a] = n => a = u
    BY <2>1 DEF MaySaveAs, Listed
  <2>8. \A a \in Listed : ids[a] \in Names
    BY <1>1 DEF Listed, TypeInv, DiskTyped, Index
  <2> HIDE DEF u, n
  <2>9. Issued' /\ NamesDiffer'
    <3>1. NamesDiffer'
      BY <2>1, <2>4 DEF Standing, NamesDiffer, Listed
    <3>2. Issued'
      BY <2>1, <2>4, <2>5, <2>6, <2>19 DEF Standing, Issued, Listed, u
    <3> QED
      BY <3>1, <3>2
  <2>10. LiveFits'
    BY <2>1, <2>4 DEF Standing, LiveFits, NewestOf, OwnOf
  <2>11. SessionsKept'
    <3> SUFFICES ASSUME NEW a \in Listed, a \notin excused'
                 PROVE  (NewestOf(live, a) \/ NewestOf(dir[ids[a]], a))'
      BY <2>1 DEF SessionsKept, Listed
    <3>1. a \notin excused /\ a \in Accounts
      BY <2>1 DEF Listed
    <3>2. CASE ids[a] = n
      BY <2>1, <2>5, <2>7, <3>1, <3>2 DEF NewestOf
    <3>3. CASE ids[a] # n
      <4>1. NewestOf(live, a) \/ NewestOf(dir[ids[a]], a)
        BY <2>1, <2>4, <3>1 DEF Standing, SessionsKept, Listed
      <4>2. dir'[ids'[a]] = dir[ids[a]] /\ live' = live /\ latest' = latest
        BY <2>1, <2>6, <2>8, <3>3
      <4> QED
        BY <4>1, <4>2 DEF NewestOf
    <3> QED
      BY <3>2, <3>3
  <2>12. SaveIsOwn'
    <3> SUFFICES ASSUME NEW a \in Listed, a \notin crossed'
                 PROVE  (OwnOf(dir[ids[a]], a))'
      BY <2>1, OwnSaves DEF SaveIsOwn, OwnOf, Listed
    <3>1. a \notin crossed /\ a \in Accounts
      BY <2>1 DEF Listed
    <3>2. CASE ids[a] = n
      BY <2>1, <2>5, <2>6, <2>7, <2>19, <3>1, <3>2 DEF OwnOf
    <3>3. CASE ids[a] # n
      BY <2>1, <2>4, <2>6, <2>8, <3>1, <3>3, OwnSaves DEF Standing, OwnOf
    <3> QED
      BY <3>2, <3>3
  <2>13. k.kind = "swap" => u # k.uid /\ ids[k.uid] = k.name
    <3> SUFFICES ASSUME k.kind = "swap"
                 PROVE  u # k.uid /\ ids[k.uid] = k.name
      OBVIOUS
    <3>1. ids[k.uid] = k.name /\ n = SaveAs(k.seen, k.uid)
      BY <1>2, <2>3, <2>4 DEF Flows, SwapFits, At, n
    <3>2. k.seen \in Listed \ {k.uid} /\ ids[k.seen] = n
      BY <2>1, <3>1 DEF SaveAs
    <3> QED
      BY <2>7, <3>1, <3>2
  <2>14. (SaveFits(k))'
    BY <2>1, <2>3, <2>5, <2>6, <2>13, <2>18, <2>19 DEF SaveFits, u, NewestOf, OwnOf, MaySaveAs
  <2>15. ~running
    BY <1>2, <2>3, <2>4 DEF Flows, Stopped, At
  <2>16. (Flows(k))'
    BY <2>1, <2>3, <2>13, <2>14, <2>15 DEF Flows, Stopped, ReadFits, SwapFits, ForgetFits, RenameFits, LoginFits, LastFits
  <2>17. FlowFits'
    BY <2>2, <2>4, <2>16, FlowsAre, OneFlows
  <2> QED
    BY <2>1, <2>4, <2>9, <2>10, <2>11, <2>12, <2>17 DEF Standing, ClaimFits
<1> QED
  BY <1>3, <1>4

LEMMA ReadIdsFlow ==
  ASSUME FlowInv, NEW c \in Callers, ReadIds(c)
  PROVE  Standing' /\ Alone' /\ FlowFits' /\ ClaimFits'
<1>1. TypeInv /\ Flows(calls[c]) /\ Fits(calls[c])
  BY DEF FlowInv, FlowFits, TypeInv, CallsFit
<1>2. PICK k : calls'[c] = k
  OBVIOUS
<1>3. /\ Others(c) /\ SameAs(k, calls[c]) /\ k.ids = ids
      /\ UNCHANGED <<descriptor, live, running, dir, ids, latest, excused, crossed, tainted, claim>>
      /\ <<calls[c].pc, k.pc>> \in {<<"read", "write">>, <<"touch", "touched">>, <<"last", "lasted">>}
  BY <1>1, <1>2, ReadIdsSays
<1>4. ~Idle(c) /\ ~At(c, "move") /\ ~At(c, "login")
  BY <1>3 DEF Idle, At
<1>5. calls[c].kind \notin {"forget", "rename"}
  BY <1>1, <1>3 DEF Fits
<1>6. (Stopped(k) /\ ReadFits(k) /\ SwapFits(k) /\ ForgetFits(k) /\ RenameFits(k))'
  BY <1>1, <1>3, <1>5 DEF SameAs, Flows, Stopped, ReadFits, SwapFits, ForgetFits, RenameFits
<1>7. (SaveFits(k))'
  BY <1>1, <1>3 DEF SameAs, Flows, SaveFits, NewestOf, OwnOf, MaySaveAs, Saving
<1>8. (LoginFits(k) /\ LastFits(k))'
  BY <1>1, <1>3 DEF SameAs, Flows, LoginFits, LastFits, Delivered, NewestOf
<1>9. (Flows(calls[c]))'
  <2>1. (Flows(k))'
    BY <1>6, <1>7, <1>8 DEF Flows
  <2> QED
    BY <1>2, <2>1, FlowsAre
<1> QED
  BY <1>3, <1>4, <1>9, GoesOnFlow

LEMMA WriteLastUsedFlow ==
  ASSUME FlowInv, NEW c \in Callers, WriteLastUsed(c)
  PROVE  Standing' /\ Alone' /\ FlowFits' /\ ClaimFits'
<1>1. TypeInv /\ Flows(calls[c]) /\ Fits(calls[c]) /\ calls[c].pc \in {"touched", "lasted"}
  BY WriteLastUsedSays DEF FlowInv, FlowFits, TypeInv, CallsFit
<1>2. ~Idle(c) /\ ~At(c, "move") /\ ~At(c, "login")
  BY <1>1 DEF Idle, At
<1>3. CASE Ends(c)
  BY <1>2, <1>3, EndsFlow
<1>4. CASE ~Ends(c)
  <2>1. PICK k : calls'[c] = k
    OBVIOUS
  <2>2. /\ Others(c) /\ SameAs(k, calls[c]) /\ ids' \in {calls[c].ids, ids}
        /\ k.pc = IF At(c, "touched") /\ calls[c].kind = "swap" THEN "clear" ELSE "launch"
        /\ UNCHANGED <<descriptor, live, running, dir, latest, excused, crossed, tainted, claim>>
    BY <1>1, <1>4, <2>1, WriteLastUsedSays
  <2>3. ids' = ids
    BY <1>1, <2>2 DEF Flows, ReadFits
  <2>4. calls[c].kind \in {"swap", "save", "add"} /\ (calls[c].pc = "lasted" => calls[c].kind = "swap")
    BY <1>1, NoCallSays DEF Fits, Call, Kinds, Saving
  <2>5. (Stopped(k) /\ ReadFits(k) /\ ForgetFits(k) /\ RenameFits(k) /\ LoginFits(k))'
    BY <1>1, <2>2, <2>4 DEF SameAs, Flows, Stopped, ReadFits, ForgetFits, RenameFits, LoginFits
  <2>6. (SaveFits(k))'
    BY <1>1, <2>2, <2>3, <2>4 DEF SameAs, At, Flows, SaveFits, NewestOf, OwnOf, Saving
  <2>7. (SwapFits(k))'
    BY <1>1, <2>2, <2>3, <2>4 DEF SameAs, At, Flows, SwapFits, SaveFits, Saving
  <2>8. (LastFits(k))'
    BY <1>1, <2>2, <2>4 DEF SameAs, At, Flows, LastFits, Delivered, NewestOf
  <2>9. (Flows(k))'
    BY <2>5, <2>6, <2>7, <2>8 DEF Flows
  <2>10. (Flows(calls[c]))'
    BY <2>1, <2>9, FlowsAre
  <2> QED
    BY <1>2, <2>2, <2>3, <2>10, GoesOnFlow
<1> QED
  BY <1>3, <1>4

(* ids.json is written with what the call has changed: a save, ...           *)
LEMMA WriteSavedFlow ==
  ASSUME FlowInv, NEW c \in Callers, WriteIds(c), ~Ends(c), calls[c].kind \in {"swap", "save"}
  PROVE  Standing' /\ Alone' /\ FlowFits' /\ ClaimFits'
<1> DEFINE u == calls[c].of
           n == calls[c].old
<1>1. TypeInv
  BY DEF FlowInv
<1>2. PICK k : calls'[c] = k
  OBVIOUS
<1>3. /\ At(c, "write") /\ Others(c) /\ SameAs(k, calls[c]) /\ u \in Accounts
      /\ ids' = Edited(calls[c])
      /\ crossed' = IF tainted THEN crossed ELSE crossed \ {u}
      /\ UNCHANGED <<descriptor, live, running, dir, latest, excused, tainted, claim>>
  BY <1>1, <1>2, WriteIdsSays
<1>4. k.pc = "touch"
  <2>1. k.pc = CASE calls[c].kind = "rename" -> "move"
                 [] calls[c].kind = "forget" -> "remove"
                 [] OTHER -> "touch"
    BY <1>1, <1>2, WriteIdsSays
  <2> QED
    BY <2>1
<1>5. ~Idle(c) /\ ~At(c, "move") /\ ~At(c, "login")
  BY <1>3 DEF At, Idle
<1>6. /\ Standing /\ claim = None /\ Alone' /\ \A d \in Callers \ {c} : calls'[d] = NoCall
      /\ \A a : ~Moving(a) /\ ~Moving(a)'
      /\ \A d \in Callers : ~At(d, "login")
      /\ Flows(calls[c])
  BY <1>2, <1>3, <1>4, <1>5, InFlight
<1>7. /\ calls[c].saved /\ u = live.id /\ n \in Names
      /\ dir[n] # None /\ (calls[c].torn \/ dir[n] = live) /\ (tainted \/ OwnOf(dir[n], u))
      /\ calls[c].kind = "swap" => u # calls[c].uid
      /\ u \in excused \/ NewestOf(live, u)
      /\ MaySaveAs(u, n) /\ (tainted => u \in crossed)
  BY <1>3, <1>6 DEF Flows, SaveFits, At, Saving
<1>8. calls[c].ids = ids
  BY <1>3, <1>6 DEF Flows, ReadFits, At
<1>9. ids'[u] = n /\ \A a \in Accounts \ {u} : ids'[a] = ids[a]
  BY <1>1, <1>3, <1>8 DEF Edited, TypeInv, DiskTyped, Index
<1>11. latest[u] # 0
  BY <1>3, <1>6, <1>7 DEF Standing, Issued
<1>12. \A a \in Listed : ids[a] \in Names
  BY <1>1 DEF Listed, TypeInv, DiskTyped, Index
<1> HIDE DEF u, n
<1>13. Issued'
  BY <1>3, <1>6, <1>9, <1>11 DEF Standing, Issued, Listed
<1>14. NamesDiffer'
  BY <1>6, <1>7, <1>9 DEF Standing, NamesDiffer, Listed, MaySaveAs
<1>15. LiveFits'
  BY <1>3, <1>6 DEF Standing, LiveFits, NewestOf, OwnOf
<1>16. SessionsKept'
  <2> SUFFICES ASSUME NEW a \in Accounts, ids'[a] # None, a \notin excused
               PROVE  (NewestOf(live, a) \/ NewestOf(dir[ids[a]], a))'
    BY <1>3 DEF SessionsKept, Listed
  <2>1. CASE a = u
    BY <1>3, <1>7, <2>1 DEF NewestOf
  <2>2. CASE a # u
    <3>1. NewestOf(live, a) \/ NewestOf(dir[ids[a]], a)
      BY <1>6, <1>9, <2>2 DEF Standing, SessionsKept, Listed
    <3> QED
      BY <1>3, <1>9, <2>2, <3>1 DEF NewestOf
  <2> QED
    BY <2>1, <2>2
<1>17. SaveIsOwn'
  <2> SUFFICES ASSUME NEW a \in Accounts, ids'[a] # None, a \notin crossed'
               PROVE  (OwnOf(dir[ids[a]], a))'
    BY DEF SaveIsOwn, OwnOf, Listed
  <2>1. CASE a = u
    BY <1>3, <1>7, <1>9, <2>1 DEF OwnOf
  <2>2. CASE a # u
    <3>1. OwnOf(dir[ids[a]], a)
      BY <1>3, <1>6, <1>9, <2>2, OwnSaves DEF Standing, Listed
    <3> QED
      BY <1>3, <1>9, <2>2, <3>1 DEF OwnOf
  <2> QED
    BY <2>1, <2>2
<1>18. (Stopped(k) /\ ReadFits(k) /\ ForgetFits(k) /\ RenameFits(k) /\ LoginFits(k) /\ LastFits(k))'
  BY <1>3, <1>4, <1>6 DEF SameAs, At, Flows, Stopped, ReadFits, ForgetFits, RenameFits, LoginFits, LastFits
<1>19. (SaveFits(k))'
  BY <1>3, <1>4, <1>7, <1>9 DEF SameAs, SaveFits, NewestOf, OwnOf, u, n
<1>20. (SwapFits(k))'
  <2>1. k.kind = "swap" => k.uid \in Accounts \ {u} /\ ids[k.uid] = k.name
    BY <1>1, <1>3, <1>6, <1>7 DEF SameAs, Flows, SwapFits, TypeInv, CallsFit, Fits
  <2> QED
    BY <1>4, <1>9, <2>1 DEF SwapFits
<1>21. (Flows(k))'
  BY <1>18, <1>19, <1>20 DEF Flows
<1>22. FlowFits'
  BY <1>2, <1>6, <1>21, FlowsAre, OneFlows
<1> QED
  BY <1>3, <1>6, <1>13, <1>14, <1>15, <1>16, <1>17, <1>22 DEF Standing, ClaimFits

(* ... a Rename, ...                                                         *)
LEMMA WriteRenamedFlow ==
  ASSUME FlowInv, NEW c \in Callers, WriteIds(c), ~Ends(c), calls[c].kind = "rename"
  PROVE  Standing' /\ Alone' /\ FlowFits' /\ ClaimFits'
<1> DEFINE u == calls[c].of
           n == calls[c].name
           old == calls[c].old
<1>1. TypeInv
  BY DEF FlowInv
<1>2. PICK k : calls'[c] = k
  OBVIOUS
<1>3. /\ At(c, "write") /\ Others(c) /\ SameAs(k, calls[c]) /\ u \in Accounts
      /\ ids' = Edited(calls[c])
      /\ UNCHANGED <<descriptor, live, running, dir, latest, excused, crossed, tainted, claim>>
  BY <1>1, <1>2, WriteIdsSays
<1>4. k.pc = "move"
  BY <1>1, <1>2, WriteIdsSays
<1>5. ~Idle(c) /\ ~At(c, "move") /\ ~At(c, "login")
  BY <1>3 DEF At, Idle
<1>6. /\ Standing /\ claim = None /\ Alone' /\ \A d \in Callers \ {c} : calls'[d] = NoCall
      /\ \A a : ~Moving(a)
      /\ \A d \in Callers : ~At(d, "login")
      /\ Flows(calls[c]) /\ Fits(calls[c])
  BY <1>2, <1>3, <1>4, <1>5, InFlight
<1>7. calls[c].ids = ids /\ ids[u] = old /\ old \in Names /\ n \in Names /\ \A a \in Accounts : ids[a] # n
  BY <1>3, <1>6 DEF Flows, ReadFits, RenameFits, At, Fits
<1>8. ids'[u] = n /\ \A a \in Accounts \ {u} : ids'[a] = ids[a]
  BY <1>1, <1>3, <1>7 DEF Edited, TypeInv, DiskTyped, Index
<1>9. \A a : a = u => Moving(a)'
  BY <1>2, <1>3, <1>4 DEF Moving, At, SameAs
<1>10. u \in Listed
  BY <1>3, <1>7 DEF Listed
<1> HIDE DEF u, n, old
<1>11. Issued'
  BY <1>3, <1>6, <1>8, <1>10 DEF Standing, Issued, Listed
<1>12. NamesDiffer'
  BY <1>6, <1>7, <1>8 DEF Standing, NamesDiffer, Listed
<1>13. LiveFits'
  BY <1>3, <1>6 DEF Standing, LiveFits, NewestOf, OwnOf
<1>14. SessionsKept'
  <2> SUFFICES ASSUME NEW a \in Accounts, ids'[a] # None, a \notin excused, a # u
               PROVE  (NewestOf(live, a) \/ NewestOf(dir[ids[a]], a))'
    BY <1>3, <1>9 DEF SessionsKept, Listed
  <2>1. NewestOf(live, a) \/ NewestOf(dir[ids[a]], a)
    BY <1>6, <1>8 DEF Standing, SessionsKept, Listed
  <2> QED
    BY <1>3, <1>8, <2>1 DEF NewestOf
<1>15. SaveIsOwn'
  <2> SUFFICES ASSUME NEW a \in Accounts, ids'[a] # None, a \notin crossed, a # u
               PROVE  (OwnOf(dir[ids[a]], a))'
    BY <1>3, <1>9 DEF SaveIsOwn, OwnOf, Listed
  <2>1. OwnOf(dir[ids[a]], a)
    BY <1>6, <1>8, OwnSaves DEF Standing, Listed
  <2> QED
    BY <1>3, <1>8, <2>1 DEF OwnOf
<1>16. /\ u \in excused \/ NewestOf(live, u) \/ NewestOf(dir[old], u)
       /\ u \in crossed \/ OwnOf(dir[old], u)
  BY <1>6, <1>7, <1>10, OwnSaves DEF Standing, SessionsKept
<1>17. \A a \in Accounts : ids'[a] # old
  BY <1>6, <1>7, <1>8, <1>10 DEF Standing, NamesDiffer, Listed
<1>18. (RenameFits(k))'
  BY <1>3, <1>4, <1>8, <1>16, <1>17 DEF SameAs, RenameFits, NewestOf, OwnOf, u, n, old
<1>19. (Flows(k))'
  BY <1>3, <1>4, <1>18 DEF SameAs, Flows, Stopped, ReadFits, SwapFits, SaveFits, ForgetFits, LoginFits, LastFits
<1>20. FlowFits'
  BY <1>2, <1>6, <1>19, FlowsAre, OneFlows
<1> QED
  BY <1>3, <1>6, <1>11, <1>12, <1>13, <1>14, <1>15, <1>20 DEF Standing, ClaimFits

(* ... or a Forget.                                                          *)
LEMMA WriteForgottenFlow ==
  ASSUME FlowInv, NEW c \in Callers, WriteIds(c), ~Ends(c), calls[c].kind = "forget"
  PROVE  Standing' /\ Alone' /\ FlowFits' /\ ClaimFits'
<1> DEFINE u == calls[c].of
           old == calls[c].old
<1>1. TypeInv
  BY DEF FlowInv
<1>2. PICK k : calls'[c] = k
  OBVIOUS
<1>3. /\ At(c, "write") /\ Others(c) /\ SameAs(k, calls[c]) /\ u \in Accounts
      /\ ids' = Edited(calls[c])
      /\ UNCHANGED <<descriptor, live, running, dir, latest, excused, crossed, tainted, claim>>
  BY <1>1, <1>2, WriteIdsSays
<1>4. k.pc = "remove"
  <2>1. k.pc = CASE calls[c].kind = "rename" -> "move"
                 [] calls[c].kind = "forget" -> "remove"
                 [] OTHER -> "touch"
    BY <1>1, <1>2, WriteIdsSays
  <2> QED
    BY <2>1
<1>5. ~Idle(c) /\ ~At(c, "move") /\ ~At(c, "login")
  BY <1>3 DEF At, Idle
<1>6. /\ Standing /\ claim = None /\ Alone' /\ \A d \in Callers \ {c} : calls'[d] = NoCall
      /\ \A a : ~Moving(a) /\ ~Moving(a)'
      /\ \A d \in Callers : ~At(d, "login")
      /\ Flows(calls[c]) /\ Fits(calls[c])
  BY <1>2, <1>3, <1>4, <1>5, InFlight
<1>7. calls[c].ids = ids /\ ids[u] = old /\ old \in Names
  BY <1>3, <1>6 DEF Flows, ReadFits, ForgetFits, At, Fits
<1>8. ids'[u] = None /\ \A a \in Accounts \ {u} : ids'[a] = ids[a]
  BY <1>1, <1>3, <1>7 DEF Edited, TypeInv, DiskTyped, Index
<1>9. u \in Listed
  BY <1>3, <1>7 DEF Listed
<1> HIDE DEF u, old
<1>10. Issued' /\ NamesDiffer'
  BY <1>3, <1>6, <1>8 DEF Standing, Issued, NamesDiffer, Listed
<1>11. LiveFits'
  BY <1>3, <1>6 DEF Standing, LiveFits, NewestOf, OwnOf
<1>12. SessionsKept'
  <2> SUFFICES ASSUME NEW a \in Accounts, ids'[a] # None, a \notin excused
               PROVE  (NewestOf(live, a) \/ NewestOf(dir[ids[a]], a))'
    BY <1>3 DEF SessionsKept, Listed
  <2>1. NewestOf(live, a) \/ NewestOf(dir[ids[a]], a)
    BY <1>6, <1>8 DEF Standing, SessionsKept, Listed
  <2> QED
    BY <1>3, <1>8, <2>1 DEF NewestOf
<1>13. SaveIsOwn'
  <2> SUFFICES ASSUME NEW a \in Accounts, ids'[a] # None, a \notin crossed
               PROVE  (OwnOf(dir[ids[a]], a))'
    BY <1>3 DEF SaveIsOwn, OwnOf, Listed
  <2>1. OwnOf(dir[ids[a]], a)
    BY <1>6, <1>8, OwnSaves DEF Standing, Listed
  <2> QED
    BY <1>3, <1>8, <2>1 DEF OwnOf
<1>14. \A a \in Accounts : ids'[a] # old
  BY <1>6, <1>7, <1>8, <1>9 DEF Standing, NamesDiffer, Listed
<1>15. (Flows(k))'
  BY <1>3, <1>4, <1>14 DEF SameAs, Flows, Stopped, ReadFits, SwapFits, SaveFits, ForgetFits, RenameFits, LoginFits, LastFits, old
<1>16. FlowFits'
  BY <1>2, <1>6, <1>15, FlowsAre, OneFlows
<1> QED
  BY <1>3, <1>6, <1>10, <1>11, <1>12, <1>13, <1>16 DEF Standing, ClaimFits

LEMMA ClearFlow ==
  ASSUME FlowInv, NEW c \in Callers, ClearCurrentLogin(c)
  PROVE  Standing' /\ Alone' /\ FlowFits' /\ ClaimFits'
<1>1. TypeInv
  BY DEF FlowInv
<1>2. PICK k : calls'[c] = k
  OBVIOUS
<1>3. /\ At(c, "clear") /\ Others(c) /\ calls[c].kind \in {"swap", "add", "logout"}
      /\ \/ k = NoCall
         \/ /\ k.kind = "swap" /\ calls[c].kind = "swap" /\ k.pc = "login" /\ k.todo = Parts
            /\ k.uid = calls[c].uid /\ k.name = calls[c].name
         \/ k.kind = "add" /\ calls[c].kind = "add" /\ k.pc = "launch"
  BY <1>1, <1>2, ClearCurrentLoginSays
<1>4. /\ live' = SignedOut \/ tainted' = TRUE
      /\ PartOf(live', live)
      /\ excused' = IF (calls[c].saved \/ Promised(calls[c])) /\ ~calls[c].torn THEN excused
                    ELSE excused \cup ({live.id} \ {None})
      /\ UNCHANGED <<descriptor, running, dir, ids, latest, crossed, claim>>
  BY <1>1, ClearCurrentLoginSays
<1>5. ~Idle(c) /\ ~At(c, "move") /\ ~At(c, "login")
  BY <1>3 DEF At, Idle
<1>6. /\ Standing /\ claim = None /\ Alone' /\ \A d \in Callers \ {c} : calls'[d] = NoCall
      /\ \A a : ~Moving(a)
      /\ Flows(calls[c]) /\ Fits(calls[c])
  BY <1>3, <1>5, InFlight
(* The session in place was saved, or is given up.                           *)
<1>7. ~calls[c].saved => ~Promised(calls[c])
  <2> SUFFICES ASSUME ~calls[c].saved, calls[c].kind = "swap", calls[c].seen = live.id,
                      live.id \in Listed \ {calls[c].uid}
               PROVE  FALSE
    BY DEF Promised
  <2> QED
    BY <1>3, <1>6 DEF Flows, SwapFits, At
<1>8. \/ live.id = None \/ live.id \in excused'
      \/ dir[ids[live.id]] = live
  <2>1. CASE calls[c].saved /\ ~calls[c].torn
    BY <1>3, <1>6, <2>1 DEF Flows, SaveFits, At, Fits
  <2>2. CASE ~calls[c].saved \/ calls[c].torn
    BY <1>4, <1>7, <2>2
  <2> QED
    BY <2>1, <2>2
<1>9. excused \subseteq excused'
  BY <1>4
<1>10. \A a \in Listed \ excused' : NewestOf(dir[ids[a]], a)
  <2> SUFFICES ASSUME NEW a \in Listed, a \notin excused'
               PROVE  NewestOf(dir[ids[a]], a)
    OBVIOUS
  <2>1. NewestOf(live, a) \/ NewestOf(dir[ids[a]], a)
    BY <1>6, <1>9 DEF Standing, SessionsKept
  <2>2. ASSUME NewestOf(live, a)
        PROVE  NewestOf(dir[ids[a]], a)
    <3>1. live.id = a /\ a # None
      BY <2>2 DEF NewestOf, Listed
    <3> QED
      BY <1>8, <2>2, <3>1
  <2> QED
    BY <2>1, <2>2
<1>11. live'.id \in {live.id, None}
  BY <1>4 DEF PartOf
<1>12. Issued' /\ NamesDiffer'
  BY <1>4, <1>6, <1>11 DEF Standing, Issued, NamesDiffer, Listed
<1>13. LiveFits'
  <2>1. SignedOut.id = None /\ OwnOf(SignedOut, None)
    BY DEF SignedOut, OwnOf
  <2>2. CASE live' = SignedOut
    <3>1. live'.id = None /\ (OwnOf(live, None))'
      BY <2>1, <2>2 DEF OwnOf
    <3>2. (\E a \in Accounts \cup {None} : OwnOf(live, a))'
      BY <3>1
    <3> QED
      BY <3>1, <3>2 DEF LiveFits
  <2>3. CASE tainted'
    BY <2>3 DEF LiveFits
  <2> QED
    BY <1>4, <2>2, <2>3
<1>14. SessionsKept'
  BY <1>4, <1>10 DEF SessionsKept, Listed, NewestOf
<1>15. SaveIsOwn'
  BY <1>4, <1>6, OwnSaves DEF Standing, SaveIsOwn, OwnOf, Listed
<1>16. CASE k = NoCall
  <2>1. \A d \in Callers : calls'[d] = NoCall
    BY <1>2, <1>6, <1>16
  <2> QED
    BY <1>4, <1>6, <1>12, <1>13, <1>14, <1>15, <2>1, NobodyFlows DEF Standing, ClaimFits
<1>17. CASE k # NoCall
  <2>1. ~running
    BY <1>3, <1>6, <1>17 DEF Flows, Stopped, At, Fits, Saving
  <2>2. (LoginFits(k))'
    <3> SUFFICES ASSUME k.pc = "login"
                 PROVE  /\ (\A a \in Listed \ excused : NewestOf(dir[ids[a]], a))'
                        /\ tainted' \/ (Copied(k))'
                        /\ (Overwritten(k))'
      BY DEF LoginFits
    <3>1. (\A a \in Listed \ excused : NewestOf(dir[ids[a]], a))'
      BY <1>4, <1>10 DEF Listed, NewestOf
    <3>2. Id \in k.todo /\ Files \subseteq k.todo
      BY <1>3, <1>17 DEF Parts
    <3>3. tainted' \/ (Copied(k))'
      BY <1>4, <3>2 DEF Copied, SignedOut
    <3>4. (Overwritten(k))'
      BY <3>2 DEF Overwritten
    <3> QED
      BY <3>1, <3>3, <3>4
  <2>3. (SwapFits(k))'
    BY <1>3, <1>4, <1>6, <1>17 DEF Flows, SwapFits
  <2>4. (Flows(k))'
    BY <1>3, <1>4, <1>17, <2>1, <2>2, <2>3
       DEF Flows, Stopped, ReadFits, SaveFits, ForgetFits, RenameFits, LastFits, Saving
  <2>5. FlowFits'
    BY <1>2, <1>6, <2>4, FlowsAre, OneFlows
  <2> QED
    BY <1>4, <1>6, <1>12, <1>13, <1>14, <1>15, <2>5 DEF Standing, ClaimFits
<1> QED
  BY <1>16, <1>17

(* One part of the save takes its place in the launcher, ...                 *)
LEMMA PartIsWritten ==
  ASSUME FlowInv, NEW k, NEW p \in Parts, k.name \in Names, k.uid \in Accounts, ids[k.uid] = k.name,
         Written(k.name, p)
  PROVE  /\ live'.id = IF p = Id THEN SavedId(k) ELSE live.id
         /\ \A f \in Files : live'.files[f] = IF f = p THEN SavedFile(k, f) ELSE live.files[f]
<1>1. live \in Session /\ NamesDiffer /\ k.uid \in Listed
  BY DEF FlowInv, Standing, TypeInv, LauncherTyped, Listed
<1>2. CASE p = Id
  <2>1. PICK a \in IdsOf(k.name) : live' = [live EXCEPT !.id = a]
    BY <1>2 DEF Written, Put
  <2>2. a = SavedId(k)
    <3>1. CASE IdFirst
      BY <1>1, <2>1, <3>1 DEF IdsOf, SavedId, NamesDiffer, Listed
    <3>2. CASE ~IdFirst
      BY <2>1, <3>2 DEF IdsOf, SavedId
    <3> QED
      BY <3>1, <3>2
  <2>3. live'.id = a /\ live'.files = live.files
    BY <1>1, <2>1 DEF Session
  <2> QED
    BY <1>2, <2>2, <2>3
<1>3. CASE p # Id
  <2>1. p \in Files
    BY <1>3 DEF Parts
  <2>2. live' = [live EXCEPT !.files[p] = SavedFile(k, p)]
    <3>1. CASE Present(k.name, p)
      BY <1>3, <3>1 DEF Written, Put, Present, SavedFile
    <3>2. CASE ~Present(k.name, p)
      <4>1. dir[k.name] # None /\ live' = [live EXCEPT !.files[p] = None]
        BY <1>3, <3>2 DEF Written, Emptied
      <4>2. SavedFile(k, p) = None
        BY <1>3, <3>2, <4>1 DEF Present, SavedFile
      <4> QED
        BY <4>1, <4>2
    <3> QED
      BY <3>1, <3>2
  <2>3. live'.id = live.id /\ live'.files[p] = SavedFile(k, p)
        /\ \A f \in Files \ {p} : live'.files[f] = live.files[f]
    BY <1>1, <2>1, <2>2 DEF Session
  <2> QED
    BY <1>3, <2>3
<1> QED
  BY <1>2, <1>3

(* ... or is not in the save.                                                *)
LEMMA PartIsMissing ==
  ASSUME NEW k, NEW p \in Parts, k.uid \in Accounts, ids[k.uid] = k.name, ~Present(k.name, p)
  PROVE  IF p = Id THEN SavedId(k) = None ELSE SavedFile(k, p) = None
<1>1. CASE p = Id
  <2>1. IdsOf(k.name) = {}
    BY <1>1 DEF Present
  <2>2. ~IdFirst
    BY <2>1 DEF IdsOf
  <2>3. dir[k.name] = None \/ dir[k.name].id = None
    BY <2>1, <2>2 DEF IdsOf
  <2> QED
    BY <1>1, <2>2, <2>3 DEF SavedId
<1>2. CASE p # Id
  BY <1>2 DEF Present, SavedFile
<1> QED
  BY <1>1, <1>2

LEMMA PartIsCopied ==
  ASSUME FlowInv, NEW k, NEW l, NEW p \in Parts, p \in k.todo,
         k.uid \in Accounts, k.name \in Names, ids[k.uid] = k.name,
         l.uid = k.uid, l.name = k.name, l.todo = k.todo \ {p},
         Written(k.name, p) \/ (~Present(k.name, p) /\ UNCHANGED live),
         UNCHANGED <<descriptor, dir>>
  PROVE  /\ Copied(k) => (Copied(l))'
         /\ Written(k.name, p) /\ Overwritten(k) => (Overwritten(l))'
<1>1. /\ (SavedId(l))' = SavedId(k)
      /\ \A f \in Files : (SavedFile(l, f))' = SavedFile(k, f)
  BY DEF SavedId, SavedFile, IdFirst, Kind
<1>2. \A f \in Files : f # Id
  OBVIOUS
<1>3. CASE Written(k.name, p)
  <2>1. /\ live'.id = IF p = Id THEN SavedId(k) ELSE live.id
        /\ \A f \in Files : live'.files[f] = IF f = p THEN SavedFile(k, f) ELSE live.files[f]
    BY <1>3, PartIsWritten
  <2>2. Copied(k) => (Copied(l))'
    BY <1>1, <1>2, <2>1 DEF Copied
  <2>3. Overwritten(k) => (Overwritten(l))'
    BY <1>1, <1>2, <2>1 DEF Overwritten
  <2> QED
    BY <2>2, <2>3
<1>4. CASE ~Written(k.name, p)
  <2>1. IF p = Id THEN SavedId(k) = None ELSE SavedFile(k, p) = None
    BY <1>4, PartIsMissing
  <2>2. Copied(k) => (Copied(l))'
    BY <1>1, <1>2, <1>4, <2>1 DEF Copied
  <2> QED
    BY <1>4, <2>2
<1> QED
  BY <1>3, <1>4

LEMMA RestorePartFlow ==
  ASSUME FlowInv, NEW c \in Callers, RestorePart(c)
  PROVE  Standing' /\ Alone' /\ FlowFits' /\ ClaimFits'
<1>1. TypeInv
  BY DEF FlowInv
<1>2. PICK k : calls'[c] = k
  OBVIOUS
<1>3. PICK l : calls[c] = l
  OBVIOUS
<1>4. /\ At(c, "login") /\ Others(c) /\ l.kind = "swap" /\ l.uid \in Accounts /\ l.name \in Names
      /\ UNCHANGED <<descriptor, running, dir, ids, latest, excused, crossed, claim>>
  BY <1>1, <1>3, RestorePartSays
<1>5. \/ k = NoCall /\ tainted' /\ PartOf(live', live)
      \/ \E p \in Parts :
            /\ p \in l.todo
            /\ k.pc = "login" /\ k.kind = "swap" /\ k.uid = l.uid /\ k.name = l.name
            /\ k.todo = l.todo \ {p}
            /\ UNCHANGED tainted
            /\ \/ Written(l.name, p) /\ k.torn = l.torn
               \/ ~Present(l.name, p) /\ UNCHANGED live /\ k.torn
  BY <1>1, <1>2, <1>3, RestorePartSays
<1>6. ~Idle(c) /\ ~At(c, "move")
  BY <1>4 DEF At, Idle
<1>7. /\ Standing /\ claim = None /\ Alone' /\ \A d \in Callers \ {c} : calls'[d] = NoCall
      /\ \A a : ~Moving(a)
      /\ Flows(l)
  BY <1>3, <1>4, <1>6, InFlight
<1>17. ids[l.uid] = l.name
  BY <1>4, <1>7 DEF Flows, SwapFits
<1>8. \A a \in Listed \ excused : NewestOf(dir[ids[a]], a)
  BY <1>3, <1>4, <1>7 DEF Flows, LoginFits, At
<1>9. SessionsKept'
  BY <1>4, <1>8 DEF SessionsKept, Listed, NewestOf
<1>10. SaveIsOwn'
  BY <1>4, <1>7, OwnSaves DEF Standing, SaveIsOwn, OwnOf, Listed
<1>11. NamesDiffer'
  BY <1>4, <1>7 DEF Standing, NamesDiffer, Listed
<1>12. live'.id \in {live.id, None, SavedId(l)}
  <2>1. CASE k = NoCall /\ tainted' /\ PartOf(live', live)
    BY <2>1 DEF PartOf
  <2>2. CASE ~(k = NoCall /\ tainted' /\ PartOf(live', live))
    BY <1>4, <1>5, <1>17, <2>2, PartIsWritten
  <2> QED
    BY <2>1, <2>2
<1>13. Issued'
  <2>1. live'.id # None => latest[live'.id] # 0
    <3>1. l.uid \in Listed /\ l.name # None
      BY <1>4, <1>17 DEF Listed
    <3> QED
      BY <1>4, <1>7, <1>12, <3>1 DEF Standing, Issued, SavedId
  <2> QED
    BY <1>4, <1>7, <2>1 DEF Standing, Issued, Listed
<1>14. LiveFits'
  <2>1. tainted' \/ k.pc = "login"
    BY <1>5
  <2> QED
    BY <1>2, <2>1 DEF LiveFits, At
<1>15. CASE k = NoCall
  <2>1. \A d \in Callers : calls'[d] = NoCall
    BY <1>2, <1>7, <1>15
  <2> QED
    BY <1>4, <1>7, <1>9, <1>10, <1>11, <1>13, <1>14, <2>1, NobodyFlows DEF Standing, ClaimFits
<1>16. CASE k # NoCall
  <2>1. PICK p \in Parts :
          /\ p \in l.todo
          /\ k.pc = "login" /\ k.kind = "swap" /\ k.uid = l.uid /\ k.name = l.name
          /\ k.todo = l.todo \ {p}
          /\ UNCHANGED tainted
          /\ \/ Written(l.name, p) /\ k.torn = l.torn
             \/ ~Present(l.name, p) /\ UNCHANGED live /\ k.torn
    BY <1>5, <1>16
  <2>2. /\ Copied(l) => (Copied(k))'
        /\ Written(l.name, p) /\ Overwritten(l) => (Overwritten(k))'
    BY <1>4, <1>17, <2>1, PartIsCopied
  <2>3. (tainted' \/ (Copied(k))') /\ (k.torn \/ (Overwritten(k))')
    BY <1>3, <1>4, <1>7, <2>1, <2>2 DEF Flows, LoginFits, At
  <2>4. (\A a \in Listed \ excused : NewestOf(dir[ids[a]], a))'
    BY <1>4, <1>8 DEF Listed, NewestOf
  <2>5. (LoginFits(k))'
    BY <2>3, <2>4 DEF LoginFits
  <2>6. (SwapFits(k))'
    BY <1>4, <1>17, <2>1 DEF SwapFits
  <2>7. ~running'
    BY <1>3, <1>4, <1>7 DEF Flows, Stopped, At
  <2>8. (Flows(k))'
    BY <2>1, <2>5, <2>6, <2>7 DEF Flows, Stopped, ReadFits, SaveFits, ForgetFits, RenameFits, LastFits, Saving
  <2>9. FlowFits'
    BY <1>2, <1>7, <2>8, FlowsAre, OneFlows
  <2> QED
    BY <1>4, <1>7, <1>9, <1>10, <1>11, <1>13, <1>14, <2>9 DEF Standing, ClaimFits
<1> QED
  BY <1>15, <1>16

(* A restore that drops what failed promises nothing of the session.         *)
LEMMA RestoreDropsFlow ==
  ASSUME FlowInv, NEW c \in Callers, RestoreDrops(c)
  PROVE  Standing' /\ Alone' /\ FlowFits' /\ ClaimFits'
<1>1. TypeInv
  BY DEF FlowInv
<1>2. PICK k : calls'[c] = k
  OBVIOUS
<1>3. PICK l : calls[c] = l
  OBVIOUS
<1>4. /\ At(c, "login") /\ Others(c) /\ l.kind = "swap" /\ l.uid \in Accounts /\ l.name \in Names
      /\ k.pc = "login" /\ k.kind = "swap" /\ k.uid = l.uid /\ k.name = l.name /\ k.torn
      /\ PartOf(live', live) /\ tainted' = TRUE
      /\ UNCHANGED <<descriptor, running, dir, ids, latest, excused, crossed, claim>>
  BY <1>1, <1>2, <1>3, RestoreDropsSays
<1>5. ~Idle(c) /\ ~At(c, "move")
  BY <1>4 DEF At, Idle
<1>6. /\ Standing /\ claim = None /\ Alone' /\ \A d \in Callers \ {c} : calls'[d] = NoCall
      /\ \A a : ~Moving(a)
      /\ Flows(l)
  BY <1>3, <1>4, <1>5, InFlight
<1>7. \A a \in Listed \ excused : NewestOf(dir[ids[a]], a)
  BY <1>3, <1>4, <1>6 DEF Flows, LoginFits, At
<1>8. SessionsKept'
  BY <1>4, <1>7 DEF SessionsKept, Listed, NewestOf
<1>9. SaveIsOwn'
  BY <1>4, <1>6, OwnSaves DEF Standing, SaveIsOwn, OwnOf, Listed
<1>10. Issued' /\ NamesDiffer'
  BY <1>4, <1>6 DEF Standing, Issued, NamesDiffer, Listed, PartOf
<1>11. LiveFits'
  BY <1>4 DEF LiveFits
<1>12. (LoginFits(k))'
  <2>1. (\A a \in Listed \ excused : NewestOf(dir[ids[a]], a))'
    BY <1>4, <1>7 DEF Listed, NewestOf
  <2> QED
    BY <1>4, <2>1 DEF LoginFits
<1>13. (SwapFits(k))' /\ ~running'
  BY <1>3, <1>4, <1>6 DEF Flows, SwapFits, Stopped, At
<1>14. (Flows(k))'
  BY <1>4, <1>12, <1>13 DEF Flows, Stopped, ReadFits, SaveFits, ForgetFits, RenameFits, LastFits, Saving
<1>15. FlowFits'
  BY <1>2, <1>6, <1>14, FlowsAre, OneFlows
<1> QED
  BY <1>4, <1>6, <1>8, <1>9, <1>10, <1>11, <1>15 DEF Standing, ClaimFits

LEMMA RestoredFlow ==
  ASSUME FlowInv, NEW c \in Callers, Restored(c)
  PROVE  Standing' /\ Alone' /\ FlowFits' /\ ClaimFits'
<1>1. TypeInv
  BY DEF FlowInv
<1>2. PICK k : calls'[c] = k
  OBVIOUS
<1>3. PICK l : calls[c] = l
  OBVIOUS
<1>4. /\ At(c, "login") /\ l.todo = {} /\ Others(c) /\ SameAs(k, l) /\ k.pc = "last"
      /\ l.kind = "swap" /\ l.uid \in Accounts /\ l.name \in Names
      /\ tainted' = (l.uid \in crossed \/ (tainted /\ l.torn))
      /\ UNCHANGED <<descriptor, live, running, dir, ids, latest, excused, crossed, claim>>
  BY <1>1, <1>2, <1>3, RestoredSays
<1>5. ~Idle(c) /\ ~At(c, "move")
  BY <1>4 DEF At, Idle
<1>6. /\ Standing /\ claim = None /\ Alone' /\ \A d \in Callers \ {c} : calls'[d] = NoCall
      /\ \A a : ~Moving(a) /\ ~Moving(a)'
      /\ Flows(l)
  BY <1>2, <1>3, <1>4, <1>5, InFlight
<1>7. l.uid \in Listed /\ ids[l.uid] = l.name
  BY <1>4, <1>6 DEF Flows, SwapFits, Listed
(* Nothing was left out, or over nothing: the session is the save.           *)
<1>8. ASSUME ~tainted'
      PROVE  /\ live.id \in {l.uid, None} /\ OwnOf(live, l.uid)
             /\ l.uid \in excused \/ NewestOf(live, l.uid)
  <2>1. l.uid \notin crossed /\ (Copied(l) \/ Overwritten(l))
    BY <1>3, <1>4, <1>6, <1>8 DEF Flows, LoginFits, At
  <2>2. OwnOf(dir[l.name], l.uid)
    BY <1>6, <1>7, <2>1, OwnSaves DEF Standing
  <2>3. live.id = SavedId(l) /\ \A f \in Files : live.files[f] = SavedFile(l, f)
    BY <1>4, <2>1 DEF Copied, Overwritten
  <2>4. SavedId(l) \in {l.uid, None}
    BY <2>2 DEF SavedId, OwnOf
  <2>5. OwnOf(live, l.uid)
    BY <2>2, <2>3, <2>4 DEF OwnOf, SavedFile
  <2>6. l.uid \in excused \/ NewestOf(live, l.uid)
    <3>1. l.uid \in excused \/ NewestOf(dir[l.name], l.uid)
      BY <1>3, <1>4, <1>6, <1>7 DEF Flows, LoginFits, At
    <3>2. live # None
      BY <1>1 DEF TypeInv, LauncherTyped
    <3> QED
      BY <2>3, <3>1, <3>2 DEF NewestOf, SavedId, SavedFile
  <2> QED
    BY <2>3, <2>4, <2>5, <2>6
<1>9. Issued' /\ NamesDiffer'
  BY <1>4, <1>6 DEF Standing, Issued, NamesDiffer, Listed
<1>10. LiveFits'
  <2> SUFFICES ASSUME ~tainted'
               PROVE  /\ (live.id \in Accounts \ excused => NewestOf(live, live.id))'
                      /\ (\E a \in Accounts \cup {None} : OwnOf(live, a))'
    BY DEF LiveFits
  <2>1. live.id \in Accounts \ excused => NewestOf(live, live.id)
    BY <1>8
  <2>2. OwnOf(live, l.uid)
    BY <1>8
  <2> QED
    BY <1>4, <2>1, <2>2 DEF NewestOf, OwnOf
<1>11. SessionsKept'
  BY <1>4, <1>6 DEF Standing, SessionsKept, Listed, NewestOf
<1>12. SaveIsOwn'
  BY <1>4, <1>6, OwnSaves DEF Standing, SaveIsOwn, OwnOf, Listed
<1>13. (LastFits(k))'
  BY <1>4, <1>8 DEF SameAs, LastFits, Delivered, NewestOf
<1>14. ~running
  BY <1>3, <1>4, <1>6 DEF Flows, Stopped, At
<1>15. (Flows(k))'
  BY <1>4, <1>7, <1>13, <1>14 DEF SameAs, Flows, Stopped, ReadFits, SwapFits, SaveFits, ForgetFits, RenameFits, LoginFits, Saving
<1>16. FlowFits'
  BY <1>2, <1>6, <1>15, FlowsAre, OneFlows
<1> QED
  BY <1>4, <1>6, <1>9, <1>10, <1>11, <1>12, <1>16 DEF Standing, ClaimFits

LEMMA LaunchFlow ==
  ASSUME FlowInv, NEW c \in Callers, Launch(c)
  PROVE  Standing' /\ Alone' /\ FlowFits' /\ ClaimFits'
<1>1. TypeInv
  BY DEF FlowInv
<1>2. /\ At(c, "launch") /\ Others(c) /\ calls'[c] = NoCall
      /\ claim' = IF calls[c].kind = "swap" THEN calls[c].uid ELSE claim
      /\ UNCHANGED <<live, dir, ids, latest, excused, crossed, tainted>>
  BY <1>1, LaunchSays
<1>3. ~Idle(c) /\ ~At(c, "move") /\ ~At(c, "login")
  BY <1>2 DEF At, Idle
<1>4. /\ Standing /\ claim = None /\ \A d \in Callers \ {c} : calls[d] = NoCall /\ calls'[d] = NoCall
      /\ Flows(calls[c])
  BY <1>2, <1>3, InFlight
<1>5. Standing'
  BY <1>1, <1>2, <1>3, <1>4, NoCallSays, StandingRests DEF At
<1>6. FlowFits' /\ Alone' /\ AllIdle'
  <2>1. \A d \in Callers : calls'[d] = NoCall
    BY <1>2, <1>4
  <2> QED
    BY <2>1, NobodyFlows
<1>7. ClaimFits'
  BY <1>2, <1>4, <1>6 DEF ClaimFits, Flows, LastFits, Delivered, NewestOf, At
<1> QED
  BY <1>5, <1>6, <1>7

LEMMA RemoveSaveFlow ==
  ASSUME FlowInv, NEW c \in Callers, RemoveSave(c)
  PROVE  Standing' /\ Alone' /\ FlowFits' /\ ClaimFits'
<1> DEFINE old == calls[c].old
<1>1. TypeInv
  BY DEF FlowInv
<1>2. /\ At(c, "remove") /\ Others(c) /\ calls'[c] = NoCall
      /\ calls[c].kind = "forget" /\ old \in Names
      /\ dir' \in {dir, [dir EXCEPT ![old] = None]}
      /\ UNCHANGED <<descriptor, live, running, ids, latest, excused, crossed, tainted, claim>>
  BY <1>1, RemoveSaveSays
<1>3. ~Idle(c) /\ ~At(c, "move") /\ ~At(c, "login")
  BY <1>2 DEF At, Idle
<1>4. /\ Standing /\ claim = None /\ \A d \in Callers \ {c} : calls'[d] = NoCall
      /\ \A a : ~Moving(a)
      /\ \A d \in Callers : ~At(d, "login")
      /\ Flows(calls[c])
  BY <1>2, <1>3, InFlight
<1>5. \A a \in Accounts : ids[a] # old
  BY <1>2, <1>4 DEF Flows, ForgetFits, At
<1>6. \A n \in Names : dir'[n] \in {dir[n], None} /\ (n # old => dir'[n] = dir[n])
  BY <1>1, <1>2 DEF TypeInv, DiskTyped
<1>7. \A a \in Listed : dir'[ids[a]] = dir[ids[a]]
  BY <1>1, <1>5, <1>6 DEF Listed, TypeInv, DiskTyped, Index
<1> HIDE DEF old
<1>8. Issued' /\ NamesDiffer'
  BY <1>2, <1>4, <1>6 DEF Standing, Issued, NamesDiffer, Listed
<1>9. LiveFits'
  BY <1>2, <1>4 DEF Standing, LiveFits, NewestOf, OwnOf
<1>10. SessionsKept'
  <2> SUFFICES ASSUME NEW a \in Listed, a \notin excused
               PROVE  (NewestOf(live, a) \/ NewestOf(dir[ids[a]], a))'
    BY <1>2 DEF SessionsKept, Listed
  <2>1. NewestOf(live, a) \/ NewestOf(dir[ids[a]], a)
    BY <1>4 DEF Standing, SessionsKept
  <2> QED
    BY <1>2, <1>7, <2>1 DEF NewestOf
<1>11. SaveIsOwn'
  <2> SUFFICES ASSUME NEW a \in Listed, a \notin crossed
               PROVE  (OwnOf(dir[ids[a]], a))'
    BY <1>2 DEF SaveIsOwn, OwnOf, Listed
  <2>1. OwnOf(dir[ids[a]], a)
    BY <1>4, OwnSaves DEF Standing
  <2> QED
    BY <1>2, <1>7, <2>1 DEF OwnOf
<1>12. FlowFits' /\ Alone'
  <2>1. \A d \in Callers : calls'[d] = NoCall
    BY <1>2, <1>4
  <2> QED
    BY <2>1, NobodyFlows
<1> QED
  BY <1>2, <1>4, <1>8, <1>9, <1>10, <1>11, <1>12 DEF Standing, ClaimFits

LEMMA MoveSaveFlow ==
  ASSUME FlowInv, NEW c \in Callers, MoveSave(c)
  PROVE  Standing' /\ Alone' /\ FlowFits' /\ ClaimFits'
<1> DEFINE u == calls[c].of
           n == calls[c].name
           old == calls[c].old
<1>1. TypeInv
  BY DEF FlowInv
<1>2. /\ At(c, "move") /\ Others(c) /\ calls'[c] = NoCall
      /\ calls[c].kind = "rename" /\ u \in Accounts /\ old \in Names /\ n \in Names
      /\ \/ /\ dir' = [dir EXCEPT ![n] = dir[old], ![old] = None]
            /\ UNCHANGED <<excused, crossed>>
         \/ /\ excused' = excused \cup {u} /\ crossed' = crossed \cup {u}
            /\ UNCHANGED dir
      /\ UNCHANGED <<descriptor, live, running, ids, latest, tainted, claim>>
  BY <1>1, MoveSaveSays
<1>3. ~Idle(c) /\ ~At(c, "login")
  BY <1>2 DEF At, Idle
<1>4. /\ Standing /\ claim = None /\ \A d \in Callers \ {c} : calls'[d] = NoCall
      /\ \A a : Moving(a) => u = a
      /\ \A d \in Callers : ~At(d, "login")
      /\ Flows(calls[c])
  BY <1>2, <1>3, InFlight
<1>5. /\ ids[u] = n /\ \A a \in Accounts : ids[a] # old
      /\ u \in excused \/ NewestOf(live, u) \/ NewestOf(dir[old], u)
      /\ u \in crossed \/ OwnOf(dir[old], u)
  BY <1>2, <1>4 DEF Flows, RenameFits, At
<1>6. n # old /\ u \in Listed
  BY <1>2, <1>5 DEF Listed
<1> HIDE DEF u, n, old
<1>7. \A m \in Names : dir'[m] \in {dir[m], dir[old], None} /\ (m \notin {n, old} => dir'[m] = dir[m])
  BY <1>1, <1>2 DEF TypeInv, DiskTyped
<1>8. \A a \in Listed \ {u} : dir'[ids[a]] = dir[ids[a]]
  <2> SUFFICES ASSUME NEW a \in Listed \ {u}
               PROVE  dir'[ids[a]] = dir[ids[a]]
    OBVIOUS
  <2>1. ids[a] \in Names /\ ids[a] # old
    BY <1>1, <1>5 DEF Listed, TypeInv, DiskTyped, Index
  <2>2. ids[a] # n
    BY <1>4, <1>5, <1>6 DEF Standing, NamesDiffer
  <2> QED
    BY <1>7, <2>1, <2>2
<1>9. \/ u \in excused' /\ u \in crossed'
      \/ dir'[n] = dir[old] /\ UNCHANGED <<excused, crossed>>
  BY <1>1, <1>2, <1>6 DEF TypeInv, DiskTyped
<1>10. excused \subseteq excused' /\ crossed \subseteq crossed'
  BY <1>2
<1>11. \A a : ~Moving(a)'
  BY <1>2, <1>4, NoCallSays DEF Moving, At
<1>12. Issued' /\ NamesDiffer'
  <2>1. NamesDiffer'
    BY <1>2, <1>4 DEF Standing, NamesDiffer, Listed
  <2>2. \A m \in Names : dir[m] # None /\ dir[m].id # None => latest[dir[m].id] # 0
    BY <1>4 DEF Standing, Issued
  <2>3. \A m \in Names : dir'[m] # None /\ dir'[m].id # None => latest[dir'[m].id] # 0
    BY <1>2, <1>7, <2>2
  <2>4. Issued'
    BY <1>2, <1>4, <2>3 DEF Standing, Issued, Listed
  <2> QED
    BY <2>1, <2>4
<1>13. LiveFits'
  BY <1>2, <1>4, <1>10 DEF Standing, LiveFits, NewestOf, OwnOf
<1>14. SessionsKept'
  <2> SUFFICES ASSUME NEW a \in Listed, a \notin excused'
               PROVE  (NewestOf(live, a) \/ NewestOf(dir[ids[a]], a))'
    BY <1>2 DEF SessionsKept, Listed
  <2>1. CASE a = u
    BY <1>2, <1>5, <1>9, <2>1 DEF NewestOf
  <2>2. CASE a # u
    <3>1. NewestOf(live, a) \/ NewestOf(dir[ids[a]], a)
      BY <1>4, <1>10, <2>2 DEF Standing, SessionsKept
    <3> QED
      BY <1>2, <1>8, <2>2, <3>1 DEF NewestOf
  <2> QED
    BY <2>1, <2>2
<1>15. SaveIsOwn'
  <2> SUFFICES ASSUME NEW a \in Listed, a \notin crossed'
               PROVE  (OwnOf(dir[ids[a]], a))'
    BY <1>2 DEF SaveIsOwn, OwnOf, Listed
  <2>1. CASE a = u
    BY <1>2, <1>5, <1>9, <2>1 DEF OwnOf
  <2>2. CASE a # u
    <3>1. OwnOf(dir[ids[a]], a)
      BY <1>4, <1>10, <2>2, OwnSaves DEF Standing
    <3> QED
      BY <1>2, <1>8, <2>2, <3>1 DEF OwnOf
  <2> QED
    BY <2>1, <2>2
<1>16. FlowFits' /\ Alone'
  <2>1. \A d \in Callers : calls'[d] = NoCall
    BY <1>2, <1>4
  <2> QED
    BY <2>1, NobodyFlows
<1> QED
  BY <1>2, <1>4, <1>12, <1>13, <1>14, <1>15, <1>16 DEF Standing, ClaimFits

LEMMA CrashFlow ==
  ASSUME FlowInv, Crash
  PROVE  Standing' /\ Alone' /\ FlowFits' /\ ClaimFits'
<1>1. TypeInv /\ Standing
  BY DEF FlowInv
<1>2. PICK moved \in SUBSET Accounts :
        /\ moved = {calls[c].of : c \in {d \in Callers : At(d, "move")}}
        /\ excused' = excused \cup moved /\ crossed' = crossed \cup moved
  BY <1>1, CrashSays
<1>3. /\ \A c \in Callers : calls'[c] = NoCall
      /\ claim' = None /\ tainted' = (tainted \/ \E c \in Callers : At(c, "login"))
      /\ UNCHANGED <<descriptor, live, running, dir, ids, latest>>
  BY <1>1, CrashSays
<1>4. \A a : Moving(a) => a \in moved
  BY <1>2 DEF Moving
<1>5. Issued' /\ NamesDiffer'
  BY <1>1, <1>3 DEF Standing, Issued, NamesDiffer, Listed
<1>6. LiveFits'
  BY <1>1, <1>2, <1>3 DEF Standing, LiveFits, NewestOf, OwnOf
<1>7. SessionsKept'
  BY <1>1, <1>2, <1>3, <1>4 DEF Standing, SessionsKept, Listed, NewestOf
<1>8. SaveIsOwn'
  BY <1>1, <1>2, <1>3, <1>4, OwnSaves DEF Standing, SaveIsOwn, OwnOf, Listed
<1> QED
  BY <1>3, <1>5, <1>6, <1>7, <1>8, NobodyFlows DEF Standing, ClaimFits
-----------------------------------------------------------------------------
LEMMA FlowInitial == Init => FlowInv
<1> SUFFICES ASSUME Init
             PROVE  FlowInv
  OBVIOUS
<1>1. TypeInv
  BY TypesInitial
<1>2. \A c \in Callers : calls[c] = NoCall
  BY DEF Init
<1>3. Listed = {} /\ live = SignedOut /\ (\A n \in Names : dir[n] = None) /\ claim = None
  BY DEF Init, Listed, NoIndex
<1>4. Issued /\ NamesDiffer /\ SessionsKept /\ SaveIsOwn /\ LiveFits
  <2>1. live.id = None /\ OwnOf(live, None)
    BY <1>3 DEF SignedOut, OwnOf
  <2>2. LiveFits
    BY <2>1 DEF LiveFits
  <2> QED
    BY <1>3, <2>1, <2>2 DEF Issued, NamesDiffer, SessionsKept, SaveIsOwn
<1>5. Alone
  BY <1>2, NoCallSays DEF Alone, Idle
<1>6. FlowFits
  <2> SUFFICES ASSUME NEW c \in Callers
               PROVE  Flows(calls[c])
    BY DEF FlowFits
  <2>1. calls[c] = NoCall
    BY <1>2
  <2> QED
    BY <2>1, NoCallFlows
<1> QED
  BY <1>1, <1>3, <1>4, <1>5, <1>6 DEF FlowInv, Standing, ClaimFits

LEMMA FlowStep ==
  ASSUME {"overlap", "taken"} \cap Happens = {}, FlowInv, [Next]_vars
  PROVE  FlowInv'
<1>1. TypeInv /\ Alone /\ Standing /\ FlowFits /\ ClaimFits
  BY DEF FlowInv
<1> SUFFICES Standing' /\ Alone' /\ FlowFits' /\ ClaimFits'
  BY <1>1, TypesStep DEF FlowInv
<1>2. CASE UNCHANGED vars
  <2>1. UNCHANGED <<descriptor, live, running, dir, ids, calls, latest, excused, crossed, tainted, claim>>
    BY <1>2 DEF vars
  <2>2. Standing'
    BY <1>1, <2>1, StandingRests DEF At
  <2>3. Alone' /\ ClaimFits'
    BY <1>1, <2>1 DEF Alone, Idle, ClaimFits, AllIdle, Delivered, NewestOf
  <2>4. FlowFits'
    <3> SUFFICES ASSUME NEW c \in Callers
                 PROVE  (Flows(calls[c]))'
      BY DEF FlowFits
    <3>1. PICK k : k = calls[c] /\ calls'[c] = k
      BY <2>1
    <3>2. Flows(k)
      BY <1>1, <3>1 DEF FlowFits
    <3>3. (Stopped(k) /\ ReadFits(k) /\ SwapFits(k) /\ ForgetFits(k) /\ LastFits(k))'
      BY <2>1, <3>2 DEF Flows, Stopped, ReadFits, SwapFits, ForgetFits, LastFits,
                        Delivered, NewestOf, SaveAs, Listed
    <3>4. (SaveFits(k) /\ RenameFits(k))'
      BY <2>1, <3>2 DEF Flows, SaveFits, RenameFits, NewestOf, OwnOf, MaySaveAs
    <3>5. /\ Copied(k) => (Copied(k))'
          /\ Overwritten(k) => (Overwritten(k))'
      BY <2>1 DEF Copied, Overwritten, SavedId, SavedFile, IdFirst, Kind
    <3>6. (LoginFits(k))'
      BY <2>1, <3>2, <3>5 DEF Flows, LoginFits, NewestOf, Listed
    <3>7. (Flows(k))'
      BY <3>3, <3>4, <3>6 DEF Flows
    <3> QED
      BY <3>1, <3>7, FlowsAre
  <2> QED
    BY <2>2, <2>3, <2>4
<1>3. ASSUME NEW a \in Accounts, SignIn(a)
      PROVE  Standing' /\ Alone' /\ FlowFits' /\ ClaimFits'
  BY <1>1, <1>3, SignInSays, RenewedFlow
<1>4. CASE Rotate
  <2>1. PICK a \in Accounts :
          /\ live' \in Session
          /\ running /\ live.id = a /\ live'.id = a /\ \A f \in Files : live'.files[f] = <<a, latest'[a]>>
          /\ latest'[a] # 0 /\ \A b \in Accounts \ {a} : latest'[b] = latest[b]
          /\ excused' = excused \ {a} /\ claim' = None
          /\ UNCHANGED <<descriptor, running, dir, ids, calls, crossed>>
    BY <1>1, <1>4, RotateSays
  <2>2. \A b \in Accounts \ {a} : ~NewestOf(live, b)
    BY <2>1 DEF NewestOf
  <2> QED
    BY <2>1, <2>2, RenewedFlow
<1>5. CASE SignOut
  BY <1>1, <1>5, SignOutSays, SignOutFlow
<1>6. CASE StartLauncher
  <2>1. AllIdle /\ UNCHANGED <<descriptor, live, dir, ids, calls, latest, excused, crossed, tainted, claim>>
    BY <1>6 DEF StartLauncher, disk, history
  <2>2. \A c \in Callers : calls[c] = NoCall /\ calls'[c] = NoCall
    BY <1>1, <2>1, IdleIsNoCall
  <2>3. Standing'
    BY <1>1, <2>1, <2>2, NoCallSays, StandingRests DEF At
  <2>4. Alone' /\ FlowFits' /\ AllIdle'
    BY <2>2, NobodyFlows
  <2> QED
    BY <1>1, <2>1, <2>3, <2>4 DEF ClaimFits, Delivered, NewestOf
<1>7. ASSUME NEW a \in Accounts, ForgetAccount(a)
      PROVE  Standing' /\ Alone' /\ FlowFits' /\ ClaimFits'
  BY <1>1, <1>7, ForgetAccountSays, OpeningFlow DEF Callers
<1>8. ASSUME NEW c \in Callers, NEW a \in Accounts, NEW args \in BOOLEAN, SwapTo(c, a, args)
      PROVE  Standing' /\ Alone' /\ FlowFits' /\ ClaimFits'
  BY <1>8, SwapToFlow
<1>9. ASSUME NEW c \in Outsiders, Logout(c)
      PROVE  Standing' /\ Alone' /\ FlowFits' /\ ClaimFits'
  BY <1>1, <1>9, LogoutSays, OpeningFlow DEF Callers
<1>10. ASSUME NEW n \in Names, SaveCurrent(n)
       PROVE  Standing' /\ Alone' /\ FlowFits' /\ ClaimFits'
  BY <1>1, <1>10, SaveCurrentSays, OpeningFlow DEF Callers
<1>11. CASE AddNew
  BY <1>1, <1>11, AddNewSays, OpeningFlow DEF Callers
<1>12. ASSUME NEW a \in Accounts, NEW n \in Names, RenameAccount(a, n)
       PROVE  Standing' /\ Alone' /\ FlowFits' /\ ClaimFits'
  BY <1>1, <1>12, RenameAccountSays, OpeningFlow DEF Callers
<1>13. ASSUME NEW c \in Callers, WriteIds(c)
       PROVE  Standing' /\ Alone' /\ FlowFits' /\ ClaimFits'
  <2>1. At(c, "write") /\ calls[c].kind \in {"swap", "save", "forget", "rename"}
    BY <1>1, <1>13, WriteIdsSays
  <2>2. CASE Ends(c)
    BY <2>1, <2>2, EndsFlow DEF At, Idle
  <2>3. CASE ~Ends(c)
    BY <1>13, <2>1, <2>3, WriteSavedFlow, WriteRenamedFlow, WriteForgottenFlow
  <2> QED
    BY <2>2, <2>3
<1>14. ASSUME NEW c \in Callers, CallStep(c), ~WriteIds(c)
       PROVE  Standing' /\ Alone' /\ FlowFits' /\ ClaimFits'
  BY <1>14, KillFlow, CommitSaveFlow, ReadIdsFlow, WriteLastUsedFlow, ClearFlow, RestorePartFlow,
     RestoreDropsFlow, RestoredFlow, LaunchFlow, RemoveSaveFlow, MoveSaveFlow DEF CallStep
<1>15. CASE Crash
  BY <1>15, CrashFlow
<1> QED
  BY <1>2, <1>3, <1>4, <1>5, <1>6, <1>7, <1>8, <1>9, <1>10, <1>11, <1>12, <1>13, <1>14, <1>15 DEF Next
-----------------------------------------------------------------------------
(* Every variable keeps its type, however the calls overlap: what is written *)
(* into a save or back into the launcher is a session, and ids.json maps     *)
(* accounts to names (SwapTo, SaveCurrent, ForgetAccount, RenameAccount).    *)
THEOREM BasicTypeCorrect == Spec => []TypeOK
<1>1. TypeInv => TypeOK
  BY DEF TypeInv, CallsFit, Fits, LauncherTyped, DiskTyped, PastTyped, TypeOK
<1> QED
  BY <1>1, TypesInitial, TypesStep, PTL DEF Spec

(* When calls run one after the other and a new name is free, every call     *)
(* finds what it relies on: ids.json as it read it, the save of the session  *)
(* in place, and a save behind every session a restore overwrites.           *)
THEOREM FlowInvariant ==
  ASSUME {"overlap", "taken"} \cap Happens = {}
  PROVE  Spec => []FlowInv
  BY FlowInitial, FlowStep, PTL DEF Spec

(* The newest session of a listed account is in the launcher or in its save, *)
(* after any sequence of switches, saves, renames and Forgets and whatever   *)
(* fails in them, unless a session was cleared that nobody saved, or whose   *)
(* save dropped the error of reading a part, what a failure left was saved,  *)
(* or a rename's directory did not follow (SwapTo, saveCurrentAfterKill,     *)
(* ClearCurrentLogin, RenameAccount).                                        *)
THEOREM NoSessionIsLost ==
  ASSUME {"overlap", "taken"} \cap Happens = {}
  PROVE  Spec => []SessionsKept
<1>1. FlowInv => SessionsKept
  BY DEF FlowInv, Standing
<1> QED
  BY <1>1, FlowInvariant, PTL

(* The save behind an account's name holds nothing of another account        *)
(* (validateAccountSaveName, read again after the launcher is closed).       *)
THEOREM SavesAreOwn ==
  ASSUME {"overlap", "taken"} \cap Happens = {}
  PROVE  Spec => []SaveIsOwn
<1>1. FlowInv => SaveIsOwn
  BY DEF FlowInv, Standing
<1> QED
  BY <1>1, FlowInvariant, PTL

(* A switch that reports success leaves one whole session of the account     *)
(* asked for, unless it dropped the error of restoring a part, what it read  *)
(* was left by a failure, or that session was given up (SwapTo, Login).      *)
THEOREM SwitchesDeliver ==
  ASSUME {"overlap", "taken"} \cap Happens = {}
  PROVE  Spec => []SwitchDelivers
<1>1. FlowInv => SwitchDelivers
  <2> SUFFICES ASSUME FlowInv, claim \notin {None} \cup excused \cup crossed, ~tainted
               PROVE  WholeOf(live, claim)
    BY DEF SwitchDelivers
  <2>1. NewestOf(live, claim) /\ claim \in Accounts
    BY DEF FlowInv, ClaimFits, Delivered, TypeInv, PastTyped
  <2>2. latest[claim] \in 1 .. MaxSessions
    <3>1. latest[claim] # 0 /\ latest[claim] \in 0 .. MaxSessions
      BY <2>1 DEF FlowInv, Standing, Issued, NewestOf, TypeInv, PastTyped
    <3> QED
      BY <3>1
  <2>3. <<claim, latest[claim]>> \in Token
    BY <2>1, <2>2 DEF Token
  <2> QED
    BY <2>1, <2>3 DEF WholeOf, NewestOf
<1> QED
  BY <1>1, FlowInvariant, PTL
=============================================================================
