------------------------ MODULE SteamAccounts_proofs ------------------------
(* Theorems about SteamAccounts, for every set of accounts and of callers    *)
(* without the mutex: types, that no account the user is owed is lost, and   *)
(* that the file and the registry name the account of the last switch.       *)
EXTENDS SteamAccounts, FiniteSetTheorems, TLAPS

USE CallersDiffer, NoneIsNoAccount, BoundsAreNumbers

(* Which calls there are, and what each has in hand.                         *)
Fits(c, k) ==
    /\ k \in Call /\ Marked(k.users)
    /\ k.kind = "none" <=> k.pc = "idle"
    /\ k.kind = "list" <=> k.pc = "merge"
    /\ k.kind = "swap" <=> k.pc \in {"close", "read", "write", "reg"}
    /\ k.kind = "forget" <=> k.pc \in {"release", "store", "rows", "rewrite"}
    /\ k.kind = "list" => c = Lister
    /\ k.kind = "forget" => c = Ui /\ k.uid \in Accounts
    /\ k.kind = "swap" => c # Lister
    /\ k.pc \in {"write", "reg", "rewrite"} => k.users.st = "rows"
CallsFit == calls \in [Callers -> Call] /\ \A c \in Callers : Fits(c, calls[c])

(* The files of Steam, the store and the rest.                               *)
FilesTyped == vdf \in File /\ last \in File /\ Marked(vdf) /\ Marked(last)
RestTyped ==
    /\ reg \in Accounts \cup {None} /\ running \in BOOLEAN
    /\ store \in [Accounts -> Known] /\ guard \in [Accounts -> Guard]
    /\ past \in [Accounts -> Past]
    /\ claim = {} \/ \E a \in Accounts \cup {None} : claim = {a}
    /\ mishaps \in 0 .. MaxMishaps
TypeInv == CallsFit /\ FilesTyped /\ RestTyped
-----------------------------------------------------------------------------
LEMMA FileSays ==
  \A f : f \in File <=> /\ f \in [st : {"absent", "bad", "rows"}, rows : SUBSET Accounts, auto : Accounts \cup {None}]
                        /\ f.st # "rows" => f.rows = {} /\ f.auto = None
<1> SUFFICES ASSUME NEW f
             PROVE  f \in File <=> /\ f \in [st : {"absent", "bad", "rows"}, rows : SUBSET Accounts, auto : Accounts \cup {None}]
                                   /\ f.st # "rows" => f.rows = {} /\ f.auto = None
  OBVIOUS
<1>1. ASSUME f \in File
      PROVE  /\ f \in [st : {"absent", "bad", "rows"}, rows : SUBSET Accounts, auto : Accounts \cup {None}]
             /\ f.st # "rows" => f.rows = {} /\ f.auto = None
  BY <1>1 DEF File, Missing, Garbage, RowsFile
<1>2. ASSUME f \in [st : {"absent", "bad", "rows"}, rows : SUBSET Accounts, auto : Accounts \cup {None}],
             f.st # "rows" => f.rows = {} /\ f.auto = None
      PROVE  f \in File
  <2>1. CASE f.st = "rows"
    <3>1. f = RowsFile(f.rows, f.auto)
      BY <1>2, <2>1 DEF RowsFile
    <3> QED
      BY <1>2, <3>1 DEF File
  <2>2. CASE f.st # "rows"
    BY <1>2, <2>2 DEF File, Missing, Garbage
  <2> QED
    BY <2>1, <2>2
<1> QED
  BY <1>1, <1>2

LEMMA RowsFileSays ==
  ASSUME NEW rows \in SUBSET Accounts, NEW auto \in Accounts \cup {None}
  PROVE  /\ RowsFile(rows, auto) \in File
         /\ RowsFile(rows, auto).st = "rows" /\ RowsFile(rows, auto).rows = rows
         /\ RowsFile(rows, auto).auto = auto
  BY FileSays DEF RowsFile

LEMMA NoFileIsFile == Missing \in File /\ Garbage \in File /\ Marked(Missing) /\ Marked(Garbage)
  BY DEF File, Missing, Garbage, Marked

LEMMA NoCallFits == \A c : Fits(c, NoCall)
  BY NoFileIsFile DEF Fits, NoCall, Call, Kinds, Stages

LEMMA LoginUsersSays ==
  ASSUME FilesTyped
  PROVE  /\ LoginUsers \in File /\ Marked(LoginUsers) /\ LoginUsers \in {vdf, last}
         /\ LoginUsers.rows \in SUBSET Accounts /\ LoginUsers.auto \in Accounts \cup {None}
<1>1. LoginUsers \in {vdf, last}
  BY DEF LoginUsers, Parsed
<1> QED
  BY <1>1, FileSays DEF FilesTyped

LEMMA BackUpSays ==
  ASSUME TypeInv, BackUp \/ (last' = BackedUp /\ Mishap)
  PROVE  last' \in {vdf, last} /\ last' \in File /\ Marked(last') /\ mishaps' \in 0 .. MaxMishaps
  BY DEF BackUp, BackedUp, Smooth, Mishap, TypeInv, FilesTyped, RestTyped

(* One call goes on, the others stay.                                        *)
LEMMA CallGoesOn ==
  ASSUME CallsFit, NEW c \in Callers, NEW k, Fits(c, k), calls' = [calls EXCEPT ![c] = k]
  PROVE  CallsFit' /\ calls'[c] = k /\ \A d \in Callers \ {c} : calls'[d] = calls[d]
<1>1. k \in Call
  BY DEF Fits
<1>2. calls'[c] = k /\ \A d \in Callers \ {c} : calls'[d] = calls[d]
  BY DEF CallsFit
<1>3. calls' \in [Callers -> Call]
  BY <1>1 DEF CallsFit
<1> QED
  BY <1>2, <1>3 DEF CallsFit

LEMMA CallReturns ==
  ASSUME CallsFit, NEW c \in Callers, Return(c)
  PROVE  CallsFit' /\ calls'[c] = NoCall /\ \A d \in Callers \ {c} : calls'[d] = calls[d]
<1>1. calls' = [calls EXCEPT ![c] = NoCall]
  BY DEF Return
<1> QED
  BY <1>1, NoCallFits, CallGoesOn

LEMMA CallGoesTo ==
  ASSUME CallsFit, NEW c \in Callers, NEW pc \in Stages, Goto(c, pc), Fits(c, [calls[c] EXCEPT !.pc = pc])
  PROVE  CallsFit' /\ calls'[c] = [calls[c] EXCEPT !.pc = pc] /\ \A d \in Callers \ {c} : calls'[d] = calls[d]
<1> DEFINE k == [calls[c] EXCEPT !.pc = pc]
<1>1. calls' = [calls EXCEPT ![c] = k]
  BY DEF Goto
<1> HIDE DEF k
<1>2. CallsFit' /\ calls'[c] = k /\ \A d \in Callers \ {c} : calls'[d] = calls[d]
  BY <1>1, CallGoesOn DEF k
<1> QED
  BY <1>2 DEF k

(* Somebody else writes Steam's files.                                       *)
LEMMA DisturbedSays ==
  ASSUME CallsFit, calls' = Disturbed
  PROVE  /\ CallsFit'
         /\ \A c \in Callers : /\ calls'[c].pc = calls[c].pc /\ calls'[c].kind = calls[c].kind
                               /\ calls'[c].users = calls[c].users /\ calls'[c].uid = calls[c].uid
                               /\ calls'[c].calm = FALSE
<1>1. \A c \in Callers : calls'[c] = [calls[c] EXCEPT !.calm = FALSE]
  BY DEF Disturbed
<1>2. ASSUME NEW c \in Callers
      PROVE  /\ Fits(c, calls'[c])
             /\ calls'[c].pc = calls[c].pc /\ calls'[c].kind = calls[c].kind
             /\ calls'[c].users = calls[c].users /\ calls'[c].uid = calls[c].uid
             /\ calls'[c].calm = FALSE
  <2> DEFINE k == [calls[c] EXCEPT !.calm = FALSE]
  <2>1. Fits(c, calls[c]) /\ calls[c] \in Call
    BY DEF CallsFit
  <2>2. /\ k \in Call /\ k.kind = calls[c].kind /\ k.pc = calls[c].pc /\ k.uid = calls[c].uid
        /\ k.users = calls[c].users /\ k.calm = FALSE
    BY <2>1 DEF Call
  <2>3. calls'[c] = k
    BY <1>1
  <2> HIDE DEF k
  <2> QED
    BY <2>1, <2>2, <2>3 DEF Fits
<1>3. calls' \in [Callers -> Call]
  BY <1>2 DEF Disturbed, Fits
<1> QED
  BY <1>2, <1>3 DEF CallsFit

LEMMA TypesInitial == Init => TypeInv
<1> SUFFICES ASSUME Init
             PROVE  TypeInv
  OBVIOUS
<1>1. CallsFit
  BY NoCallFits DEF Init, CallsFit, Fits
<1>2. FilesTyped /\ RestTyped
  BY NoFileIsFile DEF Init, FilesTyped, RestTyped, Known, Guard, Past
<1> QED
  BY <1>1, <1>2 DEF TypeInv
-----------------------------------------------------------------------------
(* What each step does to the calls.                                         *)
Others(c) == \A d \in Callers \ {c} : calls'[d] = calls[d]

Begun(kind, pc, a, calm) == [NoCall EXCEPT !.kind = kind, !.pc = pc, !.uid = a, !.calm = calm]

LEMMA BeginSays ==
  ASSUME CallsFit, NEW c \in Callers, NEW kind \in {"swap", "forget"}, NEW a \in Accounts \cup {None},
         NEW calm \in BOOLEAN, NEW pc,
         kind = "swap" => c # Lister /\ pc = "close",
         kind = "forget" => c = Ui /\ a \in Accounts /\ pc = "release",
         calls' = [calls EXCEPT ![c] = Begun(kind, pc, a, calm)]
  PROVE  /\ CallsFit' /\ Others(c)
         /\ calls'[c].kind = kind /\ calls'[c].pc = pc /\ calls'[c].uid = a /\ calls'[c].calm = calm
<1> DEFINE k == Begun(kind, pc, a, calm)
<1>1. /\ k.kind = kind /\ k.pc = pc /\ k.uid = a /\ k.calm = calm /\ k.users = Missing
      /\ k \in Call
  BY NoFileIsFile DEF Begun, NoCall, Call, Kinds, Stages
<1>2. Fits(c, k)
  BY <1>1, NoFileIsFile DEF Fits, Missing
<1> QED
  BY <1>1, <1>2, CallGoesOn DEF Others

LEMMA SwapToSays ==
  ASSUME TypeInv, NEW c \in Callers, NEW a \in Accounts \cup {None}, NEW args, SwapTo(c, a, args)
  PROVE  /\ CallsFit' /\ Others(c)
         /\ calls'[c].kind = "swap" /\ calls'[c].pc = "close" /\ calls'[c].uid = a
         /\ store' \in [Accounts -> Known] /\ \A b \in Accounts : store'[b] = store[b] \/ store'[b] = "named"
<1>1. PICK calm \in BOOLEAN : calm /\ calls' = [calls EXCEPT ![c] = Begun("swap", "close", a, calm)] /\ c # Lister
  BY DEF SwapTo, Begun
<1>2. store' = store \/ (a \in Accounts /\ store' = Recovered(a))
  BY DEF SwapTo
<1>3. store' \in [Accounts -> Known] /\ \A b \in Accounts : store'[b] = store[b] \/ store'[b] = "named"
  BY <1>2 DEF Recovered, TypeInv, RestTyped, Known
<1>4. CallsFit
  BY DEF TypeInv
<1> QED
  <2>1. c # Lister
    BY <1>1
  <2>2. calls' = [calls EXCEPT ![c] = Begun("swap", "close", a, calm)]
    BY <1>1
  <2>3. /\ CallsFit' /\ Others(c)
        /\ calls'[c].kind = "swap" /\ calls'[c].pc = "close" /\ calls'[c].uid = a /\ calls'[c].calm = calm
    BY <1>4, <2>1, <2>2, BeginSays, Zenon
  <2> QED
    BY <1>3, <2>3

(* A step of a switch or of a Forget goes to the next place or returns.      *)
LEMMA PlaceSays ==
  ASSUME CallsFit, NEW c \in Callers, NEW pc \in Stages, Goto(c, pc),
         <<calls[c].pc, pc>> \in {<<"close", "read">>, <<"write", "reg">>, <<"release", "store">>, <<"store", "rows">>}
  PROVE  CallsFit' /\ Others(c) /\ calls'[c] = [calls[c] EXCEPT !.pc = pc]
<1> DEFINE k == [calls[c] EXCEPT !.pc = pc]
<1>1. Fits(c, calls[c]) /\ calls[c] \in Call
  BY DEF CallsFit
<1>2. k \in Call /\ k.pc = pc /\ k.kind = calls[c].kind /\ k.users = calls[c].users /\ k.uid = calls[c].uid
  BY <1>1 DEF Call
<1> HIDE DEF k
<1>3. Fits(c, k)
  BY <1>1, <1>2 DEF Fits
<1>4. Fits(c, [calls[c] EXCEPT !.pc = pc])
  BY <1>3 DEF k
<1> QED
  BY <1>4, CallGoesTo DEF Others

(* What is read becomes what is written.                                     *)
LEMMA TakesRows ==
  ASSUME CallsFit, NEW c \in Callers, NEW pc \in {"write", "rewrite"}, NEW users \in File,
         Marked(users), users.st = "rows",
         <<calls[c].pc, pc>> \in {<<"read", "write">>, <<"rows", "rewrite">>},
         calls' = [calls EXCEPT ![c].pc = pc, ![c].users = users]
  PROVE  CallsFit' /\ Others(c) /\ calls'[c] = [calls[c] EXCEPT !.pc = pc, !.users = users]
<1> DEFINE k == [calls[c] EXCEPT !.pc = pc, !.users = users]
<1>1. Fits(c, calls[c]) /\ calls[c] \in Call
  BY DEF CallsFit
<1>2. k \in Call /\ k.pc = pc /\ k.kind = calls[c].kind /\ k.users = users /\ k.uid = calls[c].uid
  BY <1>1 DEF Call, Stages
<1>3. calls' = [calls EXCEPT ![c] = k]
  BY DEF CallsFit
<1> HIDE DEF k
<1>4. Fits(c, k)
  BY <1>1, <1>2 DEF Fits
<1>5. CallsFit' /\ Others(c) /\ calls'[c] = k
  BY <1>3, <1>4, CallGoesOn DEF Others
<1> QED
  BY <1>5 DEF k

LEMMA CloseSays ==
  ASSUME TypeInv, NEW c \in Callers, Close(c)
  PROVE  /\ CallsFit' /\ Others(c)
         /\ calls'[c] \in {[calls[c] EXCEPT !.pc = "read"], NoCall}
         /\ UNCHANGED <<vdf, last, reg, store, guard, past, claim>>
         /\ running' \in BOOLEAN /\ mishaps' \in 0 .. MaxMishaps
<1>1. CallsFit /\ running \in BOOLEAN /\ mishaps \in 0 .. MaxMishaps
  BY DEF TypeInv, RestTyped
<1>2. UNCHANGED <<vdf, last, reg, store, guard, past, claim>> /\ running' \in BOOLEAN /\ mishaps' \in 0 .. MaxMishaps
  <2>1. (Smooth \/ Mishap) => mishaps' \in 0 .. MaxMishaps
    BY <1>1 DEF Smooth, Mishap
  <2>2. Smooth \/ Mishap
    BY DEF Close
  <2>3. UNCHANGED <<vdf, last, reg, store, guard, past, claim>> /\ running' \in {running, FALSE}
    BY DEF Close, Fail, steam, history
  <2> QED
    BY <1>1, <2>1, <2>2, <2>3
<1>3. CASE Goto(c, "read")
  BY <1>1, <1>2, <1>3, PlaceSays DEF Close, At, Stages
<1>4. CASE Return(c)
  BY <1>1, <1>2, <1>4, CallReturns DEF Others
<1> QED
  BY <1>3, <1>4 DEF Close, Fail

LEMMA RebuiltSays ==
  ASSUME FilesTyped, NEW a \in Accounts \cup {None}
  PROVE  /\ Rebuilt(a) \in SUBSET Accounts /\ LoginUsers.rows \subseteq Rebuilt(a)
         /\ a = None => Rebuilt(a) = LoginUsers.rows
         /\ a \in Accounts /\ (a \in LoginUsers.rows \/ store[a] = "named") => a \in Rebuilt(a)
  BY LoginUsersSays DEF Rebuilt

LEMMA ReadRowsSays ==
  ASSUME TypeInv, NEW c \in Callers, ReadRows(c)
  PROVE  LET a == calls[c].uid
             users == RowsFile(Rebuilt(a), IF a \in Rebuilt(a) THEN a ELSE None) IN
         /\ CallsFit' /\ Others(c)
         /\ \/ ~Refuses(a) /\ calls'[c] = [calls[c] EXCEPT !.pc = "write", !.users = users]
            \/ calls'[c] = NoCall
         /\ UNCHANGED <<steam, store, guard, history, mishaps>>
<1> DEFINE a == calls[c].uid
           users == RowsFile(Rebuilt(a), IF a \in Rebuilt(a) THEN a ELSE None)
<1>1. CallsFit /\ a \in Accounts \cup {None} /\ FilesTyped
  BY DEF TypeInv, CallsFit, Call
<1>2. UNCHANGED <<steam, store, guard, history, mishaps>>
  BY DEF ReadRows, Fail, Smooth
<1>3. users \in File /\ Marked(users) /\ users.st = "rows"
  BY <1>1, RebuiltSays, RowsFileSays DEF Marked
<1>4. CASE Return(c)
  BY <1>1, <1>2, <1>4, CallReturns DEF Others
<1>5. CASE ~Refuses(a) /\ calls' = [calls EXCEPT ![c].pc = "write", ![c].users = users]
  <2>1. calls[c].pc = "read"
    BY DEF ReadRows, At
  <2> HIDE DEF users, a
  <2>2. CallsFit' /\ Others(c) /\ calls'[c] = [calls[c] EXCEPT !.pc = "write", !.users = users]
    BY <1>1, <1>3, <1>5, <2>1, TakesRows
  <2> QED
    BY <1>2, <1>5, <2>2 DEF users, a
<1> QED
  BY <1>4, <1>5 DEF ReadRows, Fail

LEMMA WriteRowsSays ==
  ASSUME TypeInv, NEW c \in Callers, WriteRows(c)
  PROVE  /\ CallsFit' /\ Others(c)
         /\ calls[c].kind = "swap" /\ calls[c].users \in File /\ Marked(calls[c].users) /\ calls[c].users.st = "rows"
         /\ \/ BackUp /\ vdf' = calls[c].users /\ calls'[c] = [calls[c] EXCEPT !.pc = "reg"]
            \/ last' = BackedUp /\ Mishap /\ UNCHANGED vdf /\ calls'[c] = NoCall
         /\ claim' = {} /\ UNCHANGED <<reg, running, store, guard, past>>
<1>1. CallsFit /\ calls[c].pc = "write" /\ Fits(c, calls[c])
  BY DEF TypeInv, CallsFit, WriteRows, At
<1>2. calls[c].kind = "swap" /\ calls[c].users \in File /\ Marked(calls[c].users) /\ calls[c].users.st = "rows"
  BY <1>1 DEF Fits, Call
<1>3. claim' = {} /\ UNCHANGED <<reg, running, store, guard, past>>
  BY DEF WriteRows
<1>4. CASE BackUp /\ vdf' = calls[c].users /\ Goto(c, "reg")
  <2>1. CallsFit' /\ Others(c) /\ calls'[c] = [calls[c] EXCEPT !.pc = "reg"]
    BY <1>1, <1>4, PlaceSays DEF Stages
  <2> QED
    BY <1>2, <1>3, <1>4, <2>1
<1>5. CASE last' = BackedUp /\ Mishap /\ UNCHANGED vdf /\ Return(c)
  BY <1>1, <1>2, <1>3, <1>5, CallReturns DEF Others
<1> QED
  BY <1>4, <1>5 DEF WriteRows

LEMMA WriteRegSays ==
  ASSUME TypeInv, NEW c \in Callers, WriteReg(c)
  PROVE  /\ CallsFit' /\ Others(c) /\ calls'[c] = NoCall
         /\ calls[c].kind = "swap" /\ calls[c].users.auto \in Accounts \cup {None}
         /\ calls[c].uid \in Accounts \cup {None}
         /\ \/ claim' = {}
            \/ calls[c].calm /\ claim' = {calls[c].uid} /\ reg' = calls[c].users.auto /\ mishaps' = mishaps
         /\ UNCHANGED <<vdf, last, store, guard, past>>
         /\ reg' \in {reg, calls[c].users.auto} /\ running' \in {running, TRUE} /\ (Smooth \/ Mishap)
<1>1. CallsFit /\ calls[c].pc = "reg" /\ Fits(c, calls[c])
  BY DEF TypeInv, CallsFit, WriteReg, At
<1>2. calls[c].kind = "swap" /\ calls[c].users \in File /\ calls[c].uid \in Accounts \cup {None}
  BY <1>1 DEF Fits, Call
<1>3. CallsFit' /\ Others(c) /\ calls'[c] = NoCall
  BY <1>1, CallReturns DEF WriteReg, Others
<1>4. /\ claim' = {} \/ (calls[c].calm /\ claim' = {calls[c].uid} /\ reg' = calls[c].users.auto /\ mishaps' = mishaps)
      /\ UNCHANGED <<vdf, last, store, guard, past>>
      /\ reg' \in {reg, calls[c].users.auto} /\ running' \in {running, TRUE} /\ (Smooth \/ Mishap)
  BY DEF WriteReg, Smooth
<1> QED
  BY <1>2, <1>3, <1>4, FileSays

LEMMA ForgetBeginSays ==
  ASSUME TypeInv, NEW a \in Accounts, Forget(a)
  PROVE  /\ CallsFit' /\ Others(Ui)
         /\ calls'[Ui].kind = "forget" /\ calls'[Ui].pc = "release"
         /\ UNCHANGED <<steam, store, guard, history, mishaps>>
<1>1. calls' = [calls EXCEPT ![Ui] = [NoCall EXCEPT !.kind = "forget", !.pc = "release", !.uid = a]]
      /\ UNCHANGED <<steam, store, guard, history, mishaps>>
  BY DEF Forget
<1>2. PICK calm \in BOOLEAN : NoCall.calm = calm
  BY DEF NoCall
<1>3. calls' = [calls EXCEPT ![Ui] = Begun("forget", "release", a, calm)]
  BY <1>1, <1>2 DEF Begun, NoCall
<1>4. Ui \in Callers /\ CallsFit
  BY DEF Callers, TypeInv
<1>5. CallsFit' /\ Others(Ui) /\ calls'[Ui].kind = "forget" /\ calls'[Ui].pc = "release"
  BY <1>3, <1>4, BeginSays, Zenon
<1> QED
  BY <1>1, <1>5

(* The steps of a Forget in flight.                                          *)
LEMMA ForgetFits ==
  ASSUME TypeInv, ForgetStep
  PROVE  /\ Ui \in Callers /\ CallsFit /\ Fits(Ui, calls[Ui])
         /\ calls[Ui].kind = "forget" /\ calls[Ui].uid \in Accounts
         /\ calls[Ui].users \in File /\ Marked(calls[Ui].users)
<1>1. Ui \in Callers
  BY DEF Callers
<1>2. CallsFit /\ Fits(Ui, calls[Ui])
  BY <1>1 DEF TypeInv, CallsFit
<1>3. calls[Ui].pc \in {"release", "store", "rows", "rewrite"}
  BY DEF ForgetStep, ForgetRelease, ForgetStored, ForgetRead, ForgetWrite, At
<1> QED
  BY <1>1, <1>2, <1>3 DEF Fits, Call

LEMMA ForgetReleaseSays ==
  ASSUME TypeInv, ForgetRelease
  PROVE  /\ CallsFit' /\ Others(Ui)
         /\ calls'[Ui] \in {[calls[Ui] EXCEPT !.pc = "store"], NoCall}
         /\ guard' \in [Accounts -> Guard] /\ UNCHANGED <<steam, store, history, mishaps>>
<1>1. ForgetStep
  BY DEF ForgetStep
<1>2. calls[Ui].pc = "release" /\ UNCHANGED mishaps
  BY DEF ForgetRelease, At, Smooth
<1>3. CASE Fail(Ui)
  BY <1>1, <1>2, <1>3, ForgetFits, CallReturns DEF Fail, Others, TypeInv, RestTyped
<1>4. CASE /\ guard' = [guard EXCEPT ![calls[Ui].uid] = "none"] /\ Goto(Ui, "store")
           /\ UNCHANGED <<steam, store, history>>
  <2>1. guard' \in [Accounts -> Guard]
    BY <1>4 DEF TypeInv, RestTyped, Guard
  <2>2. CallsFit' /\ Others(Ui) /\ calls'[Ui] = [calls[Ui] EXCEPT !.pc = "store"]
    BY <1>1, <1>2, <1>4, ForgetFits, PlaceSays DEF Stages
  <2> QED
    BY <1>2, <1>4, <2>1, <2>2
<1> QED
  BY <1>3, <1>4 DEF ForgetRelease

LEMMA ForgetStoredSays ==
  ASSUME TypeInv, ForgetStored
  PROVE  LET a == calls[Ui].uid IN
         /\ CallsFit' /\ Others(Ui) /\ UNCHANGED <<steam, guard, claim>> /\ (Smooth \/ Mishap)
         /\ \/ /\ calls'[Ui] = [calls[Ui] EXCEPT !.pc = "rows"]
               /\ store' = [store EXCEPT ![a] = "none"] /\ past' = [past EXCEPT ![a] = "new"]
            \/ calls'[Ui] = NoCall /\ UNCHANGED <<store, past>>
<1> DEFINE a == calls[Ui].uid
<1>1. ForgetStep
  BY DEF ForgetStep
<1>2. calls[Ui].pc = "store"
  BY DEF ForgetStored, At
<1>3. CASE Mishap /\ Fail(Ui)
  <2>1. CallsFit' /\ Others(Ui) /\ calls'[Ui] = NoCall
    BY <1>1, <1>3, ForgetFits, CallReturns DEF Fail, Others
  <2> QED
    BY <1>3, <2>1 DEF Fail, history
<1>4. CASE /\ store' = [store EXCEPT ![a] = "none"] /\ past' = [past EXCEPT ![a] = "new"]
           /\ Goto(Ui, "rows") /\ Smooth /\ UNCHANGED <<steam, guard, claim>>
  <2>1. CallsFit' /\ Others(Ui) /\ calls'[Ui] = [calls[Ui] EXCEPT !.pc = "rows"]
    BY <1>1, <1>2, <1>4, ForgetFits, PlaceSays DEF Stages
  <2> QED
    BY <1>4, <2>1
<1> QED
  BY <1>3, <1>4 DEF ForgetStored

LEMMA WithoutSays ==
  ASSUME NEW file \in File, Marked(file), NEW a
  PROVE  /\ Without(file, a) \in File /\ Marked(Without(file, a)) /\ Without(file, a).st = "rows"
         /\ Without(file, a).rows = file.rows \ {a}
         /\ Without(file, a).auto = IF file.auto = a THEN None ELSE file.auto
<1>1. file.rows \in SUBSET Accounts /\ file.auto \in Accounts \cup {None}
  BY FileSays
<1> QED
  BY <1>1, RowsFileSays DEF Without, Marked

LEMMA ForgetReadSays ==
  ASSUME TypeInv, ForgetRead
  PROVE  LET a == calls[Ui].uid IN
         /\ CallsFit' /\ Others(Ui) /\ UNCHANGED <<steam, store, guard, mishaps>>
         /\ \/ calls'[Ui] = NoCall /\ UNCHANGED history
            \/ /\ calls'[Ui] = NoCall /\ a \notin LoginUsers.rows
               /\ past' = [past EXCEPT ![a] = "new"] /\ claim' = claim \ {a}
            \/ /\ a \in LoginUsers.rows /\ UNCHANGED history
               /\ calls'[Ui] = [calls[Ui] EXCEPT !.pc = "rewrite", !.users = Without(LoginUsers, a)]
<1> DEFINE a == calls[Ui].uid
<1>1. ForgetStep
  BY DEF ForgetStep
<1>2. calls[Ui].pc = "rows" /\ UNCHANGED mishaps /\ FilesTyped
  BY DEF ForgetRead, At, Smooth, TypeInv
<1>3. CASE Fail(Ui)
  <2>1. CallsFit' /\ Others(Ui) /\ calls'[Ui] = NoCall
    BY <1>1, <1>3, ForgetFits, CallReturns DEF Fail, Others
  <2> QED
    BY <1>2, <1>3, <2>1 DEF Fail
<1>4. CASE a \notin LoginUsers.rows /\ Forgotten(a) /\ UNCHANGED <<steam, store, guard>>
  <2>1. CallsFit' /\ Others(Ui) /\ calls'[Ui] = NoCall
    BY <1>1, <1>4, ForgetFits, CallReturns DEF Forgotten, Others
  <2> QED
    BY <1>2, <1>4, <2>1 DEF Forgotten
<1>5. CASE /\ a \in LoginUsers.rows
           /\ calls' = [calls EXCEPT ![Ui].pc = "rewrite", ![Ui].users = Without(LoginUsers, a)]
           /\ UNCHANGED <<steam, store, guard, history>>
  <2> DEFINE users == Without(LoginUsers, a)
  <2>1. users \in File /\ Marked(users) /\ users.st = "rows"
    BY <1>2, LoginUsersSays, WithoutSays
  <2> HIDE DEF users
  <2>2. CallsFit' /\ Others(Ui) /\ calls'[Ui] = [calls[Ui] EXCEPT !.pc = "rewrite", !.users = users]
    BY <1>1, <1>2, <1>5, <2>1, ForgetFits, TakesRows DEF users
  <2> QED
    BY <1>2, <1>5, <2>2 DEF users
<1> QED
  BY <1>3, <1>4, <1>5 DEF ForgetRead

LEMMA ForgetWriteSays ==
  ASSUME TypeInv, ForgetWrite
  PROVE  LET a == calls[Ui].uid IN
         /\ CallsFit' /\ Others(Ui) /\ calls'[Ui] = NoCall /\ UNCHANGED <<reg, running, store, guard>>
         /\ calls[Ui].users.st = "rows"
         /\ \/ /\ BackUp /\ vdf' = calls[Ui].users
               /\ past' = [past EXCEPT ![a] = "new"] /\ claim' = claim \ {a}
            \/ last' = BackedUp /\ Mishap /\ UNCHANGED <<vdf, past, claim>>
<1>1. ForgetStep
  BY DEF ForgetStep
<1>2. CallsFit' /\ Others(Ui) /\ calls'[Ui] = NoCall
  BY <1>1, ForgetFits, CallReturns DEF ForgetWrite, Forgotten, Others
<1>3. calls[Ui].users.st = "rows"
  BY <1>1, ForgetFits DEF Fits, ForgetWrite, At
<1> QED
  BY <1>2, <1>3 DEF ForgetWrite, Forgotten, history

(* A merge only adds to the store and to what is owed.                       *)
LEMMA MergedSays ==
  ASSUME NEW stored \in [Accounts -> Known], NEW rows, NEW index
  PROVE  /\ Merged(stored, rows, index) \in [Accounts -> Known]
         /\ \A a \in Accounts : /\ stored[a] # "none" => Merged(stored, rows, index)[a] # "none"
                                /\ stored[a] = "named" => Merged(stored, rows, index)[a] = "named"
  BY DEF Merged, Known

Grows == /\ store' \in [Accounts -> Known] /\ past' \in [Accounts -> Past]
         /\ \A a \in Accounts : /\ store[a] # "none" => store'[a] # "none"
                                /\ store[a] = "named" => store'[a] = "named"
                                /\ past'[a] = "owed" /\ store'[a] = "none" => past[a] = "owed"

LEMMA StoreSays ==
  ASSUME TypeInv, NEW rows, NEW index, Store(Merged(store, rows, index))
  PROVE  Grows
<1> DEFINE stored == Merged(store, rows, index)
<1>1. store \in [Accounts -> Known] /\ past \in [Accounts -> Past]
  BY DEF TypeInv, RestTyped
<1>2. /\ stored \in [Accounts -> Known]
      /\ \A a \in Accounts : /\ store[a] # "none" => stored[a] # "none"
                             /\ store[a] = "named" => stored[a] = "named"
  BY <1>1, MergedSays
<1> HIDE DEF stored
<1>3. store' = stored /\ past' = [a \in Accounts |-> IF stored[a] # "none" THEN "owed" ELSE past[a]]
  BY DEF Store, stored
<1> QED
  BY <1>1, <1>2, <1>3 DEF Grows, Past

LEMMA ListBeginSays ==
  ASSUME TypeInv, ListBegin
  PROVE  /\ CallsFit' /\ Others(Lister) /\ calls'[Lister].kind = "list"
         /\ UNCHANGED <<steam, store, guard, history, mishaps>>
<1> DEFINE users == RowsFile(LoginUsers.rows, None)
           index == Indexed \ LoginUsers.rows
           k == [NoCall EXCEPT !.kind = "list", !.pc = "merge", !.users = users, !.index = index]
<1>1. users \in File /\ Marked(users) /\ index \in SUBSET Accounts
  BY LoginUsersSays, RowsFileSays DEF TypeInv, Marked, Indexed
<1>2. calls' = [calls EXCEPT ![Lister] = k] /\ UNCHANGED <<steam, store, guard, history, mishaps>>
  BY DEF ListBegin
<1> HIDE DEF users, index
<1>3. k \in Call /\ k.kind = "list" /\ k.pc = "merge" /\ k.users = users
  BY <1>1 DEF NoCall, Call, Kinds, Stages
<1> HIDE DEF k
<1>4. Fits(Lister, k)
  BY <1>1, <1>3 DEF Fits
<1> QED
  BY <1>2, <1>3, <1>4, CallGoesOn DEF TypeInv, Others, Callers

LEMMA ListMergeSays ==
  ASSUME TypeInv, ListMerge
  PROVE  /\ CallsFit' /\ Others(Lister) /\ calls'[Lister] = NoCall
         /\ Grows /\ UNCHANGED <<steam, guard, claim>> /\ (Smooth \/ Mishap)
<1>1. CallsFit' /\ Others(Lister) /\ calls'[Lister] = NoCall
  BY CallReturns DEF ListMerge, TypeInv, Others, Callers
<1>2. ASSUME UNCHANGED <<store, past>>
      PROVE  Grows
  <2>1. store \in [Accounts -> Known] /\ past \in [Accounts -> Past]
    BY DEF TypeInv, RestTyped
  <2>2. store' = store /\ past' = past
    BY <1>2
  <2> QED
    BY <2>1, <2>2 DEF Grows
<1>3. ASSUME Store(Merged(store, calls[Lister].users.rows, calls[Lister].index))
      PROVE  Grows
  <2> DEFINE rows == calls[Lister].users.rows
             index == calls[Lister].index
  <2>1. Store(Merged(store, rows, index))
    BY <1>3
  <2> HIDE DEF rows, index
  <2> QED
    BY <2>1, StoreSays
<1>4. Grows
  BY <1>2, <1>3 DEF ListMerge
<1> QED
  BY <1>1, <1>4 DEF ListMerge

(* Steam, its user and others: a file they write names what they marked, and *)
(* what it does not list is not owed while a call has read another one.      *)
Rewritten(rows) ==
    /\ past' \in [Accounts -> Past]
    /\ \A a \in Accounts : past'[a] = "owed" => \/ past[a] = "owed"
                                                \/ a \in rows /\ \A c \in Callers \ {Lister} : Idle(c)

LEMMA TakenSays ==
  ASSUME TypeInv, Taken
  PROVE  Rewritten({}) /\ \A a \in Accounts : past'[a] = "owed" => a \in Shown(vdf', last, store)
<1>1. past \in [Accounts -> Past]
  BY DEF TypeInv, RestTyped
<1>2. \A a \in Accounts : past'[a] = IF past[a] = "owed" /\ a \notin Shown(vdf', last, store) THEN "new" ELSE past[a]
  BY DEF Taken
<1>3. past' \in [Accounts -> Past]
  BY <1>1 DEF Taken, Past
<1> QED
  BY <1>1, <1>2, <1>3 DEF Rewritten

LEMMA SteamSignsInSays ==
  ASSUME TypeInv, NEW a \in Accounts, SteamSignsIn(a)
  PROVE  /\ Rewritten(vdf'.rows)
         /\ \A b \in Accounts : past'[b] = "owed" => b = a \/ b \in Shown(vdf', last, store)
         /\ vdf' \in File /\ Marked(vdf') /\ vdf'.st = "rows" /\ a \in vdf'.rows /\ reg' = a
<1>1. past \in [Accounts -> Past] /\ vdf.rows \in SUBSET Accounts
  BY FileSays DEF TypeInv, RestTyped, FilesTyped
<1>2. vdf' = RowsFile(vdf.rows \cup {a}, a) /\ reg' = a
  BY DEF SteamSignsIn
<1>3. vdf' \in File /\ Marked(vdf') /\ vdf'.st = "rows" /\ a \in vdf'.rows
  BY <1>1, <1>2, RowsFileSays DEF Marked
<1>4. \A b \in Accounts : past'[b] = IF b = a THEN (IF \A c \in Callers \ {Lister} : Idle(c) THEN "owed" ELSE "new")
                                    ELSE IF past[b] = "owed" /\ b \notin Shown(vdf', last, store) THEN "new" ELSE past[b]
  BY DEF SteamSignsIn
<1>5. past' \in [Accounts -> Past]
  BY <1>1 DEF SteamSignsIn, Past
<1> QED
  BY <1>1, <1>2, <1>3, <1>4, <1>5 DEF Rewritten, Past

LEMMA GuardAddsSays ==
  ASSUME TypeInv, NEW a \in Accounts, NEW state \in Guard, GuardAdds(a, state)
  PROVE  Grows /\ guard' \in [Accounts -> Guard] /\ UNCHANGED <<steam, calls, claim, mishaps>>
<1>1. store \in [Accounts -> Known] /\ past \in [Accounts -> Past] /\ guard \in [Accounts -> Guard]
  BY DEF TypeInv, RestTyped
<1>2. store' \in [Accounts -> Known]
      /\ \A b \in Accounts : /\ store[b] # "none" => store'[b] # "none"
                             /\ store[b] = "named" => store'[b] = "named"
  BY <1>1, MergedSays DEF GuardAdds
<1>3. \A b \in Accounts : past'[b] = IF b = a THEN (IF store'[a] # "none" THEN "owed" ELSE "new") ELSE past[b]
  BY <1>1 DEF GuardAdds
<1>4. past' \in [Accounts -> Past] /\ guard' \in [Accounts -> Guard]
  BY <1>1 DEF GuardAdds, Past
<1> QED
  BY <1>2, <1>3, <1>4 DEF Grows, GuardAdds
-----------------------------------------------------------------------------
LEMMA TypesStep == TypeInv /\ [Next]_vars => TypeInv'
<1> SUFFICES ASSUME TypeInv, [Next]_vars
             PROVE  TypeInv'
  OBVIOUS
<1>1. CallsFit /\ FilesTyped /\ RestTyped
  BY DEF TypeInv
<1>2. Smooth \/ Mishap => mishaps' \in 0 .. MaxMishaps
  BY <1>1 DEF Smooth, Mishap, RestTyped
<1>3. ASSUME Grows, UNCHANGED <<steam, claim>>, guard' \in [Accounts -> Guard], CallsFit', Smooth \/ Mishap
      PROVE  TypeInv'
  BY <1>1, <1>2, <1>3 DEF Grows, TypeInv, FilesTyped, RestTyped, steam
<1>4. ASSUME UNCHANGED <<steam, store, guard, history>>, CallsFit', Smooth \/ Mishap
      PROVE  TypeInv'
  BY <1>1, <1>2, <1>4 DEF TypeInv, FilesTyped, RestTyped, steam, history
<1>5. CASE UNCHANGED vars
  <2>1. CallsFit'
    BY <1>1, <1>5 DEF CallsFit, vars
  <2> QED
    BY <1>4, <1>5, <2>1 DEF vars, steam, history, Smooth
<1>6. CASE List
  <2>1. Grows
    BY <1>6, StoreSays DEF List
  <2>2. CallsFit'
    BY <1>1, <1>6 DEF CallsFit, List
  <2> QED
    BY <1>1, <1>3, <1>6, <2>1, <2>2 DEF List, RestTyped, Smooth
<1>7. CASE ListBegin
  BY <1>4, <1>7, ListBeginSays DEF Smooth
<1>8. CASE ListMerge
  BY <1>1, <1>3, <1>8, ListMergeSays DEF RestTyped
<1>9. ASSUME NEW c \in Callers, NEW a \in Accounts \cup {None}, NEW args, SwapTo(c, a, args)
      PROVE  TypeInv'
  <2>1. CallsFit' /\ store' \in [Accounts -> Known]
    BY <1>9, SwapToSays
  <2> QED
    BY <1>1, <1>9, <2>1 DEF SwapTo, TypeInv, FilesTyped, RestTyped, steam, history
<1>10. ASSUME NEW c \in Callers, SwitchStep(c)
       PROVE  TypeInv'
  <2>1. CASE Close(c)
    BY <1>1, <2>1, CloseSays DEF TypeInv, FilesTyped, RestTyped
  <2>2. CASE ReadRows(c)
    BY <1>4, <2>2, ReadRowsSays DEF Smooth
  <2>3. CASE WriteRows(c)
    <3>1. last' \in File /\ Marked(last') /\ mishaps' \in 0 .. MaxMishaps
      BY <2>3, BackUpSays, WriteRowsSays
    <3>2. vdf' \in File /\ Marked(vdf') /\ CallsFit' /\ claim' = {} /\ UNCHANGED <<reg, running, store, guard, past>>
      BY <1>1, <2>3, WriteRowsSays DEF FilesTyped
    <3> QED
      BY <1>1, <3>1, <3>2 DEF TypeInv, FilesTyped, RestTyped
  <2>4. CASE WriteReg(c)
    <3>1. claim' = {} \/ \E a \in Accounts \cup {None} : claim' = {a}
      BY <2>4, WriteRegSays
    <3>2. CallsFit' /\ UNCHANGED <<vdf, last, store, guard, past>> /\ mishaps' \in 0 .. MaxMishaps
          /\ reg' \in Accounts \cup {None} /\ running' \in BOOLEAN
      BY <1>1, <1>2, <2>4, WriteRegSays DEF RestTyped
    <3> QED
      BY <1>1, <3>1, <3>2 DEF TypeInv, FilesTyped, RestTyped
  <2> QED
    BY <1>10, <2>1, <2>2, <2>3, <2>4 DEF SwitchStep
<1>11. ASSUME NEW a \in Accounts, Forget(a)
       PROVE  TypeInv'
  BY <1>4, <1>11, ForgetBeginSays DEF Smooth
<1>12. CASE ForgetStep
  <2> DEFINE a == calls[Ui].uid
  <2>1. a \in Accounts /\ calls[Ui].users \in File /\ Marked(calls[Ui].users)
    BY <1>12, ForgetFits
  <2>2. [past EXCEPT ![a] = "new"] \in [Accounts -> Past] /\ [store EXCEPT ![a] = "none"] \in [Accounts -> Known]
        /\ (claim \ {a} = {} \/ \E x \in Accounts \cup {None} : claim \ {a} = {x})
    <3>1. claim \ {a} = {} \/ claim \ {a} = claim
      BY <1>1 DEF RestTyped
    <3> QED
      BY <1>1, <3>1 DEF RestTyped, Past, Known
  <2> HIDE DEF a
  <2>3. CASE ForgetRelease
    BY <1>1, <1>2, <2>3, ForgetReleaseSays DEF TypeInv, FilesTyped, RestTyped, steam, history, Smooth
  <2>4. CASE ForgetStored
    <3>1. CallsFit' /\ UNCHANGED <<steam, guard, claim>> /\ (Smooth \/ Mishap)
      BY <2>4, ForgetStoredSays
    <3>2. store' \in [Accounts -> Known] /\ past' \in [Accounts -> Past]
      BY <1>1, <2>2, <2>4, ForgetStoredSays DEF RestTyped, a
    <3> QED
      BY <1>1, <1>2, <3>1, <3>2 DEF TypeInv, FilesTyped, RestTyped, steam
  <2>5. CASE ForgetRead
    <3>1. CallsFit' /\ UNCHANGED <<steam, store, guard, mishaps>>
      BY <2>5, ForgetReadSays
    <3>2. past' \in [Accounts -> Past] /\ (claim' = {} \/ \E x \in Accounts \cup {None} : claim' = {x})
      BY <1>1, <2>2, <2>5, ForgetReadSays DEF RestTyped, history, a
    <3> QED
      BY <1>1, <3>1, <3>2 DEF TypeInv, FilesTyped, RestTyped, steam
  <2>6. CASE ForgetWrite
    <3>1. CallsFit' /\ UNCHANGED <<reg, running, store, guard>>
      BY <2>6, ForgetWriteSays
    <3>2. last' \in File /\ Marked(last') /\ mishaps' \in 0 .. MaxMishaps
      BY <2>6, BackUpSays, ForgetWriteSays
    <3>3. vdf' \in File /\ Marked(vdf')
      BY <1>1, <2>1, <2>6, ForgetWriteSays DEF FilesTyped
    <3>4. past' \in [Accounts -> Past] /\ (claim' = {} \/ \E x \in Accounts \cup {None} : claim' = {x})
      BY <1>1, <2>2, <2>6, ForgetWriteSays DEF RestTyped, a
    <3> QED
      BY <1>1, <3>1, <3>2, <3>3, <3>4 DEF TypeInv, FilesTyped, RestTyped
  <2> QED
    BY <1>12, <2>3, <2>4, <2>5, <2>6 DEF ForgetStep
<1>13. ASSUME NEW a \in Accounts, SteamSignsIn(a)
       PROVE  TypeInv'
  <2>1. CallsFit' /\ past' \in [Accounts -> Past] /\ vdf' \in File /\ Marked(vdf') /\ reg' \in Accounts
    BY <1>1, <1>13, DisturbedSays, SteamSignsInSays DEF SteamSignsIn, Rewritten
  <2> QED
    BY <1>1, <1>13, <2>1 DEF SteamSignsIn, TypeInv, FilesTyped, RestTyped
<1>14. CASE StartSteam
  <2>1. CallsFit'
    BY <1>1, <1>14 DEF CallsFit, StartSteam
  <2> QED
    BY <1>1, <1>14, <2>1 DEF StartSteam, TypeInv, FilesTyped, RestTyped, history
<1>15. CASE ClearLoginUsers \/ Corrupt
  <2>1. CallsFit' /\ past' \in [Accounts -> Past] /\ vdf' \in {Missing, Garbage} /\ claim' = {}
    BY <1>1, <1>15, DisturbedSays, TakenSays DEF ClearLoginUsers, Corrupt, Rewritten
  <2>2. UNCHANGED <<last, reg, running, store, guard>> /\ (Smooth \/ Mishap)
    BY <1>15 DEF ClearLoginUsers, Corrupt, Smooth
  <2> QED
    BY <1>1, <1>2, <2>1, <2>2, NoFileIsFile DEF TypeInv, FilesTyped, RestTyped
<1>16. CASE ClearAutoLogin
  <2>1. CallsFit'
    BY <1>1, <1>16, DisturbedSays DEF ClearAutoLogin
  <2> QED
    BY <1>1, <1>16, <2>1 DEF ClearAutoLogin, TypeInv, FilesTyped, RestTyped
<1>17. ASSUME NEW a \in Accounts, NEW state \in Guard, GuardAdds(a, state)
       PROVE  TypeInv'
  <2>1. CallsFit'
    BY <1>1, <1>17 DEF CallsFit, GuardAdds
  <2> QED
    BY <1>3, <1>17, <2>1, GuardAddsSays DEF Smooth
<1>18. CASE Crash
  <2>1. CallsFit'
    BY <1>18, NoCallFits DEF Crash, CallsFit, Fits
  <2> QED
    BY <1>4, <1>18, <2>1 DEF Crash
<1> QED
  BY <1>5, <1>6, <1>7, <1>8, <1>9, <1>10, <1>11, <1>12, <1>13, <1>14, <1>15, <1>16, <1>17, <1>18 DEF Next
-----------------------------------------------------------------------------
(* No account is lost.  What the list owes its user and the store does not   *)
(* have is in the file; and whoever is about to write the file has it there  *)
(* too, but for the account that is being forgotten.                         *)
LeftOut == {a \in Accounts : past[a] = "owed" /\ store[a] = "none"}
InFile == LeftOut \subseteq LoginUsers.rows
InHand == \A c \in Callers :
    /\ calls[c].pc = "write" => LeftOut \subseteq calls[c].users.rows
    /\ calls[c].pc = "rewrite" => LeftOut \subseteq calls[c].users.rows \cup {calls[c].uid}
KeptInv == TypeInv /\ InFile /\ InHand

(* A file that cannot be read is the last mishap: nothing fails after it.    *)
NothingWorse == vdf.st = "bad" => mishaps >= MaxMishaps

LEMMA HandsStay ==
  ASSUME InHand, NEW c \in Callers, Others(c), LeftOut' \subseteq LeftOut,
         calls'[c].pc \notin {"write", "rewrite"}
  PROVE  InHand'
  BY DEF InHand, Others

LEMMA FileStays ==
  ASSUME InFile, UNCHANGED <<vdf, last>>, LeftOut' \subseteq LeftOut
  PROVE  InFile'
  BY DEF InFile, LoginUsers

(* The new file has what was in hand; it has no row only if nothing was.     *)
LEMMA FileWritten ==
  ASSUME LeftOut' \subseteq vdf'.rows
  PROVE  InFile'
<1>1. CASE vdf'.rows = {}
  BY <1>1 DEF InFile
<1>2. CASE vdf'.rows # {}
  BY <1>2 DEF InFile, LoginUsers, Parsed
<1> QED
  BY <1>1, <1>2

(* A write that fails has replaced the backup, and not the file.             *)
LEMMA FileNotWritten ==
  ASSUME TypeInv, InFile, NothingWorse, last' = BackedUp, Mishap, UNCHANGED vdf, LeftOut' \subseteq LeftOut
  PROVE  InFile'
<1>1. vdf.st # "bad"
  BY DEF NothingWorse, Mishap, TypeInv, RestTyped
<1>2. CASE vdf.rows = {}
  BY <1>1, <1>2 DEF BackedUp, InFile, LoginUsers
<1>3. CASE vdf.rows # {}
  BY <1>3 DEF InFile, LoginUsers, Parsed
<1> QED
  BY <1>2, <1>3

LEMMA KeptStep ==
  ASSUME KeptInv, NothingWorse, [Next]_vars
  PROVE  KeptInv'
<1>1. TypeInv /\ InFile /\ InHand /\ CallsFit /\ FilesTyped /\ RestTyped
  BY DEF KeptInv, TypeInv
<1> SUFFICES InFile' /\ InHand'
  BY <1>1, TypesStep DEF KeptInv
<1>2. Grows => LeftOut' \subseteq LeftOut
  BY DEF Grows, LeftOut
<1>3. ASSUME UNCHANGED <<store, past>>
      PROVE  LeftOut' = LeftOut
  BY <1>3 DEF LeftOut
<1>4. Lister \in Callers /\ Ui \in Callers
  BY DEF Callers
<1>5. NoCall.pc = "idle"
  BY DEF NoCall
<1>6. CASE UNCHANGED vars
  BY <1>1, <1>3, <1>6, FileStays DEF vars, InHand
<1>7. CASE List
  <2>1. LeftOut' \subseteq LeftOut
    BY <1>1, <1>2, <1>7, StoreSays DEF List
  <2> QED
    BY <1>1, <1>7, <2>1, FileStays DEF List, steam, InHand
<1>8. CASE ListBegin
  <2>1. LeftOut' \subseteq LeftOut /\ UNCHANGED <<vdf, last>>
    BY <1>1, <1>3, <1>8, ListBeginSays DEF steam, history
  <2>2. Others(Lister) /\ calls'[Lister].pc = "merge"
    BY <1>1, <1>4, <1>8, ListBeginSays DEF CallsFit, Fits
  <2> QED
    BY <1>1, <1>4, <2>1, <2>2, FileStays, HandsStay
<1>9. CASE ListMerge
  <2>1. LeftOut' \subseteq LeftOut /\ UNCHANGED <<vdf, last>> /\ Others(Lister) /\ calls'[Lister] = NoCall
    BY <1>1, <1>2, <1>9, ListMergeSays DEF steam
  <2> QED
    BY <1>1, <1>4, <1>5, <2>1, FileStays, HandsStay
<1>10. ASSUME NEW c \in Callers, NEW a \in Accounts \cup {None}, NEW args, SwapTo(c, a, args)
       PROVE  InFile' /\ InHand'
  <2>1. Others(c) /\ calls'[c].pc = "close" /\ \A b \in Accounts : store'[b] = store[b] \/ store'[b] = "named"
    BY <1>1, <1>10, SwapToSays
  <2>2. LeftOut' \subseteq LeftOut /\ UNCHANGED <<vdf, last>>
    BY <1>10, <2>1 DEF SwapTo, LeftOut, steam, history
  <2> QED
    BY <1>1, <2>1, <2>2, FileStays, HandsStay
<1>11. ASSUME NEW c \in Callers, Close(c)
       PROVE  InFile' /\ InHand'
  <2>1. Others(c) /\ calls'[c].pc \in {"read", "idle"} /\ LeftOut' = LeftOut /\ UNCHANGED <<vdf, last>>
    BY <1>1, <1>3, <1>5, <1>11, CloseSays DEF CallsFit, Call
  <2> QED
    BY <1>1, <2>1, FileStays, HandsStay
<1>12. ASSUME NEW c \in Callers, ReadRows(c)
       PROVE  InFile' /\ InHand'
  <2> DEFINE a == calls[c].uid
             users == RowsFile(Rebuilt(a), IF a \in Rebuilt(a) THEN a ELSE None)
  <2>1. Others(c) /\ LeftOut' = LeftOut /\ UNCHANGED <<vdf, last>>
    BY <1>1, <1>3, <1>12, ReadRowsSays DEF steam, history
  <2>2. CASE calls'[c] = NoCall
    BY <1>1, <1>5, <2>1, <2>2, FileStays, HandsStay
  <2>3. CASE calls'[c] = [calls[c] EXCEPT !.pc = "write", !.users = users]
    <3>1. users.rows = Rebuilt(a)
      BY DEF RowsFile
    <3>2. a \in Accounts \cup {None}
      BY <1>1 DEF CallsFit, Call
    <3>3. LeftOut' \subseteq users.rows
      BY <1>1, <2>1, <3>1, <3>2, RebuiltSays DEF InFile
    <3>4. calls'[c].pc = "write" /\ calls'[c].users = users
      BY <1>1, <2>3 DEF CallsFit, Call
    <3> HIDE DEF users
    <3>5. InHand'
      BY <1>1, <2>1, <3>3, <3>4 DEF InHand, Others
    <3> QED
      BY <1>1, <2>1, <3>5, FileStays
  <2> QED
    BY <1>1, <1>12, <2>2, <2>3, ReadRowsSays
<1>13. ASSUME NEW c \in Callers, WriteRows(c)
       PROVE  InFile' /\ InHand'
  <2>1. Others(c) /\ LeftOut' = LeftOut
    BY <1>1, <1>3, <1>13, WriteRowsSays
  <2>2. calls'[c].pc \in {"reg", "idle"}
    BY <1>1, <1>5, <1>13, WriteRowsSays DEF CallsFit, Call
  <2>3. LeftOut \subseteq calls[c].users.rows
    BY <1>1, <1>13 DEF InHand, WriteRows, At
  <2>4. InFile'
    <3>1. CASE vdf' = calls[c].users
      BY <2>1, <2>3, <3>1, FileWritten
    <3>2. CASE last' = BackedUp /\ Mishap /\ UNCHANGED vdf
      BY <1>1, <2>1, <3>2, FileNotWritten
    <3> QED
      BY <1>1, <1>13, <3>1, <3>2, WriteRowsSays
  <2> QED
    BY <1>1, <2>1, <2>2, <2>4, HandsStay
<1>14. ASSUME NEW c \in Callers, WriteReg(c)
       PROVE  InFile' /\ InHand'
  <2>1. Others(c) /\ calls'[c] = NoCall /\ LeftOut' = LeftOut /\ UNCHANGED <<vdf, last>>
    BY <1>1, <1>3, <1>14, WriteRegSays
  <2> QED
    BY <1>1, <1>5, <2>1, FileStays, HandsStay
<1>15. ASSUME NEW a \in Accounts, Forget(a)
       PROVE  InFile' /\ InHand'
  <2>1. Others(Ui) /\ calls'[Ui].pc = "release" /\ LeftOut' = LeftOut /\ UNCHANGED <<vdf, last>>
    BY <1>1, <1>3, <1>15, ForgetBeginSays DEF steam, history
  <2> QED
    BY <1>1, <1>4, <2>1, FileStays, HandsStay
<1>16. CASE ForgetStep
  <2> DEFINE a == calls[Ui].uid
  <2>1. a \in Accounts /\ calls[Ui] \in Call
    BY <1>1, <1>4, <1>16, ForgetFits DEF CallsFit
  <2>2. past \in [Accounts -> Past] /\ store \in [Accounts -> Known]
    BY <1>1 DEF RestTyped
  <2>3. CASE ForgetRelease
    <3>1. Others(Ui) /\ calls'[Ui].pc \in {"store", "idle"} /\ LeftOut' = LeftOut /\ UNCHANGED <<vdf, last>>
      BY <1>1, <1>3, <1>5, <2>1, <2>3, ForgetReleaseSays DEF steam, history, Call
    <3> QED
      BY <1>1, <1>4, <3>1, FileStays, HandsStay
  <2>4. CASE ForgetStored
    <3>1. Others(Ui) /\ calls'[Ui].pc \in {"rows", "idle"} /\ UNCHANGED <<vdf, last>>
      BY <1>1, <1>5, <2>1, <2>4, ForgetStoredSays DEF steam, Call
    <3>2. LeftOut' \subseteq LeftOut
      BY <1>1, <2>1, <2>2, <2>4, ForgetStoredSays DEF LeftOut
    <3> QED
      BY <1>1, <1>4, <3>1, <3>2, FileStays, HandsStay
  <2>5. CASE ForgetRead
    <3>1. Others(Ui) /\ UNCHANGED <<vdf, last, store>>
      BY <1>1, <2>5, ForgetReadSays DEF steam
    <3>2. LeftOut' \subseteq LeftOut
      BY <1>1, <2>1, <2>2, <2>5, <3>1, ForgetReadSays DEF LeftOut, history
    <3>3. CASE calls'[Ui] = NoCall
      BY <1>1, <1>4, <1>5, <3>1, <3>2, <3>3, FileStays, HandsStay
    <3>4. CASE calls'[Ui] = [calls[Ui] EXCEPT !.pc = "rewrite", !.users = Without(LoginUsers, a)]
      <4>1. calls'[Ui].pc = "rewrite" /\ calls'[Ui].uid = a /\ calls'[Ui].users = Without(LoginUsers, a)
        BY <2>1, <3>4 DEF Call
      <4>2. Without(LoginUsers, a).rows = LoginUsers.rows \ {a}
        BY <1>1, LoginUsersSays, WithoutSays
      <4>3. LeftOut' \subseteq calls'[Ui].users.rows \cup {calls'[Ui].uid}
        BY <1>1, <3>2, <4>1, <4>2 DEF InFile
      <4>4. InHand'
        BY <1>1, <3>1, <3>2, <4>1, <4>3 DEF InHand, Others
      <4> QED
        BY <1>1, <3>1, <3>2, <4>4, FileStays
    <3> QED
      BY <1>1, <2>5, <3>3, <3>4, ForgetReadSays
  <2>6. CASE ForgetWrite
    <3>1. Others(Ui) /\ calls'[Ui] = NoCall /\ UNCHANGED store
      BY <1>1, <2>6, ForgetWriteSays
    <3>2. LeftOut \subseteq calls[Ui].users.rows \cup {a}
      BY <1>1, <1>4, <2>6 DEF InHand, ForgetWrite, At
    <3>3. CASE vdf' = calls[Ui].users /\ past' = [past EXCEPT ![a] = "new"]
      <4>1. LeftOut' \subseteq LeftOut \ {a}
        BY <2>1, <2>2, <3>1, <3>3 DEF LeftOut
      <4> QED
        BY <1>1, <1>4, <1>5, <3>1, <3>2, <3>3, <4>1, FileWritten, HandsStay
    <3>4. CASE last' = BackedUp /\ Mishap /\ UNCHANGED <<vdf, past>>
      <4>1. LeftOut' = LeftOut
        BY <1>3, <3>1, <3>4
      <4> QED
        BY <1>1, <1>4, <1>5, <3>1, <3>4, <4>1, FileNotWritten, HandsStay
    <3> QED
      BY <1>1, <2>6, <3>3, <3>4, ForgetWriteSays
  <2> QED
    BY <1>16, <2>3, <2>4, <2>5, <2>6 DEF ForgetStep
(* Steam and others write another file; what is not listed then is not owed, *)
(* and nothing more is while a call has one in hand.                         *)
<1>17. ASSUME NEW rows, Rewritten(rows), UNCHANGED <<last, store>>, calls' = Disturbed,
              \A b \in LeftOut' : b \in vdf'.rows \/ b \in Shown(vdf', last, store)
       PROVE  InFile' /\ InHand'
  <2>1. InFile'
    <3>1. \A b \in LeftOut' : b \in vdf'.rows \/ b \in LoginUsers'.rows
      BY <1>17 DEF Shown, LeftOut, LoginUsers
    <3>2. vdf'.rows \subseteq LoginUsers'.rows
      BY DEF LoginUsers, Parsed
    <3> QED
      BY <3>1, <3>2 DEF InFile
  <2>2. \A c \in Callers : calls'[c].pc = calls[c].pc /\ calls'[c].users = calls[c].users /\ calls'[c].uid = calls[c].uid
    BY <1>1, <1>17, DisturbedSays
  <2>3. ASSUME NEW c \in Callers, calls[c].pc \in {"write", "rewrite"}
        PROVE  LeftOut' \subseteq LeftOut
    <3>1. c \in Callers \ {Lister} /\ ~Idle(c)
      BY <1>1, <2>3 DEF CallsFit, Fits, Idle
    <3> QED
      BY <1>17, <3>1 DEF Rewritten, LeftOut
  <2>4. InHand'
    BY <1>1, <2>2, <2>3 DEF InHand
  <2> QED
    BY <2>1, <2>4
<1>18. ASSUME NEW a \in Accounts, SteamSignsIn(a)
       PROVE  InFile' /\ InHand'
  <2>1. UNCHANGED <<last, store>> /\ calls' = Disturbed
    BY <1>18 DEF SteamSignsIn
  <2>2. Rewritten(vdf'.rows) /\ \A b \in LeftOut' : b \in vdf'.rows \/ b \in Shown(vdf', last, store)
    BY <1>1, <1>18, SteamSignsInSays DEF LeftOut
  <2> QED
    BY <1>17, <2>1, <2>2
<1>19. CASE ClearLoginUsers \/ Corrupt
  <2>1. UNCHANGED <<last, store>> /\ calls' = Disturbed /\ Taken
    BY <1>19 DEF ClearLoginUsers, Corrupt
  <2>2. Rewritten({}) /\ \A b \in LeftOut' : b \in Shown(vdf', last, store)
    BY <1>1, <2>1, TakenSays DEF LeftOut
  <2> QED
    BY <1>17, <2>1, <2>2
<1>20. CASE StartSteam
  BY <1>1, <1>3, <1>20, FileStays DEF StartSteam, history, InHand
<1>21. CASE ClearAutoLogin
  <2>1. UNCHANGED <<vdf, last, store, past>> /\ calls' = Disturbed
    BY <1>21 DEF ClearAutoLogin
  <2>2. \A c \in Callers : calls'[c].pc = calls[c].pc /\ calls'[c].users = calls[c].users /\ calls'[c].uid = calls[c].uid
    BY <1>1, <2>1, DisturbedSays
  <2> QED
    BY <1>1, <1>3, <2>1, <2>2, FileStays DEF InHand
<1>22. ASSUME NEW a \in Accounts, NEW state \in Guard, GuardAdds(a, state)
       PROVE  InFile' /\ InHand'
  <2>1. LeftOut' \subseteq LeftOut /\ UNCHANGED <<vdf, last, calls>>
    BY <1>1, <1>2, <1>22, GuardAddsSays DEF steam
  <2> QED
    BY <1>1, <2>1, FileStays DEF InHand
<1>23. CASE Crash
  <2>1. UNCHANGED <<vdf, last, store, past>> /\ \A c \in Callers : calls'[c].pc = "idle"
    BY <1>5, <1>23 DEF Crash, steam, history
  <2> QED
    BY <1>1, <1>3, <2>1, FileStays DEF InHand
<1> QED
  BY <1>6, <1>7, <1>8, <1>9, <1>10, <1>11, <1>12, <1>13, <1>14, <1>15, <1>16, <1>18, <1>19, <1>20, <1>21, <1>22, <1>23
  DEF Next, SwitchStep
-----------------------------------------------------------------------------
(* The file and the registry name the account of the last switch, when no    *)
(* two callers' switches overlap.                                            *)

(* Of the window and the shortcuts one has a call in flight.                 *)
OneSwitcher == \A c, d \in Callers \ {Lister} : ~Idle(c) /\ ~Idle(d) => c = d

(* A switch that nobody else's write disturbed has a name for its target,    *)
(* marks it in the file and finds its file when it writes the registry.      *)
Sure(k) == k.kind = "swap" /\ k.calm =>
    /\ k.pc \in {"close", "read"} /\ k.uid \in Accounts \ LoginUsers.rows =>
          store[k.uid] = "named" \/ LoginUsers.st = "bad"
    /\ k.pc \in {"write", "reg"} => k.users.auto = k.uid
    /\ k.pc = "reg" => vdf = k.users
SwapIsSure == \A c \in Callers : Sure(calls[c])

(* While a switch is the last word, a Forget rewrites what is there.         *)
ForgetIsFresh == claim # {} /\ At(Ui, "rewrite") =>
    /\ calls[Ui].uid \in LoginUsers.rows
    /\ calls[Ui].users = Without(LoginUsers, calls[Ui].uid)

(* SwitchPoints for the accounts; a switch to none comes below.              *)
AccountPoints == \A a \in claim \ {None} : vdf.auto = a /\ reg = a
PointsInv == TypeInv /\ OneSwitcher /\ SwapIsSure /\ ForgetIsFresh /\ AccountPoints

LEMMA OneSwitcherStep ==
  ASSUME "overlap" \notin Happens, TypeInv, OneSwitcher, [Next]_vars
  PROVE  OneSwitcher'
<1>1. CallsFit /\ Lister \in Callers /\ Ui \in Callers /\ Ui # Lister
  BY DEF TypeInv, Callers
(* A call that was in flight goes on alone.                                  *)
<1>2. ASSUME NEW c \in Callers, Others(c), ~Idle(c) \/ c = Lister \/ Idle(c)'
      PROVE  OneSwitcher'
  BY <1>2 DEF OneSwitcher, Others, Idle
<1>3. ASSUME \A c \in Callers : calls'[c].pc = calls[c].pc
      PROVE  OneSwitcher'
  BY <1>3 DEF OneSwitcher, Idle
(* A call that begins finds nobody.                                          *)
<1>4. ASSUME NEW c \in Callers, MayBegin(c), Others(c)
      PROVE  OneSwitcher'
  BY <1>4 DEF MayBegin, OneSwitcher, Others, Idle
<1>5. CASE ListBegin \/ ListMerge
  BY <1>1, <1>2, <1>5, ListBeginSays, ListMergeSays
<1>6. ASSUME NEW c \in Callers, NEW a \in Accounts \cup {None}, NEW args, SwapTo(c, a, args)
      PROVE  OneSwitcher'
  <2>1. MayBegin(c)
    BY <1>6 DEF SwapTo
  <2> QED
    BY <1>4, <1>6, <2>1, SwapToSays
<1>7. ASSUME NEW c \in Callers, SwitchStep(c)
      PROVE  OneSwitcher'
  <2>1. ~Idle(c)
    BY <1>7 DEF SwitchStep, Close, ReadRows, WriteRows, WriteReg, At, Idle
  <2>2. Others(c)
    BY <1>7, CloseSays, ReadRowsSays, WriteRowsSays, WriteRegSays DEF SwitchStep
  <2> QED
    BY <1>2, <2>1, <2>2
<1>8. ASSUME NEW a \in Accounts, Forget(a)
      PROVE  OneSwitcher'
  <2>1. MayBegin(Ui)
    BY <1>8 DEF Forget
  <2> QED
    BY <1>1, <1>4, <1>8, <2>1, ForgetBeginSays
<1>9. CASE ForgetStep
  <2>1. ~Idle(Ui)
    BY <1>9 DEF ForgetStep, ForgetRelease, ForgetStored, ForgetRead, ForgetWrite, At, Idle
  <2>2. Others(Ui)
    BY <1>9, ForgetReleaseSays, ForgetStoredSays, ForgetReadSays, ForgetWriteSays DEF ForgetStep
  <2> QED
    BY <1>1, <1>2, <2>1, <2>2
<1>10. CASE calls' = Disturbed
  BY <1>1, <1>3, <1>10, DisturbedSays
<1>11. CASE UNCHANGED calls
  BY <1>3, <1>11
<1>12. CASE Crash
  BY <1>12 DEF Crash, OneSwitcher, Idle, NoCall
<1> QED
  BY <1>5, <1>6, <1>7, <1>8, <1>9, <1>10, <1>11, <1>12
  DEF Next, vars, List, SteamSignsIn, StartSteam, ClearLoginUsers, ClearAutoLogin, Corrupt, GuardAdds

(* A caller whose call is in flight is the only one.                         *)
LEMMA Alone ==
  ASSUME TypeInv, OneSwitcher, NEW c \in Callers \ {Lister}, ~Idle(c)
  PROVE  \A d \in Callers \ {c} : calls[d].kind \in {"none", "list"} /\ calls[d].pc \in {"idle", "merge"}
  BY DEF TypeInv, CallsFit, Fits, OneSwitcher, Idle, Call, Kinds

(* A step that writes none of Steam's files.                                 *)
LEMMA FilesRest ==
  ASSUME SwapIsSure, ForgetIsFresh, AccountPoints, Ui \in Callers,
         UNCHANGED <<vdf, last, reg>>, claim' \subseteq claim,
         \A a \in Accounts : store[a] = "named" => store'[a] = "named",
         \A c \in Callers : calls'[c] = calls[c] \/ (calls'[c].kind # "swap" /\ calls'[c].pc # "rewrite")
  PROVE  SwapIsSure' /\ ForgetIsFresh' /\ AccountPoints'
<1>1. LoginUsers' = LoginUsers
  BY DEF LoginUsers
<1>2. ASSUME NEW c \in Callers
      PROVE  Sure(calls[c])'
  BY <1>1, <1>2 DEF SwapIsSure, Sure
<1>3. ForgetIsFresh'
  <2>1. CASE calls'[Ui] = calls[Ui]
    BY <1>1, <2>1 DEF ForgetIsFresh, At
  <2>2. CASE calls'[Ui].pc # "rewrite"
    BY <2>2 DEF ForgetIsFresh, At
  <2> QED
    BY <2>1, <2>2
<1>4. AccountPoints'
  BY DEF AccountPoints
<1> QED
  BY <1>2, <1>3, <1>4 DEF SwapIsSure

(* After somebody else's write nothing is claimed.                           *)
LEMMA FilesDisturbed ==
  ASSUME CallsFit, calls' = Disturbed, claim' = {}
  PROVE  SwapIsSure' /\ ForgetIsFresh' /\ AccountPoints'
<1>1. \A c \in Callers : calls'[c].calm = FALSE
  BY DisturbedSays
<1> QED
  BY <1>1 DEF SwapIsSure, Sure, ForgetIsFresh, AccountPoints

LEMMA SwitchKeepsPoints ==
  ASSUME PointsInv, NEW c \in Callers, SwitchStep(c)
  PROVE  SwapIsSure' /\ ForgetIsFresh' /\ AccountPoints'
<1>1. TypeInv /\ OneSwitcher /\ SwapIsSure /\ ForgetIsFresh /\ AccountPoints /\ CallsFit /\ FilesTyped /\ Ui \in Callers
  BY DEF PointsInv, TypeInv, Callers
<1>2. NoCall.pc = "idle" /\ NoCall.kind = "none"
  BY DEF NoCall
<1>3. calls[c].kind = "swap" /\ c # Lister /\ ~Idle(c) /\ calls[c] \in Call /\ Sure(calls[c])
  BY <1>1 DEF CallsFit, Fits, SwitchStep, Close, ReadRows, WriteRows, WriteReg, At, Idle, SwapIsSure
<1>4. \A d \in Callers \ {c} : calls[d].kind \in {"none", "list"} /\ calls[d].pc \in {"idle", "merge"}
  BY <1>1, <1>3, Alone
(* With nobody else on the way, only this call is to be looked at.           *)
<1>5. ASSUME Others(c), (Sure(calls[c]))', calls'[c].pc # "rewrite"
      PROVE  SwapIsSure' /\ ForgetIsFresh'
  BY <1>1, <1>4, <1>5 DEF Others, SwapIsSure, Sure, ForgetIsFresh, At
<1>6. CASE Close(c)
  <2>1. Others(c) /\ UNCHANGED <<vdf, last, reg, store, claim>>
    BY <1>1, <1>6, CloseSays
  <2>2. calls'[c].pc \in {"read", "idle"} /\ calls'[c].uid \in {calls[c].uid, None} /\ (calls'[c].kind = "swap" => calls'[c].uid = calls[c].uid /\ calls'[c].calm = calls[c].calm)
    BY <1>1, <1>2, <1>3, <1>6, CloseSays DEF Call, NoCall
  <2>3. LoginUsers' = LoginUsers /\ calls[c].pc = "close"
    BY <1>6, <2>1 DEF LoginUsers, Close, At
  <2>4. (Sure(calls[c]))'
    BY <1>3, <2>1, <2>2, <2>3 DEF Sure
  <2> QED
    BY <1>1, <1>5, <2>1, <2>2, <2>4 DEF AccountPoints
<1>7. CASE ReadRows(c)
  <2> DEFINE a == calls[c].uid
             users == RowsFile(Rebuilt(a), IF a \in Rebuilt(a) THEN a ELSE None)
  <2>1. Others(c) /\ UNCHANGED <<vdf, last, reg, store, claim>>
    BY <1>1, <1>7, ReadRowsSays DEF steam, history
  <2>2. CASE calls'[c] = NoCall
    <3>1. (Sure(calls[c]))' /\ calls'[c].pc # "rewrite"
      BY <1>2, <2>2 DEF Sure
    <3> QED
      BY <1>1, <1>5, <2>1, <3>1 DEF AccountPoints
  <2>3. CASE ~Refuses(a) /\ calls'[c] = [calls[c] EXCEPT !.pc = "write", !.users = users]
    <3>1. a \in Accounts \cup {None}
      BY <1>3 DEF Call
    <3>2. calls[c].calm => users.auto = a
      <4>1. calls[c].calm /\ a \in Accounts => a \in Rebuilt(a)
        BY <1>1, <1>3, <1>7, <2>3, <3>1, RebuiltSays DEF Sure, Refuses, ReadRows, At
      <4>2. users.auto = IF a \in Rebuilt(a) THEN a ELSE None
        BY DEF RowsFile
      <4> QED
        BY <3>1, <4>1, <4>2
    <3>3. calls'[c].pc = "write" /\ calls'[c].users = users /\ calls'[c].uid = a /\ calls'[c].calm = calls[c].calm
      BY <1>3, <2>3 DEF Call
    <3> HIDE DEF users, a
    <3>4. (Sure(calls[c]))'
      BY <3>2, <3>3 DEF Sure
    <3> QED
      BY <1>1, <1>5, <2>1, <3>3, <3>4 DEF AccountPoints
  <2> QED
    BY <1>1, <1>7, <2>2, <2>3, ReadRowsSays
<1>8. CASE WriteRows(c)
  <2>1. Others(c) /\ claim' = {}
    BY <1>1, <1>8, WriteRowsSays
  <2>2. CASE calls'[c] = NoCall
    <3>1. (Sure(calls[c]))' /\ calls'[c].pc # "rewrite"
      BY <1>2, <2>2 DEF Sure
    <3> QED
      BY <1>5, <2>1, <3>1 DEF AccountPoints
  <2>3. CASE vdf' = calls[c].users /\ calls'[c] = [calls[c] EXCEPT !.pc = "reg"]
    <3>1. /\ calls'[c].pc = "reg" /\ calls'[c].users = calls[c].users /\ calls'[c].uid = calls[c].uid
          /\ calls'[c].calm = calls[c].calm
      BY <1>3, <2>3 DEF Call
    <3>2. calls[c].pc = "write"
      BY <1>8 DEF WriteRows, At
    <3>3. (Sure(calls[c]))'
      BY <1>3, <2>3, <3>1, <3>2 DEF Sure
    <3> QED
      BY <1>5, <2>1, <3>1, <3>3 DEF AccountPoints
  <2> QED
    BY <1>1, <1>8, <2>2, <2>3, WriteRowsSays
<1>9. CASE WriteReg(c)
  <2>1. Others(c) /\ calls'[c] = NoCall /\ UNCHANGED vdf
    BY <1>1, <1>9, WriteRegSays
  <2>2. (Sure(calls[c]))' /\ calls'[c].pc # "rewrite"
    BY <1>2, <2>1 DEF Sure
  <2>3. calls[c].pc = "reg"
    BY <1>9 DEF WriteReg, At
  <2>4. \/ claim' = {}
        \/ calls[c].calm /\ claim' = {calls[c].uid} /\ reg' = calls[c].users.auto
    BY <1>1, <1>9, WriteRegSays
  <2>5. AccountPoints'
    BY <1>3, <2>1, <2>3, <2>4 DEF AccountPoints, Sure
  <2> QED
    BY <1>5, <2>1, <2>2, <2>5
<1> QED
  BY <1>6, <1>7, <1>8, <1>9 DEF SwitchStep

LEMMA ForgetKeepsPoints ==
  ASSUME PointsInv, ForgetStep
  PROVE  SwapIsSure' /\ ForgetIsFresh' /\ AccountPoints'
<1> DEFINE a == calls[Ui].uid
<1>1. TypeInv /\ OneSwitcher /\ SwapIsSure /\ ForgetIsFresh /\ AccountPoints /\ FilesTyped
  BY DEF PointsInv, TypeInv
<1>2. NoCall.pc = "idle" /\ NoCall.kind = "none"
  BY DEF NoCall
<1>3. Ui \in Callers /\ Ui # Lister /\ ~Idle(Ui) /\ calls[Ui].kind = "forget" /\ calls[Ui] \in Call /\ a \in Accounts
  BY <1>1, ForgetFits DEF ForgetStep, ForgetRelease, ForgetStored, ForgetRead, ForgetWrite, At, Idle, CallsFit
<1>4. \A d \in Callers \ {Ui} : calls[d].kind \in {"none", "list"}
  BY <1>1, <1>3, Alone
<1>5. ASSUME Others(Ui), calls'[Ui].kind # "swap"
      PROVE  SwapIsSure'
  BY <1>4, <1>5 DEF Others, SwapIsSure, Sure
<1>6. ASSUME Others(Ui), calls'[Ui].kind # "swap", calls'[Ui].pc # "rewrite", UNCHANGED <<vdf, last, reg>>,
             claim' \subseteq claim
      PROVE  SwapIsSure' /\ ForgetIsFresh' /\ AccountPoints'
  BY <1>1, <1>5, <1>6 DEF ForgetIsFresh, AccountPoints, At
<1>7. CASE ForgetRelease
  <2>1. Others(Ui) /\ calls'[Ui].kind # "swap" /\ calls'[Ui].pc # "rewrite"
    BY <1>1, <1>2, <1>3, <1>7, ForgetReleaseSays DEF Call
  <2> QED
    BY <1>1, <1>6, <1>7, <2>1, ForgetReleaseSays DEF steam, history
<1>8. CASE ForgetStored
  <2>1. Others(Ui) /\ calls'[Ui].kind # "swap" /\ calls'[Ui].pc # "rewrite"
    BY <1>1, <1>2, <1>3, <1>8, ForgetStoredSays DEF Call
  <2>2. UNCHANGED <<vdf, last, reg, claim>>
    BY <1>1, <1>8, ForgetStoredSays DEF steam
  <2> QED
    BY <1>6, <2>1, <2>2
<1>9. CASE ForgetRead
  <2>1. Others(Ui) /\ UNCHANGED <<vdf, last, reg>>
    BY <1>1, <1>9, ForgetReadSays DEF steam
  <2>2. CASE calls'[Ui] = NoCall
    <3>1. claim' \subseteq claim
      BY <1>1, <1>9, ForgetReadSays DEF history
    <3> QED
      BY <1>2, <1>6, <2>1, <2>2, <3>1
  <2>3. CASE a \in LoginUsers.rows /\ UNCHANGED history
             /\ calls'[Ui] = [calls[Ui] EXCEPT !.pc = "rewrite", !.users = Without(LoginUsers, a)]
    <3>1. calls'[Ui].kind = "forget" /\ calls'[Ui].uid = a /\ calls'[Ui].users = Without(LoginUsers, a)
      BY <1>3, <2>3 DEF Call
    <3>2. LoginUsers' = LoginUsers
      BY <2>1 DEF LoginUsers
    <3>3. ForgetIsFresh'
      BY <2>3, <3>1, <3>2 DEF ForgetIsFresh
    <3> QED
      BY <1>1, <1>5, <2>1, <2>3, <3>1, <3>3 DEF AccountPoints, history
  <2> QED
    BY <1>1, <1>9, <2>2, <2>3, ForgetReadSays
<1>10. CASE ForgetWrite
  <2>1. Others(Ui) /\ calls'[Ui] = NoCall /\ UNCHANGED reg
    BY <1>1, <1>10, ForgetWriteSays
  <2>2. SwapIsSure' /\ ForgetIsFresh'
    BY <1>2, <1>5, <2>1 DEF ForgetIsFresh, At
  <2>3. CASE UNCHANGED <<vdf, past, claim>>
    BY <1>1, <2>1, <2>2, <2>3 DEF AccountPoints
  <2>4. CASE vdf' = calls[Ui].users /\ claim' = claim \ {a}
    <3>1. ASSUME NEW b \in claim' \ {None}
          PROVE  vdf'.auto = b /\ reg' = b
      <4>1. vdf.auto = b /\ reg = b /\ b # a /\ b \in claim
        BY <1>1, <2>4, <3>1 DEF AccountPoints
      <4>2. LoginUsers = vdf
        BY <1>1, <3>1, <4>1 DEF FilesTyped, Marked, LoginUsers, Parsed
      <4>3. calls[Ui].users = Without(LoginUsers, a)
        BY <1>1, <1>10, <4>1 DEF ForgetIsFresh, ForgetWrite
      <4> QED
        BY <1>1, <2>1, <2>4, <4>1, <4>2, <4>3, WithoutSays DEF FilesTyped
    <3> QED
      BY <2>2, <3>1 DEF AccountPoints
  <2> QED
    BY <1>1, <1>10, <2>3, <2>4, ForgetWriteSays
<1> QED
  BY <1>7, <1>8, <1>9, <1>10 DEF ForgetStep

LEMMA PointsStep ==
  ASSUME "overlap" \notin Happens, PointsInv, [Next]_vars
  PROVE  PointsInv'
<1>1. TypeInv /\ OneSwitcher /\ SwapIsSure /\ ForgetIsFresh /\ AccountPoints /\ CallsFit /\ FilesTyped /\ RestTyped
  BY DEF PointsInv, TypeInv
<1>2. Ui \in Callers /\ Lister \in Callers
  BY DEF Callers
<1> SUFFICES SwapIsSure' /\ ForgetIsFresh' /\ AccountPoints'
  BY <1>1, TypesStep, OneSwitcherStep DEF PointsInv
<1>3. CASE UNCHANGED vars \/ StartSteam
  BY <1>1, <1>2, <1>3, FilesRest DEF vars, StartSteam, history
<1>4. CASE List
  <2>1. \A a \in Accounts : store[a] = "named" => store'[a] = "named"
    BY <1>1, <1>4, StoreSays DEF List, Grows
  <2> QED
    BY <1>1, <1>2, <1>4, <2>1, FilesRest DEF List, steam
<1>5. CASE ListBegin
  <2>1. Others(Lister) /\ calls'[Lister].kind = "list" /\ UNCHANGED <<vdf, last, reg, store, claim>>
    BY <1>1, <1>5, ListBeginSays DEF steam, history
  <2>2. calls'[Lister].pc # "rewrite"
    BY <1>1, <1>2, <1>5, <2>1, ListBeginSays DEF CallsFit, Fits
  <2> QED
    BY <1>1, <1>2, <2>1, <2>2, FilesRest DEF Others
<1>6. CASE ListMerge
  <2>1. Others(Lister) /\ calls'[Lister] = NoCall /\ UNCHANGED <<vdf, last, reg, claim>>
        /\ \A a \in Accounts : store[a] = "named" => store'[a] = "named"
    BY <1>1, <1>6, ListMergeSays DEF steam, Grows
  <2>2. NoCall.kind # "swap" /\ NoCall.pc # "rewrite"
    BY DEF NoCall
  <2> QED
    BY <1>1, <1>2, <2>1, <2>2, FilesRest DEF Others
<1>7. ASSUME NEW c \in Callers, NEW a \in Accounts \cup {None}, NEW args, SwapTo(c, a, args)
      PROVE  SwapIsSure' /\ ForgetIsFresh' /\ AccountPoints'
  <2>1. UNCHANGED <<vdf, last, reg, claim>> /\ MaySwitchTo(a, store')
    BY <1>7 DEF SwapTo, steam, history
  <2>2. Others(c) /\ calls'[c].kind = "swap" /\ calls'[c].pc = "close" /\ calls'[c].uid = a
        /\ \A b \in Accounts : store'[b] = store[b] \/ store'[b] = "named"
    BY <1>1, <1>7, SwapToSays
  <2>3. LoginUsers' = LoginUsers
    BY <2>1 DEF LoginUsers
  <2>4. (Sure(calls[c]))'
    BY <2>1, <2>2, <2>3 DEF Sure, MaySwitchTo
  <2>5. ASSUME NEW d \in Callers \ {c}
        PROVE  (Sure(calls[d]))'
    <3>1. Sure(calls[d]) /\ calls'[d] = calls[d]
      BY <1>1, <2>2 DEF SwapIsSure, Others
    <3> QED
      BY <2>1, <2>2, <2>3, <3>1 DEF Sure
  <2>6. ForgetIsFresh'
    BY <1>1, <1>2, <2>1, <2>2, <2>3 DEF ForgetIsFresh, At, Others
  <2> QED
    BY <1>1, <2>1, <2>4, <2>5, <2>6 DEF SwapIsSure, AccountPoints
<1>8. ASSUME NEW a \in Accounts, Forget(a)
      PROVE  SwapIsSure' /\ ForgetIsFresh' /\ AccountPoints'
  <2>1. Others(Ui) /\ calls'[Ui].kind = "forget" /\ calls'[Ui].pc = "release" /\ UNCHANGED <<vdf, last, reg, store, claim>>
    BY <1>1, <1>8, ForgetBeginSays DEF steam, history
  <2> QED
    BY <1>1, <1>2, <2>1, FilesRest DEF Others
<1>9. CASE \/ \E a \in Accounts : SteamSignsIn(a)
           \/ ClearLoginUsers \/ ClearAutoLogin \/ Corrupt
  <2>1. calls' = Disturbed /\ claim' = {}
    BY <1>9 DEF SteamSignsIn, ClearLoginUsers, ClearAutoLogin, Corrupt
  <2> QED
    BY <1>1, <2>1, FilesDisturbed
<1>10. ASSUME NEW a \in Accounts, NEW state \in Guard, GuardAdds(a, state)
       PROVE  SwapIsSure' /\ ForgetIsFresh' /\ AccountPoints'
  BY <1>1, <1>2, <1>10, GuardAddsSays, FilesRest DEF Grows, steam
<1>11. CASE Crash
  <2>1. UNCHANGED <<vdf, last, reg, store, claim>> /\ \A c \in Callers : calls'[c].kind # "swap" /\ calls'[c].pc # "rewrite"
    BY <1>11 DEF Crash, steam, history, NoCall
  <2> QED
    BY <1>1, <1>2, <2>1, FilesRest
<1> QED
  BY <1>1, <1>3, <1>4, <1>5, <1>6, <1>7, <1>8, <1>9, <1>10, <1>11, SwitchKeepsPoints, ForgetKeepsPoints DEF Next, PointsInv
-----------------------------------------------------------------------------
(* One mishap: what it damaged, no second one makes worse.                   *)
DamageIsMishap == vdf.st = "bad" => mishaps # 0

LEMMA DamageStep ==
  ASSUME TypeInv, DamageIsMishap, [Next]_vars
  PROVE  DamageIsMishap'
<1>1. mishaps \in Nat
  BY DEF TypeInv, RestTyped
<1>2. ASSUME UNCHANGED vdf, Smooth \/ Mishap
      PROVE  DamageIsMishap'
  BY <1>1, <1>2 DEF DamageIsMishap, Smooth, Mishap
<1>3. ASSUME vdf'.st # "bad"
      PROVE  DamageIsMishap'
  BY <1>3 DEF DamageIsMishap
<1>4. CASE UNCHANGED vars \/ List \/ ListBegin \/ ListMerge \/ StartSteam \/ ClearAutoLogin \/ Crash
  BY <1>2, <1>4 DEF vars, List, ListBegin, ListMerge, StartSteam, ClearAutoLogin, Crash, Smooth, steam
<1>5. ASSUME NEW c \in Callers, NEW a \in Accounts \cup {None}, NEW args, SwapTo(c, a, args)
      PROVE  DamageIsMishap'
  BY <1>2, <1>5 DEF SwapTo, Smooth, steam
<1>6. ASSUME NEW c \in Callers, SwitchStep(c)
      PROVE  DamageIsMishap'
  <2>1. CASE Close(c)
    <3>1. UNCHANGED vdf /\ (Smooth \/ Mishap)
      BY <2>1 DEF Close, Fail, steam
    <3> QED
      BY <1>2, <3>1
  <2>2. CASE ReadRows(c)
    BY <1>2, <2>2, ReadRowsSays DEF Smooth, steam
  <2>3. CASE WriteRows(c)
    BY <1>2, <1>3, <2>3, WriteRowsSays
  <2>4. CASE WriteReg(c)
    BY <1>2, <2>4, WriteRegSays
  <2> QED
    BY <1>6, <2>1, <2>2, <2>3, <2>4 DEF SwitchStep
<1>7. ASSUME NEW a \in Accounts, Forget(a)
      PROVE  DamageIsMishap'
  BY <1>2, <1>7, ForgetBeginSays DEF Smooth, steam
<1>8. CASE ForgetStep
  <2>1. CASE ForgetRelease \/ ForgetStored \/ ForgetRead
    <3>1. UNCHANGED vdf /\ (Smooth \/ Mishap)
      BY <2>1, ForgetReleaseSays, ForgetStoredSays, ForgetReadSays DEF steam, Smooth
    <3> QED
      BY <1>2, <3>1
  <2>2. CASE ForgetWrite
    BY <1>2, <1>3, <2>2, ForgetWriteSays
  <2> QED
    BY <1>8, <2>1, <2>2 DEF ForgetStep
<1>9. ASSUME NEW a \in Accounts, SteamSignsIn(a)
      PROVE  DamageIsMishap'
  BY <1>3, <1>9, SteamSignsInSays
<1>10. CASE ClearLoginUsers
  BY <1>3, <1>10 DEF ClearLoginUsers, Missing
<1>11. CASE Corrupt
  BY <1>1, <1>11 DEF Corrupt, DamageIsMishap, Mishap
<1>12. ASSUME NEW a \in Accounts, NEW state \in Guard, GuardAdds(a, state)
       PROVE  DamageIsMishap'
  BY <1>2, <1>12, GuardAddsSays DEF Smooth, steam
<1> QED
  BY <1>4, <1>5, <1>6, <1>7, <1>8, <1>9, <1>10, <1>11, <1>12 DEF Next

(* After a switch to no account neither file may bring a mark back: not the  *)
(* backup, which is read when the file has no rows, nor a Forget that writes *)
(* back what it read there.                                                  *)
NoMarkLeft ==
    /\ mishaps = 0 /\ last.auto # None => last.rows \subseteq vdf.rows
    /\ LoginUsers.auto # None => LoginUsers.rows = {LoginUsers.auto}
NonePoints == None \in claim => vdf.auto = None /\ reg = None /\ NoMarkLeft
NoneInHand == \A c \in Callers :
    calls[c].kind = "swap" /\ calls[c].calm /\ calls[c].uid = None =>
        /\ calls[c].pc = "write" => calls[c].users.rows = LoginUsers.rows
        /\ calls[c].pc = "reg" => NoMarkLeft
NoneInv == PointsInv /\ DamageIsMishap /\ NonePoints /\ NoneInHand

LEMMA NoneRests ==
  ASSUME TypeInv, NonePoints, NoneInHand, UNCHANGED <<vdf, last, reg>>, claim' \subseteq claim, Smooth \/ Mishap,
         \A c \in Callers : calls'[c] = calls[c] \/ calls'[c].pc \notin {"write", "reg"}
  PROVE  NonePoints' /\ NoneInHand'
<1>1. LoginUsers' = LoginUsers
  BY DEF LoginUsers
<1>2. mishaps' = 0 => mishaps = 0
  BY DEF Smooth, Mishap, TypeInv, RestTyped
<1>3. NoMarkLeft => NoMarkLeft'
  BY <1>1, <1>2 DEF NoMarkLeft
<1> QED
  BY <1>1, <1>3 DEF NonePoints, NoneInHand

(* A switch to none has marked no row of what it read.                       *)
LEMMA NoneWritten ==
  ASSUME TypeInv, DamageIsMishap, BackUp, NEW users \in File, Marked(users), vdf' = users,
         users.rows = LoginUsers.rows, users.auto = None
  PROVE  NoMarkLeft'
<1>1. FilesTyped /\ mishaps \in Nat
  BY DEF TypeInv, RestTyped
<1>2. last' = last \/ (last' = vdf /\ (vdf.st = "bad" \/ vdf.rows # {}))
  BY DEF BackUp, BackedUp
<1>3. mishaps' = 0 => mishaps = 0 /\ vdf.st # "bad" /\ last' = BackedUp
  BY <1>1 DEF BackUp, Smooth, Mishap, DamageIsMishap
<1>4. CASE vdf.rows # {}
  <2>1. LoginUsers = vdf /\ users.rows # {}
    BY <1>4 DEF LoginUsers, Parsed
  <2>2. LoginUsers' = users
    BY <2>1 DEF LoginUsers, Parsed
  <2>3. mishaps' = 0 => last' = vdf
    BY <1>3, <1>4 DEF BackedUp
  <2> QED
    BY <2>1, <2>2, <2>3 DEF NoMarkLeft
<1>5. CASE vdf.rows = {}
  <2>1. last.rows # {} => LoginUsers = last
    BY <1>5 DEF LoginUsers, Parsed
  <2>2. last.rows = {} => LoginUsers.rows = {} /\ last.auto = None
    BY <1>1, <1>5 DEF LoginUsers, Parsed, FilesTyped, Marked
  <2>3. vdf.auto = None
    BY <1>1, <1>5 DEF FilesTyped, Marked
  <2>4. LoginUsers' \in {users, last'} /\ (users.rows # {} => LoginUsers' = users)
    BY DEF LoginUsers, Parsed
  <2>5. LoginUsers'.auto = None
    <3>1. CASE users.rows # {}
      BY <2>4, <3>1
    <3>2. CASE users.rows = {}
      <4>1. last.auto = None
        BY <2>1, <2>2, <3>2
      <4> QED
        BY <1>2, <2>3, <2>4, <4>1
    <3> QED
      BY <3>1, <3>2
  <2>6. mishaps' = 0 /\ last'.auto # None => last'.rows \subseteq vdf'.rows
    <3>1. CASE last.rows = {}
      BY <1>2, <2>2, <2>3, <3>1
    <3>2. CASE last.rows # {}
      BY <1>2, <2>1, <2>3, <3>2
    <3> QED
      BY <3>1, <3>2
  <2> QED
    BY <2>5, <2>6 DEF NoMarkLeft
<1> QED
  BY <1>4, <1>5

(* A Forget after a switch to none writes what was there, without its row.   *)
LEMMA ForgottenKeepsNone ==
  ASSUME MaxMishaps <= 1, TypeInv, DamageIsMishap, NoMarkLeft, vdf.auto = None, BackUp,
         NEW a \in Accounts, a \in LoginUsers.rows, vdf' = Without(LoginUsers, a)
  PROVE  vdf'.auto = None /\ NoMarkLeft'
<1>1. FilesTyped /\ mishaps \in Nat
  BY DEF TypeInv, RestTyped
<1>2. LoginUsers \in File /\ Marked(LoginUsers)
  BY <1>1, LoginUsersSays
<1>3. /\ vdf'.rows = LoginUsers.rows \ {a} /\ vdf'.st = "rows"
      /\ vdf'.auto = IF LoginUsers.auto = a THEN None ELSE LoginUsers.auto
  BY <1>2, WithoutSays
<1>4. vdf'.auto = None
  BY <1>3 DEF NoMarkLeft
<1>5. last' = last \/ last' = BackedUp
  BY DEF BackUp
<1>6. mishaps' = 0 => mishaps = 0 /\ vdf.st # "bad" /\ last' = BackedUp
  BY <1>1 DEF BackUp, Smooth, Mishap, DamageIsMishap
<1>7. LoginUsers' \in {vdf', last'} /\ (vdf'.rows # {} => LoginUsers' = vdf')
  BY DEF LoginUsers, Parsed
<1>8. CASE vdf.rows # {}
  <2>1. LoginUsers = vdf /\ BackedUp = vdf
    BY <1>8 DEF LoginUsers, Parsed, BackedUp
  <2>2. CASE last' = vdf
    BY <1>4, <1>7, <2>2 DEF NoMarkLeft
  <2>3. CASE last' = last /\ last # vdf
    <3>1. mishaps' # 0
      BY <1>6, <2>1, <2>3
    <3>2. mishaps = 0
      BY <1>1, <2>1, <2>3 DEF BackUp, Mishap
    <3>3. ASSUME LoginUsers'.auto # None
          PROVE  LoginUsers'.rows = {LoginUsers'.auto}
      <4>1. LoginUsers' = last /\ vdf'.rows = {}
        BY <1>4, <1>7, <2>3, <3>3
      <4>2. vdf.rows = {a} /\ last.rows \subseteq vdf.rows
        BY <1>3, <2>1, <3>2, <3>3, <4>1 DEF NoMarkLeft
      <4> QED
        BY <1>1, <3>3, <4>1, <4>2 DEF FilesTyped, Marked
    <3> QED
      BY <1>4, <3>1, <3>3 DEF NoMarkLeft
  <2> QED
    BY <1>5, <2>1, <2>2, <2>3
<1>9. CASE vdf.rows = {}
  <2>1. LoginUsers = last /\ last.rows # {}
    BY <1>9 DEF LoginUsers, Parsed
  <2>2. last.auto # None => last.rows = {last.auto}
    BY <2>1 DEF NoMarkLeft
  <2>3. last' \in {last, vdf} /\ (vdf.st # "bad" => last' = last)
    BY <1>5, <1>9 DEF BackedUp
  <2>4. vdf.auto = None /\ vdf.rows = {}
    BY <1>9
  <2>5. mishaps' = 0 /\ last'.auto # None => last'.rows \subseteq vdf'.rows
    BY <1>6, <1>9, <2>1, <2>3 DEF NoMarkLeft
  <2>6. LoginUsers'.auto # None => LoginUsers'.rows = {LoginUsers'.auto}
    BY <1>4, <1>7, <2>2, <2>3, <2>4
  <2> QED
    BY <1>4, <2>5, <2>6 DEF NoMarkLeft
<1> QED
  BY <1>4, <1>8, <1>9

LEMMA NoneStep ==
  ASSUME MaxMishaps <= 1, "overlap" \notin Happens, NoneInv, [Next]_vars
  PROVE  NoneInv'
<1>1. /\ TypeInv /\ OneSwitcher /\ SwapIsSure /\ ForgetIsFresh /\ AccountPoints /\ PointsInv /\ DamageIsMishap
      /\ NonePoints /\ NoneInHand /\ CallsFit /\ FilesTyped /\ RestTyped
  BY DEF NoneInv, PointsInv, TypeInv
<1>2. Ui \in Callers /\ Lister \in Callers
  BY DEF Callers
<1> SUFFICES NonePoints' /\ NoneInHand'
  BY <1>1, PointsStep, DamageStep DEF NoneInv
<1>3. NoCall.pc = "idle" /\ NoCall.kind = "none"
  BY DEF NoCall
<1>4. CASE UNCHANGED vars \/ StartSteam \/ List
  BY <1>1, <1>4, NoneRests DEF vars, StartSteam, List, history, steam, Smooth
<1>5. CASE ListBegin
  <2>1. calls'[Lister].pc = "merge"
    BY <1>1, <1>2, <1>5, ListBeginSays DEF CallsFit, Fits
  <2>2. Others(Lister) /\ UNCHANGED <<vdf, last, reg, claim>> /\ Smooth
    BY <1>1, <1>5, ListBeginSays DEF steam, history, Smooth
  <2> QED
    BY <1>1, <2>1, <2>2, NoneRests DEF Others
<1>6. CASE ListMerge
  BY <1>1, <1>3, <1>6, ListMergeSays, NoneRests DEF Others, steam
<1>7. ASSUME NEW c \in Callers, NEW a \in Accounts \cup {None}, NEW args, SwapTo(c, a, args)
      PROVE  NonePoints' /\ NoneInHand'
  <2>1. Others(c) /\ calls'[c].pc = "close"
    BY <1>1, <1>7, SwapToSays
  <2>2. UNCHANGED <<vdf, last, reg, claim>> /\ Smooth
    BY <1>7 DEF SwapTo, steam, history, Smooth
  <2> QED
    BY <1>1, <2>1, <2>2, NoneRests DEF Others
<1>8. ASSUME NEW c \in Callers, Close(c)
      PROVE  NonePoints' /\ NoneInHand'
  <2>1. Others(c) /\ calls'[c].pc \in {"read", "idle"}
    BY <1>1, <1>3, <1>8, CloseSays DEF CallsFit, Call
  <2>2. UNCHANGED <<vdf, last, reg, claim>> /\ (Smooth \/ Mishap)
    BY <1>1, <1>8, CloseSays DEF Close
  <2> QED
    BY <1>1, <2>1, <2>2, NoneRests DEF Others
<1>9. ASSUME NEW c \in Callers, ReadRows(c)
      PROVE  NonePoints' /\ NoneInHand'
  <2> DEFINE a == calls[c].uid
             users == RowsFile(Rebuilt(a), IF a \in Rebuilt(a) THEN a ELSE None)
  <2>1. Others(c) /\ UNCHANGED <<vdf, last, reg, claim, mishaps>>
    BY <1>1, <1>9, ReadRowsSays DEF steam, history
  <2>2. CASE calls'[c] = NoCall
    BY <1>1, <1>3, <2>1, <2>2, NoneRests DEF Others, Smooth
  <2>3. CASE calls'[c] = [calls[c] EXCEPT !.pc = "write", !.users = users]
    <3>1. calls'[c].pc = "write" /\ calls'[c].users = users /\ calls'[c].uid = a
      BY <1>1, <2>3 DEF CallsFit, Call
    <3>2. users.rows = Rebuilt(a) /\ (a = None => Rebuilt(a) = LoginUsers.rows)
      BY <1>1, RebuiltSays DEF RowsFile
    <3>3. LoginUsers' = LoginUsers /\ NoMarkLeft' = NoMarkLeft
      BY <2>1 DEF LoginUsers, NoMarkLeft
    <3> HIDE DEF users, a
    <3>4. NoneInHand'
      BY <1>1, <2>1, <3>1, <3>2, <3>3 DEF NoneInHand, Others
    <3> QED
      BY <1>1, <2>1, <3>3, <3>4 DEF NonePoints
  <2> QED
    BY <1>1, <1>9, <2>2, <2>3, ReadRowsSays
<1>10. ASSUME NEW c \in Callers, WriteRows(c)
       PROVE  NonePoints' /\ NoneInHand'
  <2>1. /\ Others(c) /\ claim' = {} /\ calls[c].kind = "swap" /\ calls[c].pc = "write" /\ ~Idle(c) /\ c # Lister
        /\ calls[c] \in Call /\ Sure(calls[c])
    BY <1>1, <1>10, WriteRowsSays DEF WriteRows, At, Idle, CallsFit, Fits, SwapIsSure
  <2>2. \A d \in Callers \ {c} : calls'[d].kind # "swap"
    BY <1>1, <2>1, Alone DEF Others
  <2>3. CASE calls'[c] = NoCall
    BY <1>3, <2>1, <2>2, <2>3 DEF NonePoints, NoneInHand
  <2>4. CASE BackUp /\ vdf' = calls[c].users /\ calls'[c] = [calls[c] EXCEPT !.pc = "reg"]
    <3>1. calls'[c].pc = "reg" /\ calls'[c].uid = calls[c].uid /\ calls'[c].calm = calls[c].calm
      BY <2>1, <2>4 DEF Call
    <3>2. ASSUME calls[c].calm, calls[c].uid = None
          PROVE  NoMarkLeft'
      <4>1. calls[c].users.rows = LoginUsers.rows /\ calls[c].users.auto = None
        BY <1>1, <2>1, <3>2 DEF NoneInHand, Sure
      <4> QED
        BY <1>1, <1>10, <2>4, <4>1, NoneWritten, WriteRowsSays
    <3> QED
      BY <2>1, <2>2, <3>1, <3>2 DEF NonePoints, NoneInHand
  <2> QED
    BY <1>1, <1>10, <2>3, <2>4, WriteRowsSays
<1>11. ASSUME NEW c \in Callers, WriteReg(c)
       PROVE  NonePoints' /\ NoneInHand'
  <2>1. /\ Others(c) /\ calls'[c] = NoCall /\ calls[c].kind = "swap" /\ calls[c].pc = "reg" /\ ~Idle(c) /\ c # Lister
        /\ Sure(calls[c]) /\ UNCHANGED <<vdf, last>>
    BY <1>1, <1>11, WriteRegSays DEF WriteReg, At, Idle, CallsFit, Fits, SwapIsSure
  <2>2. \A d \in Callers \ {c} : calls'[d].kind # "swap"
    BY <1>1, <2>1, Alone DEF Others
  <2>3. NoneInHand'
    BY <1>3, <2>1, <2>2 DEF NoneInHand
  <2>4. \/ claim' = {}
        \/ calls[c].calm /\ claim' = {calls[c].uid} /\ reg' = calls[c].users.auto /\ mishaps' = mishaps
    BY <1>1, <1>11, WriteRegSays
  <2>5. LoginUsers' = LoginUsers
    BY <2>1 DEF LoginUsers
  <2>6. ASSUME calls[c].calm, calls[c].uid = None, reg' = calls[c].users.auto, mishaps' = mishaps
        PROVE  vdf'.auto = None /\ reg' = None /\ NoMarkLeft'
    <3>1. NoMarkLeft /\ vdf.auto = None /\ calls[c].users.auto = None
      BY <1>1, <2>1, <2>6 DEF NoneInHand, Sure
    <3> QED
      BY <2>1, <2>5, <2>6, <3>1 DEF NoMarkLeft
  <2> QED
    BY <2>3, <2>4, <2>6 DEF NonePoints
<1>12. ASSUME NEW a \in Accounts, Forget(a)
       PROVE  NonePoints' /\ NoneInHand'
  <2>1. Others(Ui) /\ calls'[Ui].pc = "release" /\ UNCHANGED <<vdf, last, reg, claim, mishaps>>
    BY <1>1, <1>12, ForgetBeginSays DEF steam, history
  <2> QED
    BY <1>1, <2>1, NoneRests DEF Others, Smooth
<1>13. CASE ForgetStep
  <2> DEFINE a == calls[Ui].uid
  <2>1. calls[Ui] \in Call /\ a \in Accounts
    BY <1>1, <1>2, <1>13, ForgetFits DEF CallsFit
  <2>2. CASE ForgetRelease
    <3>1. Others(Ui) /\ calls'[Ui].pc \in {"store", "idle"} /\ UNCHANGED <<vdf, last, reg, claim, mishaps>>
      BY <1>1, <1>3, <2>1, <2>2, ForgetReleaseSays DEF steam, history, Call
    <3> QED
      BY <1>1, <3>1, NoneRests DEF Others, Smooth
  <2>3. CASE ForgetStored
    <3>1. Others(Ui) /\ calls'[Ui].pc \in {"rows", "idle"} /\ UNCHANGED <<vdf, last, reg, claim>> /\ (Smooth \/ Mishap)
      BY <1>1, <1>3, <2>1, <2>3, ForgetStoredSays DEF steam, Call
    <3> QED
      BY <1>1, <3>1, NoneRests DEF Others
  <2>4. CASE ForgetRead
    <3>1. Others(Ui) /\ UNCHANGED <<vdf, last, reg, mishaps>> /\ claim' \subseteq claim
      BY <1>1, <2>4, ForgetReadSays DEF steam, history
    <3>2. calls'[Ui].pc \in {"rewrite", "idle"}
      BY <1>1, <1>3, <2>1, <2>4, ForgetReadSays DEF Call
    <3> QED
      BY <1>1, <3>1, <3>2, NoneRests DEF Others, Smooth
  <2>5. CASE ForgetWrite
    <3>1. Others(Ui) /\ calls'[Ui] = NoCall /\ UNCHANGED reg
      BY <1>1, <2>5, ForgetWriteSays
    <3>2. ~Idle(Ui) /\ Ui \in Callers \ {Lister} /\ calls[Ui].pc = "rewrite"
      BY <1>2, <2>5 DEF ForgetWrite, At, Idle
    <3>3. \A d \in Callers : calls'[d].kind # "swap"
      BY <1>1, <1>3, <3>1, <3>2, Alone DEF Others
    <3>4. NoneInHand'
      BY <3>3 DEF NoneInHand
    <3>5. CASE BackUp /\ vdf' = calls[Ui].users /\ claim' = claim \ {a}
      <4>1. ASSUME None \in claim'
            PROVE  vdf'.auto = None /\ reg' = None /\ NoMarkLeft'
        <5>1. None \in claim /\ vdf.auto = None /\ reg = None /\ NoMarkLeft
          BY <1>1, <3>5, <4>1 DEF NonePoints
        <5>2. a \in LoginUsers.rows /\ vdf' = Without(LoginUsers, a)
          BY <1>1, <3>2, <3>5, <5>1 DEF ForgetIsFresh, At
        <5> HIDE DEF a
        <5> QED
          BY <1>1, <2>1, <3>1, <3>5, <5>1, <5>2, ForgottenKeepsNone
      <4> QED
        BY <3>4, <4>1 DEF NonePoints
    <3>6. CASE last' = BackedUp /\ Mishap /\ UNCHANGED <<vdf, past, claim>>
      <4>1. mishaps = 0 /\ mishaps' # 0
        BY <1>1, <3>6 DEF Mishap, RestTyped
      <4>2. vdf.st # "bad"
        BY <1>1, <4>1 DEF DamageIsMishap
      <4>3. LoginUsers' = LoginUsers
        BY <3>6, <4>2 DEF BackedUp, LoginUsers, Parsed
      <4>4. NoMarkLeft => NoMarkLeft'
        BY <4>1, <4>3 DEF NoMarkLeft
      <4> QED
        BY <1>1, <3>1, <3>4, <3>6, <4>4 DEF NonePoints
    <3> QED
      BY <1>1, <2>5, <3>5, <3>6, ForgetWriteSays
  <2> QED
    BY <1>13, <2>2, <2>3, <2>4, <2>5 DEF ForgetStep
<1>14. CASE \/ \E a \in Accounts : SteamSignsIn(a)
            \/ ClearLoginUsers \/ ClearAutoLogin \/ Corrupt
  <2>1. calls' = Disturbed /\ claim' = {}
    BY <1>14 DEF SteamSignsIn, ClearLoginUsers, ClearAutoLogin, Corrupt
  <2>2. \A c \in Callers : calls'[c].calm = FALSE
    BY <1>1, <2>1, DisturbedSays
  <2> QED
    BY <2>1, <2>2 DEF NonePoints, NoneInHand
<1>15. ASSUME NEW a \in Accounts, NEW state \in Guard, GuardAdds(a, state)
       PROVE  NonePoints' /\ NoneInHand'
  BY <1>1, <1>15, GuardAddsSays, NoneRests DEF Smooth, steam
<1>16. CASE Crash
  <2>1. UNCHANGED <<vdf, last, reg, claim>> /\ Mishap /\ \A c \in Callers : calls'[c].pc = "idle"
    BY <1>3, <1>16 DEF Crash, steam, history
  <2> QED
    BY <1>1, <2>1, NoneRests
<1> QED
  BY <1>4, <1>5, <1>6, <1>7, <1>8, <1>9, <1>10, <1>11, <1>12, <1>13, <1>14, <1>15, <1>16 DEF Next, SwitchStep
-----------------------------------------------------------------------------
LEMMA InitialState == Init => KeptInv /\ NoneInv
<1> SUFFICES ASSUME Init
             PROVE  KeptInv /\ NoneInv
  OBVIOUS
<1>1. TypeInv
  BY TypesInitial
<1>2. \A c \in Callers : calls[c] = NoCall
  BY DEF Init
<1>3. KeptInv
  BY <1>1, <1>2 DEF KeptInv, InFile, InHand, LeftOut, Init, NoCall
<1>4. OneSwitcher /\ SwapIsSure
  BY <1>2 DEF OneSwitcher, Idle, SwapIsSure, Sure, NoCall
<1>5. ForgetIsFresh /\ AccountPoints /\ DamageIsMishap /\ NonePoints
  BY DEF Init, ForgetIsFresh, AccountPoints, DamageIsMishap, NonePoints, Missing
<1>6. NoneInHand
  BY <1>2 DEF NoneInHand, NoCall
<1> QED
  BY <1>1, <1>3, <1>4, <1>5, <1>6 DEF NoneInv, PointsInv

LEMMA OneClaim == RestTyped => claim \subseteq Accounts \cup {None} /\ Cardinality(claim) <= 1
<1> SUFFICES ASSUME RestTyped
             PROVE  claim \subseteq Accounts \cup {None} /\ Cardinality(claim) <= 1
  OBVIOUS
<1>1. CASE claim = {}
  <2>1. Cardinality(claim) = 0
    BY <1>1, FS_EmptySet, Zenon
  <2> QED
    BY <1>1, <2>1
<1>2. ASSUME NEW a \in Accounts \cup {None}, claim = {a}
      PROVE  claim \subseteq Accounts \cup {None} /\ Cardinality(claim) <= 1
  <2>1. Cardinality(claim) = 1
    BY <1>2, FS_Singleton, Zenon
  <2> QED
    BY <1>2, <2>1
<1> QED
  BY <1>1, <1>2 DEF RestTyped

LEMMA KeptShows == KeptInv => AccountsKept
<1> SUFFICES ASSUME KeptInv, NEW a \in Accounts, past[a] = "owed"
             PROVE  a \in Shown(vdf, last, store)
  BY DEF AccountsKept
<1>1. CASE store[a] = "none"
  BY <1>1 DEF KeptInv, InFile, LeftOut, LoginUsers, Shown
<1>2. CASE store[a] # "none"
  BY <1>2 DEF Shown
<1> QED
  BY <1>1, <1>2

(* Steam's file and its backup are readable or not, and mark an account they *)
(* list; a switch or a Forget has in hand what it read, and only the last    *)
(* switch is claimed, whatever calls, crashes and failed writes overlap.     *)
THEOREM SteamTypeCorrect == Spec => []TypeOK
<1>1. TypeInv => TypeOK
  BY OneClaim DEF TypeInv, CallsFit, Fits, FilesTyped, RestTyped, TypeOK
<1> QED
  BY <1>1, TypesInitial, TypesStep, PTL DEF Spec

(* No switch, Forget of another account, list, failed write or crash takes   *)
(* an account off the list the user sees, with every overlap of calls, as    *)
(* long as one thing fails: the rows being written hold every account that   *)
(* only Steam's file knew (saveLoginUsers, RemoveSteamAccountFromVDF).       *)
THEOREM NoAccountIsLost ==
  ASSUME MaxMishaps <= 1
  PROVE  Spec => []AccountsKept
<1>1. Init => KeptInv /\ DamageIsMishap
  BY InitialState DEF NoneInv
<1>2. TypeInv /\ DamageIsMishap => NothingWorse
  BY DEF TypeInv, RestTyped, DamageIsMishap, NothingWorse
<1>3. KeptInv /\ DamageIsMishap /\ [Next]_vars => KeptInv' /\ DamageIsMishap'
  BY <1>2, KeptStep, DamageStep DEF KeptInv
<1> QED
  BY <1>1, <1>3, KeptShows, PTL DEF Spec

(* The same for any number of failures and kills while nothing makes         *)
(* loginusers.vdf unreadable: a failed write alone never costs an account.   *)
THEOREM ReadableFileIsEnough == Spec /\ [](vdf.st # "bad") => []AccountsKept
<1>1. Init => KeptInv
  BY InitialState
<1>2. vdf.st # "bad" => NothingWorse
  BY DEF NothingWorse
<1>3. KeptInv /\ vdf.st # "bad" /\ [Next]_vars => KeptInv'
  BY <1>2, KeptStep
<1> QED
  BY <1>1, <1>3, KeptShows, PTL DEF Spec

(* After a switch to an account, loginusers.vdf and the registry name it     *)
(* until somebody else writes them, however many writes fail afterwards,     *)
(* when switches do not overlap (SwapToAccount; a shortcut takes no mutex).  *)
THEOREM SwitchesNameAccounts ==
  ASSUME "overlap" \notin Happens
  PROVE  Spec => []AccountPoints
<1>1. Init => PointsInv
  BY InitialState DEF NoneInv
<1>2. PointsInv /\ [Next]_vars => PointsInv'
  BY PointsStep
<1>3. PointsInv => AccountPoints
  BY DEF PointsInv
<1> QED
  BY <1>1, <1>2, <1>3, PTL DEF Spec

(* A switch to no account too leaves no mark in the file and no name in the  *)
(* registry while one thing fails: a second failed backup would let a Forget *)
(* bring an old mark back (preflightSwitchTarget, saveLoginUsers).           *)
THEOREM SwitchesPointTheWay ==
  ASSUME MaxMishaps <= 1, "overlap" \notin Happens
  PROVE  Spec => []SwitchPoints
<1>1. Init => NoneInv
  BY InitialState
<1>2. NoneInv /\ [Next]_vars => NoneInv'
  BY NoneStep
<1>3. NoneInv => SwitchPoints
  BY DEF NoneInv, PointsInv, AccountPoints, NonePoints, SwitchPoints
<1> QED
  BY <1>1, <1>2, <1>3, PTL DEF Spec
=============================================================================
