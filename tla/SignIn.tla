-------------------------------- MODULE SignIn --------------------------------
(***************************************************************************)
(* Signing in to Steam from the Steam Guard window of one account          *)
(* (src/internal/steamguard/auth_enrollment_service.go,                    *)
(* qr_login_service.go, service.go), over the session manager of AuthFlow. *)
(*                                                                         *)
(* A call authorizes itself against the vault's generation and the         *)
(* window's capability, does its network call with no lock held, and       *)
(* authorizes itself again before it goes on.  Beside it the window is     *)
(* closed, the vault is locked or written, and a background sweep renews   *)
(* stored session tokens and carries everything that is bound to the       *)
(* vault's generation onto the new one, one lock at a time.                *)
(***************************************************************************)
EXTENDS AuthFlow

ASSUME GenerationsAreNumbered == Gens \subseteq Nat /\ 1 \in Gens

View == [token : Tokens, lease : Gens, cap : Gens]
Ending == [todo : SUBSET Handles, mgr : Managers \cup {None}, binding : Bindings]
ASSUME NoneIsNoWindow == None \notin View \cup Ending

VARIABLES
    gen,     \* the vault's generation
    locked,  \* the vault is locked
    view,    \* the window: its capability, and the generations in its lease and in its grant
    mgr,     \* authManager
    ops,     \* authOperations: the binding of each sign-in the service follows
    bound,   \* steamOperationCancels[account]: the call that has the account
    req,     \* each call's place in its handler
    sweep,   \* carryCapabilitiesAcross
    ending,  \* EndSensitiveView: what it has to cancel
    lock,    \* LockNow: the manager it closes
    carried  \* history: sessions a call had in hand while a renewal was carried across, or that
             \* began on a generation that had overtaken the renewal's

service == <<gen, locked, view, mgr, ops, bound, sweep, ending, lock, carried>>
vars == <<flowVars, service, req>>

NoReq == [pc |-> "idle", op |-> None, slot |-> None, handle |-> None, mgr |-> None, binding |-> None]
NoSweep == [pc |-> "idle", gen |-> 1, mgr |-> None]
NoLock == [pc |-> "idle", mgr |-> None]

Init ==
    /\ FlowInit
    /\ gen = 1 /\ locked = FALSE /\ view = None
    /\ mgr = None /\ ops = [h \in Handles |-> None] /\ bound = None
    /\ req = [c \in Calls |-> NoReq]
    /\ sweep = NoSweep /\ ending = None /\ lock = NoLock /\ carried = {}

(* authorizeModalLocked: the grant and the lease agree with the vault.       *)
ViewFree == ending = None
ViewCurrent == view # None /\ view.lease = gen /\ view.cap = gen
CurrentBinding == [gen |-> gen, token |-> view.token]
StillAuthorized(c) == ~locked /\ ViewCurrent /\ req[c].binding = CurrentBinding

At(c, pc) == req[c].pc = pc
Goto(c, pc) == req' = [req EXCEPT ![c].pc = pc]
Released(c) == IF bound = c THEN None ELSE bound
(* The handler returns, and startBoundSteamOperation's finish with it.       *)
Finish(c) == req' = [req EXCEPT ![c] = NoReq] /\ bound' = Released(c)
Held(h) == \E c \in Calls : req[c].handle = h
Doomed == IF ViewFree THEN {} ELSE ending.todo

-----------------------------------------------------------------------------
(* BeginCredentialLogin, BeginQRLogin.                                       *)
BeginCall(c, s) ==
    /\ At(c, "idle") /\ ViewFree /\ ~locked /\ ViewCurrent
    /\ req' = [req EXCEPT ![c] = [NoReq EXCEPT !.pc = "authorized", !.op = "begin", !.slot = s,
                                                !.binding = CurrentBinding]]
    /\ UNCHANGED <<flowVars, service>>

(* SubmitCredentialCode, PollCredentialLogin, PollQRLogin and the Cancels,   *)
(* for a handle that the window was given.                                   *)
HandleCall(c, h, kind) ==
    /\ At(c, "idle") /\ ViewFree /\ ~locked /\ ViewCurrent /\ ops[h] # None
    /\ req' = [req EXCEPT ![c] = [NoReq EXCEPT !.pc = "authorized", !.op = kind, !.handle = h,
                                                !.binding = CurrentBinding]]
    /\ UNCHANGED <<flowVars, service>>

(* Managers that something still refers to.                                  *)
InUse == {req[c].mgr : c \in Calls} \cup {sweep.mgr, lock.mgr} \cup IF ViewFree THEN {} ELSE {ending.mgr}

(* authenticationManager makes the manager on first use.                     *)
FindManager(c) ==
    /\ At(c, "authorized") /\ req[c].op = "begin"
    /\ \E m \in IF mgr # None THEN {mgr} ELSE closed \ InUse :
          /\ IF mgr = None THEN NewManager(m) ELSE UNCHANGED flowVars
          /\ mgr' = m
          /\ req' = [req EXCEPT ![c].pc = "found", ![c].mgr = m]
    /\ UNCHANGED <<gen, locked, view, ops, bound, sweep, lock, ending, carried>>

(* authenticationOperation finds the sign-in under the same binding.         *)
FindOperation(c) ==
    /\ At(c, "authorized") /\ req[c].op # "begin"
    /\ req' = [req EXCEPT ![c] =
          IF mgr # None /\ ops[@.handle] = @.binding
            THEN [@ EXCEPT !.pc = IF req[c].op = "cancel" THEN "cancel" ELSE "found", !.mgr = mgr]
            ELSE NoReq]
    /\ UNCHANGED <<flowVars, service>>

(* startBoundSteamOperation lets one call of an account at a time go on to   *)
(* the manager.  It goes on in the same step: what can come in between takes *)
(* the account away or steps in the manager, and none does both.             *)
TakeAccount(c) == At(c, "found") /\ bound = None /\ bound' = c

AccountTaken(c) ==
    /\ At(c, "found") /\ bound # None /\ req' = [req EXCEPT ![c] = NoReq]
    /\ UNCHANGED <<flowVars, service>>

StartBegin(c) ==
    /\ TakeAccount(c) /\ req[c].op = "begin"
    /\ \E h \in Handles :
          /\ ops[h] = None /\ ~Held(h) /\ h \notin Doomed
          /\ BeginStart(c, req[c].mgr, req[c].slot, req[c].binding, h)
          /\ req' = [req EXCEPT ![c].pc = "remote", ![c].handle = h]
          /\ carried' = carried \ {h}
    /\ UNCHANGED <<gen, locked, view, mgr, ops, sweep, lock, ending>>

StartOperation(c) ==
    /\ TakeAccount(c) /\ req[c].op # "begin"
    /\ OperationStart(c, req[c].mgr, req[c].handle, req[c].binding)
    /\ Goto(c, "remote")
    /\ UNCHANGED <<gen, locked, view, mgr, ops, sweep, lock, ending, carried>>

(* The manager refuses: closed, conflict, capacity, gone, mismatch, busy,    *)
(* too soon, not authorized, challenge not offered.                          *)
StartRefused(c) ==
    /\ At(c, "found") /\ bound = None
    /\ PurgeExpired(req[c].mgr) /\ req' = [req EXCEPT ![c] = NoReq]
    /\ UNCHANGED service

BeginAnswered(c) == At(c, "remote") /\ BeginEnd(c) /\ Goto(c, "answered") /\ UNCHANGED service
PollAuthorized(c) == At(c, "remote") /\ Authorized(c) /\ Goto(c, "answered") /\ UNCHANGED service

OperationReturns(c) ==
    /\ At(c, "remote")
    /\ OperationEnd(c) \/ Drop(c)
    /\ Finish(c)
    /\ UNCHANGED <<gen, locked, view, mgr, ops, sweep, lock, ending, carried>>

(* The second authorization.                                                 *)
Reauthorize(c) ==
    /\ At(c, "answered") /\ ViewFree
    /\ Goto(c, IF StillAuthorized(c) THEN "checked" ELSE "abandon")
    /\ UNCHANGED <<flowVars, service>>

(* Begin and BeginQR: from here on the service follows the sign-in.          *)
Register(c) ==
    /\ At(c, "checked") /\ req[c].op = "begin"
    /\ IF mgr = req[c].mgr
         THEN Finish(c) /\ ops' = [ops EXCEPT ![req[c].handle] = req[c].binding]
         ELSE Goto(c, "abandon") /\ UNCHANGED <<bound, ops>>
    /\ UNCHANGED <<flowVars, gen, locked, view, mgr, sweep, lock, ending, carried>>

(* cancelAuthflowSession, which only logs that the manager refused.          *)
TryCancel(m, h, b) == Cancel(m, h, b) \/ (~Matches(m, h, b) /\ PurgeExpired(m))
CancelOwn(c) == TryCancel(req[c].mgr, req[c].handle, req[c].binding)

(* Mutant: the sign-in is given up without telling the manager.              *)
AbandonQuietly(c) ==
    /\ At(c, "abandon") /\ Finish(c)
    /\ UNCHANGED <<flowVars, gen, locked, view, mgr, ops, sweep, lock, ending, carried>>

Abandon(c) ==
    /\ At(c, "abandon") /\ CancelOwn(c) /\ Finish(c)
    /\ UNCHANGED <<gen, locked, view, mgr, ops, sweep, lock, ending, carried>>

CancelCall(c) ==
    /\ At(c, "cancel") /\ CancelOwn(c)
    /\ req' = [req EXCEPT ![c] = NoReq] /\ ops' = [ops EXCEPT ![req[c].handle] = None]
    /\ UNCHANGED <<gen, locked, view, mgr, bound, sweep, lock, ending, carried>>

(* pollLogin hands the credentials to the vault or to an enrollment ...      *)
StartConsume(c) ==
    /\ At(c, "checked") /\ req[c].op = "operate"
    /\ Consume(c, req[c].mgr, req[c].handle, req[c].binding)
    /\ Goto(c, "consuming")
    /\ UNCHANGED service

ConsumeRefused(c) ==
    /\ At(c, "checked") /\ req[c].op = "operate"
    /\ Matches(req[c].mgr, req[c].handle, req[c].binding) =>
          entry[req[c].handle].busy \/ ~entry[req[c].handle].tokens
    /\ PurgeExpired(req[c].mgr)
    /\ Finish(c) /\ ops' = [ops EXCEPT ![req[c].handle] = None]
    /\ UNCHANGED <<gen, locked, view, mgr, sweep, lock, ending, carried>>

(* ... whose write moves the vault to a new generation when it succeeds.     *)
Consumed(c) ==
    /\ At(c, "consuming") /\ ConsumeEnd(c)
    /\ gen' \in {gen} \cup (IF locked THEN {} ELSE {gen + 1} \cap Gens)
    /\ Finish(c) /\ ops' = [ops EXCEPT ![req[c].handle] = None]
    /\ UNCHANGED <<locked, view, mgr, sweep, lock, ending, carried>>

-----------------------------------------------------------------------------
(* RequestSensitiveView; the capability is 32 random bytes, so what a revoked *)
(* one leaves in authOperations is never found again, and is forgotten when   *)
(* its name is taken for a new one.                                          *)
OpenView(t) ==
    /\ view = None /\ ViewFree
    /\ \A b \in {entry[h].binding : h \in Handles} \cup {req[c].binding : c \in Calls} : b # None => b.token # t
    /\ ops' = [h \in Handles |-> IF ops[h] \in [gen : Gens, token : {t}] THEN None ELSE ops[h]]
    /\ view' = [token |-> t, lease |-> gen, cap |-> gen]
    /\ UNCHANGED <<flowVars, gen, locked, mgr, bound, req, sweep, ending, lock, carried>>

(* EndSensitiveView holds contentProtectionMu, which authorizing and carrying *)
(* the lease need: cancelAuthenticationForBinding stops the account's call    *)
(* and takes what the service follows for the window,                         *)
EndView ==
    /\ view # None /\ view.lease = view.cap /\ ViewFree
    /\ LET b == [gen |-> view.lease, token |-> view.token] mine == {h \in Handles : ops[h] = b} IN
          /\ ending' = [todo |-> mine, mgr |-> mgr, binding |-> b]
          /\ ops' = [h \in Handles |-> IF h \in mine THEN None ELSE ops[h]]
    /\ bound' = None
    /\ UNCHANGED <<flowVars, gen, locked, view, mgr, req, sweep, lock, carried>>

(* cancels it in the manager,                                                *)
EndCancel(h) ==
    /\ ~ViewFree /\ h \in ending.todo
    /\ TryCancel(ending.mgr, h, ending.binding)
    /\ ending' = [ending EXCEPT !.todo = @ \ {h}]
    /\ UNCHANGED <<gen, locked, view, mgr, ops, bound, req, sweep, lock, carried>>

(* and then the window goes, unless its content protection cannot be lifted. *)
EndDone ==
    /\ ~ViewFree /\ ending.todo = {}
    /\ ending' = None /\ view' \in {None, view}
    /\ UNCHANGED <<flowVars, gen, locked, mgr, ops, bound, req, sweep, lock, carried>>

Unlock ==
    /\ locked /\ ViewFree /\ ViewCurrent /\ locked' = FALSE
    /\ UNCHANGED <<flowVars, gen, view, mgr, ops, bound, req, sweep, lock, ending, carried>>

(* Every other write of the vault: a re-key, an import, a record removed.    *)
OtherWrite ==
    /\ ~locked /\ gen + 1 \in Gens /\ gen' = gen + 1
    /\ UNCHANGED <<flowVars, locked, view, mgr, ops, bound, req, sweep, lock, ending, carried>>

(* Mutant: the manager is closed whether there is one or not.                *)
StartLockBlindly ==
    /\ lock.pc = "idle"
    /\ lock' = [pc |-> "close", mgr |-> mgr]
    /\ mgr' = None /\ ops' = [h \in Handles |-> None] /\ bound' = None
    /\ UNCHANGED <<flowVars, gen, locked, view, req, sweep, ending, carried>>

(* LockNow: closeAuthenticationManager takes the manager away from the       *)
(* service, closes it and waits for its calls; then the vault is locked and  *)
(* the window revoked.                                                       *)
StartLock ==
    /\ lock.pc = "idle"
    /\ lock' = [pc |-> IF mgr = None THEN "vault" ELSE "close", mgr |-> mgr]
    /\ mgr' = None /\ ops' = [h \in Handles |-> None] /\ bound' = None
    /\ UNCHANGED <<flowVars, gen, locked, view, req, sweep, ending, carried>>

CloseManager ==
    /\ lock.pc = "close" /\ Close(lock.mgr) /\ lock' = [lock EXCEPT !.pc = "wait"]
    /\ UNCHANGED <<gen, locked, view, mgr, ops, bound, req, sweep, ending, carried>>

WaitForCalls ==
    /\ lock.pc = "wait" /\ NoneInFlight(lock.mgr) /\ lock' = [pc |-> "vault", mgr |-> None]
    /\ UNCHANGED <<flowVars, gen, locked, view, mgr, ops, bound, req, sweep, ending, carried>>

LockVault ==
    /\ lock.pc = "vault" /\ locked' = TRUE /\ lock' = [lock EXCEPT !.pc = "views"]
    /\ UNCHANGED <<flowVars, gen, view, mgr, ops, bound, req, sweep, ending, carried>>

RevokeViews ==
    /\ lock.pc = "views" /\ ViewFree /\ view' = None /\ lock' = NoLock
    /\ UNCHANGED <<flowVars, gen, locked, mgr, ops, bound, req, sweep, ending, carried>>

(* The reaper of each manager.                                               *)
Reap(m) ==
    /\ m \notin closed /\ Lapsed(m) # {} /\ PurgeExpired(m)
    /\ UNCHANGED <<service, req>>
Expire(h) == Lapse(h) /\ UNCHANGED <<service, req>>

-----------------------------------------------------------------------------
(* refreshLapsedOwnedGamesSessions: the renewal commits a generation ...     *)
Renew ==
    /\ sweep.pc = "idle" /\ ~locked /\ gen + 1 \in Gens /\ gen' = gen + 1
    /\ sweep' = [sweep EXCEPT !.pc = "read"]
    /\ UNCHANGED <<flowVars, locked, view, mgr, ops, bound, req, lock, ending, carried>>

(* ... the sweep asks the vault which one it is on by now, ...               *)
ReadGeneration ==
    /\ sweep.pc = "read" /\ sweep' = [sweep EXCEPT !.pc = "lease", !.gen = gen]
    /\ UNCHANGED <<flowVars, gen, locked, view, mgr, ops, bound, req, lock, ending, carried>>

(* ... and carryCapabilitiesAcross moves onto it the window's lease,         *)
CarryLease ==
    /\ sweep.pc = "lease" /\ ViewFree /\ sweep' = [sweep EXCEPT !.pc = "ops"]
    /\ view' = IF view = None THEN None ELSE [view EXCEPT !.lease = sweep.gen]
    /\ UNCHANGED <<flowVars, gen, locked, mgr, ops, bound, req, lock, ending, carried>>

InHand(m) == {h \in sessions[m] : Held(h)}
(* Sessions on a generation that another write has made since the renewal's: *)
(* the manager's half of them is moved back, the service's has not been.     *)
Overtaken(m) == {h \in sessions[m] :
    entry[h].binding.gen > sweep.gen /\ ops[h] # [entry[h].binding EXCEPT !.gen = sweep.gen]}

(* the sign-ins the service follows,                                         *)
CarryOps ==
    /\ sweep.pc = "ops"
    /\ sweep' = [sweep EXCEPT !.pc = IF mgr = None THEN "cap" ELSE "manager", !.mgr = mgr]
    /\ ops' = [h \in Handles |-> IF ops[h] = None THEN None ELSE [ops[h] EXCEPT !.gen = sweep.gen]]
    /\ carried' = carried \cup IF mgr = None THEN {} ELSE InHand(mgr)
    /\ UNCHANGED <<flowVars, gen, locked, view, mgr, bound, req, lock, ending>>

(* the manager's sessions,                                                   *)
CarryManager ==
    /\ sweep.pc = "manager" /\ Rebind(sweep.mgr, sweep.gen)
    /\ sweep' = [sweep EXCEPT !.pc = "cap"]
    /\ carried' = carried \cup InHand(sweep.mgr) \cup Overtaken(sweep.mgr)
    /\ UNCHANGED <<gen, locked, view, mgr, ops, bound, req, lock, ending>>

(* and the window's grant.                                                   *)
CarryGrant ==
    /\ sweep.pc = "cap" /\ sweep' = NoSweep
    /\ view' = IF view = None THEN None ELSE [view EXCEPT !.cap = sweep.gen]
    /\ UNCHANGED <<flowVars, gen, locked, mgr, ops, bound, req, lock, ending, carried>>

-----------------------------------------------------------------------------
CallStep(c) ==
    \/ FindManager(c) \/ FindOperation(c) \/ AccountTaken(c)
    \/ StartBegin(c) \/ StartOperation(c) \/ StartRefused(c)
    \/ BeginAnswered(c) \/ PollAuthorized(c) \/ OperationReturns(c)
    \/ Reauthorize(c) \/ Register(c) \/ Abandon(c) \/ CancelCall(c)
    \/ StartConsume(c) \/ ConsumeRefused(c) \/ Consumed(c)

EndStep == EndDone \/ \E h \in Handles : EndCancel(h)
LockStep == CloseManager \/ WaitForCalls \/ LockVault \/ RevokeViews
SweepStep == ReadGeneration \/ CarryLease \/ CarryOps \/ CarryManager \/ CarryGrant

Next ==
    \/ \E c \in Calls :
          \/ CallStep(c)
          \/ \E s \in Slots : BeginCall(c, s)
          \/ \E h \in Handles, kind \in {"operate", "cancel"} : HandleCall(c, h, kind)
    \/ \E t \in Tokens : OpenView(t)
    \/ EndView \/ EndStep \/ Unlock \/ OtherWrite
    \/ StartLock \/ LockStep
    \/ \E m \in Managers : Reap(m)
    \/ \E h \in Handles : Expire(h)
    \/ Renew \/ SweepStep

Spec == Init /\ [][Next]_vars

-----------------------------------------------------------------------------
Places == {"idle", "authorized", "found", "remote", "answered", "checked", "abandon", "cancel", "consuming"}
Request == [pc : Places, op : {"begin", "operate", "cancel", None}, slot : Slots \cup {None},
            handle : Handles \cup {None}, mgr : Managers \cup {None}, binding : Bindings \cup {None}]

TypeOK ==
    /\ FlowTypeOK
    /\ gen \in Gens /\ locked \in BOOLEAN /\ view \in View \cup {None}
    /\ mgr \in Managers \cup {None} /\ ops \in [Handles -> Bindings \cup {None}]
    /\ bound \in Calls \cup {None} /\ req \in [Calls -> Request]
    /\ sweep \in [pc : {"idle", "read", "lease", "ops", "manager", "cap"}, gen : Gens, mgr : Managers \cup {None}]
    /\ lock \in [pc : {"idle", "vault", "views"}, mgr : {None}] \cup [pc : {"close", "wait"}, mgr : Managers]
    /\ ending \in Ending \cup {None}
    /\ carried \in SUBSET Handles

(* A session the manager keeps open is followed: a call has it in hand, its  *)
(* window is being closed or its manager is, or it is among the service's    *)
(* operations under the binding the manager has for it, with a step still to *)
(* take.  Between the two halves of a renewal the operations are ahead.      *)
Followed(m, h) ==
    \/ Held(h)
    \/ ending # None /\ ending.mgr = m /\ h \in ending.todo
    \/ lock.pc = "close" /\ lock.mgr = m
    \/ ops[h] = entry[h].binding /\ ~entry[h].tokens
    \/ sweep.pc = "manager" /\ ops[h] = [entry[h].binding EXCEPT !.gen = sweep.gen]

(* A call that gives up on a sign-in leaves nothing behind in the manager,   *)
(* whatever happened meanwhile.  Only a renewal can leave a session that no  *)
(* call will poll or cancel again: one that is carried across while a call   *)
(* has the session in hand, or after another write that it began on.         *)
UnfollowedOnlyByRenewal == \A m \in Managers, h \in Handles \ carried :
    h \in sessions[m] => Followed(m, h)

(* When LockNow has closed a manager and waited, no call of that manager is  *)
(* in flight and none of its sessions holds a secret, nor will one.          *)
ClosedIsSilent == \A m \in closed : lock.mgr # m =>
    \A h \in Handles : entry[h].mgr = m => ~Secret(h) /\ ~Borrowed(h)
===============================================================================
