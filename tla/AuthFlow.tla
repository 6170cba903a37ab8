------------------------------- MODULE AuthFlow -------------------------------
(***************************************************************************)
(* The Steam sign-in sessions of src/internal/steamguard/authflow          *)
(* (manager.go): a table of short-lived sessions, each one bound to an     *)
(* account, a vault generation and a window capability.                    *)
(*                                                                         *)
(* A call marks its entry busy under the manager's lock, releases the lock *)
(* for the network, and takes it again to store the answer.  Meanwhile the *)
(* session may expire, be cancelled, or go with the whole manager: its     *)
(* entry is detached at once, but what it holds is wiped only when the     *)
(* call that borrowed it comes back.                                       *)
(*                                                                         *)
(* Handles are 24 random bytes, so a new one is one that nothing mentions; *)
(* the tombstones only tell a lookup which of two errors to answer and are *)
(* left out, and so are the challenges and the poll interval: an answer    *)
(* they decide is a refusal a call may always meet.                        *)
(***************************************************************************)
EXTENDS Naturals, FiniteSets

CONSTANTS
    Handles, Managers,
    Slots,      \* account keys: an account's password sign-in and its QR sign-in
    Calls,      \* goroutines inside an operation of the manager
    Gens,       \* vault generations
    Tokens,     \* window capabilities
    Capacity,
    None

ASSUME CapacityIsPositive == Capacity \in Nat \ {0}

Bindings == [gen : Gens, token : Tokens]
ASSUME NoneIsNothing == None \notin Handles \cup Managers \cup Slots \cup Tokens \cup Bindings

VARIABLES
    entry,     \* sessionEntry of each handle, detached ones in use included
    sessions,  \* m.sessions of each manager
    accounts,  \* m.accounts of each manager
    closed,    \* managers that admit nothing: closed ones and those not made yet
    flight     \* the operation of each goroutine while the lock is released

flowVars == <<entry, sessions, accounts, closed, flight>>

(* request: the request ID that all copies of the protocol session share;    *)
(* tokens: the authorized credentials.                                       *)
NoEntry == [mgr |-> None, slot |-> None, binding |-> None, busy |-> FALSE, closed |-> TRUE,
            request |-> FALSE, tokens |-> FALSE, lapsed |-> FALSE]

Secret(h) == entry[h].request \/ entry[h].tokens
NoFlight == [op |-> "idle", handle |-> None]

Borrowed(h) == \E c \in Calls : flight[c].op \in {"begin", "operate"} /\ flight[c].handle = h
Mentioned(h) == entry[h] # NoEntry \/ \E c \in Calls : flight[c].handle = h

FlowInit ==
    /\ entry = [h \in Handles |-> NoEntry]
    /\ sessions = [m \in Managers |-> {}]
    /\ accounts = [m \in Managers |-> [s \in Slots |-> None]]
    /\ closed = Managers
    /\ flight = [c \in Calls |-> NoFlight]

-----------------------------------------------------------------------------
(* Mutant: a busy entry is wiped under the call that borrowed it.            *)
ShutAtOnce(h) == [NoEntry EXCEPT !.busy = entry[h].busy, !.mgr = entry[h].mgr]

(* closeEntryLocked: the entry leaves both maps, and is wiped unless a call  *)
(* is using it.                                                              *)
Shut(h) == IF entry[h].busy THEN [entry[h] EXCEPT !.closed = TRUE] ELSE NoEntry

(* Mutant: a detached entry keeps its account's slot.                        *)
FreedLater(gone) == [m \in Managers |-> [s \in Slots |->
    IF accounts[m][s] \in {h \in gone : ~entry[h].busy} THEN None ELSE accounts[m][s]]]

Closed(gone) == [h \in Handles |-> IF h \in gone THEN Shut(h) ELSE entry[h]]
Unlisted(gone) == [m \in Managers |-> sessions[m] \ gone]
Freed(gone) == [m \in Managers |-> [s \in Slots |-> IF accounts[m][s] \in gone THEN None ELSE accounts[m][s]]]

Lapsed(m) == {h \in sessions[m] : entry[h].lapsed}
Detach(gone) == sessions' = Unlisted(gone) /\ accounts' = Freed(gone)

(* expireLocked, which every operation runs first and the reaper runs every  *)
(* SweepInterval; the whole effect of an operation that is refused.          *)
PurgeExpired(m) ==
    /\ entry' = Closed(Lapsed(m)) /\ Detach(Lapsed(m))
    /\ UNCHANGED <<closed, flight>>

(* A session's expiresAt passes.                                             *)
Lapse(h) ==
    /\ entry[h] # NoEntry /\ ~entry[h].closed /\ ~entry[h].lapsed
    /\ entry' = [entry EXCEPT ![h].lapsed = TRUE]
    /\ UNCHANGED <<sessions, accounts, closed, flight>>

(* New.                                                                      *)
NewManager(m) ==
    /\ m \in closed /\ \A h \in Handles : entry[h].mgr # m
    /\ closed' = closed \ {m}
    /\ UNCHANGED <<entry, sessions, accounts, flight>>

-----------------------------------------------------------------------------
(* Begin and BeginQR, up to the network call.                                *)
BeginStart(c, m, s, b, h) ==
    LET gone == Lapsed(m) IN
    /\ flight[c] = NoFlight /\ m \notin closed
    /\ accounts[m][s] \in gone \cup {None}
    /\ Cardinality(sessions[m] \ gone) < Capacity
    /\ ~Mentioned(h)
    /\ entry' = [Closed(gone) EXCEPT ![h] =
                    [NoEntry EXCEPT !.mgr = m, !.slot = s, !.binding = b, !.busy = TRUE, !.closed = FALSE]]
    /\ sessions' = [Unlisted(gone) EXCEPT ![m] = @ \cup {h}]
    /\ accounts' = [Freed(gone) EXCEPT ![m][s] = h]
    /\ flight' = [flight EXCEPT ![c] = [op |-> "begin", handle |-> h]]
    /\ UNCHANGED closed

(* SubmitCode and Poll up to the network call: startOperation.  They differ   *)
(* in what they may be answered, so a SubmitCode is a Poll that is not        *)
(* answered with credentials.                                                *)
OperationStart(c, m, h, b) ==
    LET gone == Lapsed(m) IN
    /\ flight[c] = NoFlight /\ m \notin closed
    /\ h \in sessions[m] \ gone /\ entry[h].binding = b
    /\ ~entry[h].busy /\ ~entry[h].tokens
    /\ entry' = [Closed(gone) EXCEPT ![h].busy = TRUE] /\ Detach(gone)
    /\ flight' = [flight EXCEPT ![c] = [op |-> "operate", handle |-> h]]
    /\ UNCHANGED closed

(* What every late answer is held against.                                   *)
StillOpen(h) == ~entry[h].closed /\ ~entry[h].lapsed

Return(c, kinds) == flight[c].op \in kinds /\ flight' = [flight EXCEPT ![c] = NoFlight]
Keep(h, e) == entry' = [entry EXCEPT ![h] = [e EXCEPT !.busy = FALSE]] /\ UNCHANGED <<sessions, accounts>>

(* Mutant: a call whose entry was closed in the meantime only lets go of it. *)
DropOpenOnly(c) ==
    /\ Return(c, {"begin", "operate"})
    /\ LET h == flight[c].handle IN
       IF entry[h].closed THEN Keep(h, entry[h])
                          ELSE entry' = [entry EXCEPT ![h] = NoEntry] /\ Detach({h})
    /\ UNCHANGED closed

(* The call failed, panicked or answered nonsense, somebody else scanned the *)
(* code, or the session is over: whatever came back is destroyed and the     *)
(* entry with it.                                                            *)
Drop(c) ==
    /\ Return(c, {"begin", "operate"})
    /\ entry' = [entry EXCEPT ![flight[c].handle] = NoEntry] /\ Detach({flight[c].handle})
    /\ UNCHANGED closed

(* Begin, BeginQR: the session that Steam opened is stored.                  *)
BeginEnd(c) ==
    /\ Return(c, {"begin"}) /\ StillOpen(flight[c].handle)
    /\ Keep(flight[c].handle, [entry[flight[c].handle] EXCEPT !.request = TRUE])
    /\ UNCHANGED closed

(* SubmitCode: accepted; Poll: still waiting.                                *)
OperationEnd(c) ==
    /\ Return(c, {"operate"}) /\ StillOpen(flight[c].handle)
    /\ Keep(flight[c].handle, entry[flight[c].handle])
    /\ UNCHANGED closed

(* Poll: the credentials are kept for Consume and the session is destroyed.  *)
Authorized(c) ==
    /\ Return(c, {"operate"}) /\ StillOpen(flight[c].handle)
    /\ Keep(flight[c].handle, [entry[flight[c].handle] EXCEPT !.request = FALSE, !.tokens = TRUE])
    /\ UNCHANGED closed

-----------------------------------------------------------------------------
Matches(m, h, b) == h \in sessions[m] \ Lapsed(m) /\ entry[h].binding = b

Cancel(m, h, b) ==
    /\ Matches(m, h, b)
    /\ entry' = Closed(Lapsed(m) \cup {h}) /\ Detach(Lapsed(m) \cup {h})
    /\ UNCHANGED <<closed, flight>>

(* Consume takes the credentials and the entry out of the manager, and gives *)
(* them to the caller's callback with the lock released ...                  *)
Consume(c, m, h, b) ==
    /\ flight[c] = NoFlight /\ Matches(m, h, b) /\ ~entry[h].busy /\ entry[h].tokens
    /\ entry' = Closed(Lapsed(m) \cup {h}) /\ Detach(Lapsed(m) \cup {h})
    /\ flight' = [flight EXCEPT ![c] = [op |-> "consume", handle |-> h]]
    /\ UNCHANGED closed

(* ... and wipes them when it is back.                                       *)
ConsumeEnd(c) == Return(c, {"consume"}) /\ UNCHANGED <<entry, sessions, accounts, closed>>

(* Close, up to its wait for the operations in flight, which are the ones    *)
(* the wait group counts: a Consume is not.                                  *)
Close(m) ==
    /\ m \notin closed
    /\ closed' = closed \cup {m}
    /\ entry' = Closed(sessions[m]) /\ Detach(sessions[m])
    /\ UNCHANGED flight

(* Mutant: the wait is for calls whose session is still listed.              *)
NoneListed(m) == \A h \in sessions[m] : ~Borrowed(h)

NoneInFlight(m) == \A h \in Handles : entry[h].mgr = m => ~Borrowed(h)

Rebind(m, g) ==
    /\ entry' = [h \in Handles |-> IF h \in sessions[m] THEN [entry[h] EXCEPT !.binding.gen = g] ELSE entry[h]]
    /\ UNCHANGED <<sessions, accounts, closed, flight>>

ManagerStep(m) ==
    \/ NewManager(m) \/ PurgeExpired(m) \/ Close(m)
    \/ \E g \in Gens : Rebind(m, g)
    \/ \E h \in Handles, b \in Bindings : Cancel(m, h, b)
    \/ \E c \in Calls, h \in Handles, b \in Bindings :
          \/ \E s \in Slots : BeginStart(c, m, s, b, h)
          \/ OperationStart(c, m, h, b)
          \/ Consume(c, m, h, b)

FlowNext ==
    \/ \E m \in Managers : ManagerStep(m)
    \/ \E h \in Handles : Lapse(h)
    \/ \E c \in Calls : Drop(c) \/ BeginEnd(c) \/ OperationEnd(c) \/ Authorized(c) \/ ConsumeEnd(c)

FlowSpec == FlowInit /\ [][FlowNext]_flowVars

-----------------------------------------------------------------------------
Entry == [mgr : Managers \cup {None}, slot : Slots \cup {None}, binding : Bindings \cup {None},
          busy : BOOLEAN, closed : BOOLEAN, request : BOOLEAN, tokens : BOOLEAN, lapsed : BOOLEAN]
Flight == [op : {"begin", "operate", "consume"}, handle : Handles]

FlowTypeOK ==
    /\ entry \in [Handles -> Entry]
    /\ sessions \in [Managers -> SUBSET Handles]
    /\ accounts \in [Managers -> [Slots -> Handles \cup {None}]]
    /\ closed \in SUBSET Managers
    /\ flight \in [Calls -> Flight \cup {NoFlight}]

(* Whatever closes a session, and whenever, its request ID and its           *)
(* credentials are wiped: they exist only while a manager that is not closed *)
(* lists the session, or until the call that borrowed it returns.            *)
SecretsAccounted == \A h \in Handles :
    Secret(h) => Borrowed(h) \/ \E m \in Managers \ closed : h \in sessions[m]

(* No call is ever left with a wiped session: the request ID is shared by    *)
(* the copy the call works on, so closing must wait for it.                  *)
BorrowedStaysWhole == \A c \in Calls :
    flight[c].op = "operate" => entry[flight[c].handle].request

(* The two maps of a manager tell the same story: an account's slot is taken *)
(* exactly by the one listed session of that account, so no sign-in is       *)
(* refused because of one that is gone, and no two share a slot.             *)
SlotsAgree == \A m \in Managers, s \in Slots, h \in Handles :
    accounts[m][s] = h <=> h \in sessions[m] /\ entry[h].slot = s
===============================================================================
