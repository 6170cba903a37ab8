---------------------------- MODULE SignIn_proofs ----------------------------
(* Theorems about AuthFlow and SignIn, for every set of handles, managers,   *)
(* account slots, calls and capabilities, every capacity and every number of *)
(* generations.  First the managers by themselves; then the service, which   *)
(* uses a manager only as AuthFlow describes it, so that what is proved of   *)
(* the managers holds in the whole system.                                   *)
EXTENDS SignIn, TLAPS

USE NoneIsNothing, GenerationsAreNumbered

-----------------------------------------------------------------------------
(* The managers.                                                             *)

(* A session is listed by its manager exactly as long as it is not closed,   *)
(* and a manager that is closed lists none.                                  *)
ListedIsOpen == \A m \in Managers : \A h \in sessions[m] :
    entry[h].mgr = m /\ ~entry[h].closed /\ m \notin closed
OpenIsListed == \A h \in Handles :
    ~entry[h].closed => entry[h].mgr \in Managers /\ h \in sessions[entry[h].mgr]

(* What is closed is wiped, unless a call has it; an entry is marked busy    *)
(* exactly while a call has it, and never two at a time.                     *)
Lends(c, h) == flight[c].op \in {"begin", "operate"} /\ flight[c].handle = h
ClosedIsLent == \A h \in Handles : entry[h].closed => entry[h] = NoEntry \/ entry[h].busy
BusyIsLent == \A h \in Handles : entry[h].busy <=> Borrowed(h)
OneBorrower == \A c, d \in Calls, h \in Handles : Lends(c, h) /\ Lends(d, h) => c = d

(* An open session has a binding, and at rest something to go on with; no    *)
(* call borrows the credentials.                                             *)
Bound == \A h \in Handles : ~entry[h].closed => entry[h].binding \in Bindings /\ entry[h].slot \in Slots
Stored == \A h \in Handles : ~entry[h].closed /\ ~entry[h].busy => entry[h].request \/ entry[h].tokens
TokensAtRest == \A h \in Handles : entry[h].tokens => ~entry[h].busy /\ ~entry[h].request

FlowInv ==
    /\ FlowTypeOK
    /\ ListedIsOpen /\ OpenIsListed /\ ClosedIsLent
    /\ BusyIsLent /\ OneBorrower
    /\ Bound /\ Stored /\ TokensAtRest /\ BorrowedStaysWhole
    /\ SlotsAgree

-----------------------------------------------------------------------------
LEMMA NothingTyped == NoEntry \in Entry /\ NoFlight.op = "idle"
  BY DEF NoEntry, Entry, NoFlight

LEMMA FlowInitial == FlowInit => FlowInv
<1> SUFFICES ASSUME FlowInit
             PROVE  FlowInv
  OBVIOUS
<1> USE DEF FlowInit
<1>1. FlowTypeOK
  BY NothingTyped DEF FlowTypeOK
<1>2. \A h \in Handles : entry[h] = NoEntry
  OBVIOUS
<1>3. \A c \in Calls : flight[c].op = "idle"
  BY NothingTyped
<1>4. ListedIsOpen /\ OpenIsListed /\ ClosedIsLent /\ Bound /\ Stored /\ TokensAtRest
  BY <1>2 DEF ListedIsOpen, OpenIsListed, ClosedIsLent, Bound, Stored, TokensAtRest, NoEntry
<1>5. BusyIsLent /\ OneBorrower /\ BorrowedStaysWhole
  BY <1>2, <1>3 DEF BusyIsLent, OneBorrower, BorrowedStaysWhole, Lends, Borrowed, NoEntry
<1>6. SlotsAgree
  BY DEF SlotsAgree
<1> QED
  BY <1>1, <1>4, <1>5, <1>6 DEF FlowInv

LEMMA Shutting ==
  ASSUME FlowInv, NEW h \in Handles, ~entry[h].closed
  PROVE  IF entry[h].busy
           THEN /\ Shut(h) \in Entry /\ Shut(h).closed /\ Shut(h).busy
                /\ Shut(h).request = entry[h].request /\ Shut(h).tokens = entry[h].tokens
           ELSE Shut(h) = NoEntry
<1>1. entry[h] \in Entry
  BY DEF FlowInv, FlowTypeOK
<1> QED
  BY <1>1 DEF Shut, Entry

(* Closing sessions keeps all of it, whoever closes them and why, if no call *)
(* takes a session or gives one back.                                        *)
LEMMA Closing ==
  ASSUME FlowInv, NEW gone \in SUBSET Handles, \A h \in gone : ~entry[h].closed,
         entry' = Closed(gone), Detach(gone), closed' \in SUBSET Managers,
         \A m \in Managers : m \in closed' => m \in closed \/ sessions[m] \subseteq gone,
         flight' \in [Calls -> Flight \cup {NoFlight}],
         \A c \in Calls : \/ flight'[c] = flight[c]
                          \/ flight[c].op \notin {"begin", "operate"} /\ flight'[c].op \notin {"begin", "operate"}
  PROVE  FlowInv'
<1> USE DEF FlowInv, FlowTypeOK
<1>1. \A h \in Handles : entry'[h] = IF h \in gone THEN Shut(h) ELSE entry[h]
  BY DEF Closed
<1>2. \A h \in gone : IF entry[h].busy
        THEN /\ entry'[h] \in Entry /\ entry'[h].closed /\ entry'[h].busy
             /\ entry'[h].request = entry[h].request /\ entry'[h].tokens = entry[h].tokens
        ELSE entry'[h] = NoEntry
  BY <1>1, Shutting
<1>3. entry' \in [Handles -> Entry]
  BY <1>1, <1>2, NothingTyped DEF Closed
<1>4. \A m \in Managers : sessions'[m] = sessions[m] \ gone
  BY DEF Detach, Unlisted
<1>5. \A m \in Managers, s \in Slots : accounts'[m][s] = IF accounts[m][s] \in gone THEN None ELSE accounts[m][s]
  BY DEF Detach, Freed
<1>6. FlowTypeOK'
  BY <1>3, <1>4, <1>5 DEF Detach, Unlisted, Freed
<1>7. ListedIsOpen' /\ OpenIsListed' /\ Bound'
  BY <1>1, <1>2, <1>4 DEF ListedIsOpen, OpenIsListed, Bound, NoEntry
<1>8. ClosedIsLent'
  BY <1>1, <1>2 DEF ClosedIsLent
<1>9. Stored'
  BY <1>1, <1>2 DEF Stored, NoEntry
<1>10. TokensAtRest'
  BY <1>1, <1>2 DEF TokensAtRest, NoEntry
<1>11. \A c \in Calls, h \in Handles : Lends(c, h)' <=> Lends(c, h)
  BY DEF Lends
<1>12. BusyIsLent' /\ OneBorrower'
  BY <1>1, <1>2, <1>11 DEF BusyIsLent, OneBorrower, Lends, Borrowed, NoEntry
<1>13. BorrowedStaysWhole'
  BY <1>1, <1>2 DEF BorrowedStaysWhole, BusyIsLent, Borrowed, Flight, NoFlight
<1>14. SlotsAgree'
  BY <1>1, <1>4, <1>5 DEF SlotsAgree
<1> QED
  BY <1>6, <1>7, <1>8, <1>9, <1>10, <1>12, <1>13, <1>14

LEMMA LapsedAreOpen ==
  ASSUME FlowInv, NEW m \in Managers
  PROVE  Lapsed(m) \in SUBSET Handles /\ \A h \in Lapsed(m) : ~entry[h].closed
  BY DEF FlowInv, FlowTypeOK, ListedIsOpen, Lapsed

(* A call takes a session that nobody has: a new one, or one at rest.        *)
LEMMA Taking ==
  ASSUME FlowInv, NEW gone \in SUBSET Handles, \A x \in gone : ~entry[x].closed,
         NEW c \in Calls, NEW m \in Managers, m \notin closed, NEW h \in Handles, h \notin gone,
         NEW op \in {"begin", "operate"}, NEW e \in Entry,
         flight[c] = NoFlight, ~Borrowed(h),
         entry[h] = NoEntry \/ (h \in sessions[m] /\ entry[h].slot = e.slot),
         e.mgr = m, e.busy, ~e.closed, ~e.tokens, op = "operate" => e.request,
         e.binding \in Bindings, e.slot \in Slots, accounts[m][e.slot] \in gone \cup {None, h},
         entry' = [Closed(gone) EXCEPT ![h] = e],
         sessions' = [Unlisted(gone) EXCEPT ![m] = @ \cup {h}],
         accounts' = [Freed(gone) EXCEPT ![m][e.slot] = h],
         flight' = [flight EXCEPT ![c] = [op |-> op, handle |-> h]], closed' = closed
  PROVE  FlowInv'
<1> USE DEF FlowInv, FlowTypeOK
<1>1. \A x \in Handles : entry'[x] = IF x = h THEN e ELSE IF x \in gone THEN Shut(x) ELSE entry[x]
  BY DEF Closed
<1>2. \A x \in gone : IF entry[x].busy
        THEN /\ entry'[x] \in Entry /\ entry'[x].closed /\ entry'[x].busy
             /\ entry'[x].request = entry[x].request /\ entry'[x].tokens = entry[x].tokens
        ELSE entry'[x] = NoEntry
  BY <1>1, Shutting
<1>3. entry' \in [Handles -> Entry]
  BY <1>1, <1>2, NothingTyped DEF Closed
<1>4. \A k \in Managers : sessions'[k] = (sessions[k] \ gone) \cup IF k = m THEN {h} ELSE {}
  BY DEF Unlisted
<1>5. \A k \in Managers, s \in Slots : accounts'[k][s] =
        IF k = m /\ s = e.slot THEN h ELSE IF accounts[k][s] \in gone THEN None ELSE accounts[k][s]
  BY DEF Freed
<1>6. flight' \in [Calls -> Flight \cup {NoFlight}]
  BY DEF Flight
<1>7. FlowTypeOK'
  BY <1>3, <1>4, <1>5, <1>6 DEF Unlisted, Freed
<1>8. \A k \in Managers : h \in sessions[k] => k = m
  BY DEF ListedIsOpen, NoEntry
<1>9. ListedIsOpen' /\ OpenIsListed' /\ Bound'
  <2>1. ListedIsOpen'
    BY <1>1, <1>4, <1>8 DEF ListedIsOpen
  <2>2. OpenIsListed'
    BY <1>1, <1>2, <1>4 DEF OpenIsListed, NoEntry
  <2>3. Bound'
    BY <1>1, <1>2 DEF Bound, NoEntry
  <2> QED
    BY <2>1, <2>2, <2>3
<1>10. ClosedIsLent'
  BY <1>1, <1>2 DEF ClosedIsLent
<1>11. Stored'
  BY <1>1, <1>2 DEF Stored, NoEntry
<1>12. TokensAtRest'
  BY <1>1, <1>2 DEF TokensAtRest, NoEntry
<1>13. \A d \in Calls, x \in Handles : Lends(d, x)' <=> (d = c /\ x = h) \/ Lends(d, x)
  BY NothingTyped DEF Lends
<1>14. ~\E d \in Calls : Lends(d, h)
  BY DEF Borrowed, Lends
<1>15. BusyIsLent' /\ OneBorrower'
  BY <1>1, <1>2, <1>13, <1>14 DEF BusyIsLent, OneBorrower, Lends, Borrowed, NoEntry
<1>16. BorrowedStaysWhole'
  BY <1>1, <1>2, <1>14 DEF BorrowedStaysWhole, BusyIsLent, Borrowed, Lends, Flight, NoFlight
<1>17. SlotsAgree'
  BY <1>1, <1>4, <1>5, <1>8 DEF SlotsAgree, NoEntry
<1> QED
  BY <1>7, <1>9, <1>10, <1>11, <1>12, <1>15, <1>16, <1>17

(* A call gives its session back: nobody else had it.                        *)
LEMMA Returning ==
  ASSUME FlowInv, NEW c \in Calls, Return(c, {"begin", "operate"})
  PROVE  /\ flight[c].handle \in Handles /\ entry[flight[c].handle].busy
         /\ flight' \in [Calls -> Flight \cup {NoFlight}]
         /\ \A d \in Calls : Lends(d, flight[c].handle) => d = c
         /\ \A d \in Calls, x \in Handles : Lends(d, x)' <=> x # flight[c].handle /\ Lends(d, x)
<1> USE DEF FlowInv, FlowTypeOK
<1>1. flight[c] \in Flight
  BY NothingTyped DEF Return
<1>2. flight[c].handle \in Handles /\ Lends(c, flight[c].handle)
  BY <1>1 DEF Return, Flight, Lends
<1>3. entry[flight[c].handle].busy
  BY <1>2 DEF BusyIsLent, Borrowed, Lends
<1>4. \A d \in Calls : Lends(d, flight[c].handle) => d = c
  BY <1>2 DEF OneBorrower
<1>5. \A d \in Calls, x \in Handles : Lends(d, x)' <=> x # flight[c].handle /\ Lends(d, x)
  BY <1>2, <1>4, NothingTyped DEF Return, Lends
<1> QED
  BY <1>2, <1>3, <1>4, <1>5 DEF Return

LEMMA Keeping ==
  ASSUME FlowInv, NEW c \in Calls, Return(c, {"begin", "operate"}), NEW e \in Entry,
         entry' = [entry EXCEPT ![flight[c].handle] = e], UNCHANGED <<sessions, accounts, closed>>,
         ~entry[flight[c].handle].closed, ~e.closed, ~e.busy, e.request \/ e.tokens, ~(e.request /\ e.tokens),
         e.mgr = entry[flight[c].handle].mgr, e.slot = entry[flight[c].handle].slot,
         e.binding = entry[flight[c].handle].binding
  PROVE  FlowInv'
<1> USE DEF FlowInv, FlowTypeOK
<1> DEFINE h == flight[c].handle
<1>1. /\ h \in Handles
      /\ flight' \in [Calls -> Flight \cup {NoFlight}]
      /\ \A d \in Calls : Lends(d, h) => d = c
      /\ \A d \in Calls, x \in Handles : Lends(d, x)' <=> x # h /\ Lends(d, x)
  BY Returning
<1>2. /\ entry'[h] = e /\ ~entry[h].closed
      /\ e.mgr = entry[h].mgr /\ e.slot = entry[h].slot /\ e.binding = entry[h].binding
  BY <1>1
<1>3. \A x \in Handles : x # h => entry'[x] = entry[x]
  BY <1>1
<1> HIDE DEF h
<1>4. FlowTypeOK'
  BY <1>1, <1>2, <1>3
<1>5. ListedIsOpen' /\ OpenIsListed' /\ Bound'
  BY <1>2, <1>3 DEF ListedIsOpen, OpenIsListed, Bound
<1>6. ClosedIsLent' /\ Stored'
  BY <1>2, <1>3 DEF ClosedIsLent, Stored
<1>7. TokensAtRest'
  BY <1>2, <1>3 DEF TokensAtRest
<1>8. BusyIsLent' /\ OneBorrower'
  <2>1. \A x \in Handles : (Borrowed(x) <=> \E d \in Calls : Lends(d, x)) /\ (Borrowed(x)' <=> \E d \in Calls : Lends(d, x)')
    BY DEF Borrowed, Lends
  <2>2. BusyIsLent'
    BY <1>1, <1>2, <1>3, <2>1 DEF BusyIsLent
  <2>3. OneBorrower'
    BY <1>1 DEF OneBorrower
  <2> QED
    BY <2>2, <2>3
<1>9. BorrowedStaysWhole'
  <2>1. \A d \in Calls : flight'[d].op = "operate" => flight[d].op = "operate" /\ flight'[d] = flight[d] /\ d # c
    BY NothingTyped DEF Return
  <2>2. \A d \in Calls : flight[d].op = "operate" => flight[d].handle \in Handles
    BY NothingTyped DEF Flight
  <2>3. \A d \in Calls : flight'[d].op = "operate" => flight'[d].handle \in Handles /\ flight'[d].handle # h
    BY <1>1, <2>1, <2>2 DEF Lends
  <2> QED
    BY <1>3, <2>1, <2>3 DEF BorrowedStaysWhole
<1>10. SlotsAgree'
  BY <1>2, <1>3 DEF SlotsAgree
<1> QED
  BY <1>4, <1>5, <1>6, <1>7, <1>8, <1>9, <1>10

(* Or it is destroyed.                                                       *)
LEMMA Dropping ==
  ASSUME FlowInv, NEW c \in Calls, Drop(c)
  PROVE  FlowInv'
<1> USE DEF FlowInv, FlowTypeOK
<1> DEFINE h == flight[c].handle
<1>1. /\ h \in Handles
      /\ flight' \in [Calls -> Flight \cup {NoFlight}]
      /\ \A d \in Calls : Lends(d, h) => d = c
      /\ \A d \in Calls, x \in Handles : Lends(d, x)' <=> x # h /\ Lends(d, x)
  BY Returning DEF Drop
<1>2. entry'[h] = NoEntry /\ \A x \in Handles : x # h => entry'[x] = entry[x]
  BY <1>1 DEF Drop
<1>3. \A m \in Managers : sessions'[m] = sessions[m] \ {h}
  BY DEF Drop, Detach, Unlisted
<1>4. \A m \in Managers, s \in Slots : accounts'[m][s] = IF accounts[m][s] = h THEN None ELSE accounts[m][s]
  BY DEF Drop, Detach, Freed
<1>5. \A d \in Calls : flight'[d].op = "operate" => flight[d].op = "operate" /\ flight'[d] = flight[d] /\ d # c
  BY NothingTyped DEF Drop, Return
<1>6. FlowTypeOK'
  BY <1>1, <1>2, <1>3, <1>4, NothingTyped DEF Drop, Detach, Unlisted, Freed
<1> HIDE DEF h
<1>7. ListedIsOpen' /\ OpenIsListed' /\ Bound'
  BY <1>2, <1>3 DEF ListedIsOpen, OpenIsListed, Bound, NoEntry, Drop
<1>8. ClosedIsLent' /\ Stored'
  <2>1. ClosedIsLent'
    BY <1>2 DEF ClosedIsLent
  <2>2. Stored'
    BY <1>2 DEF Stored, NoEntry
  <2> QED
    BY <2>1, <2>2
<1>9. TokensAtRest'
  BY <1>2 DEF TokensAtRest, NoEntry
<1>10. BusyIsLent' /\ OneBorrower'
  <2>1. \A x \in Handles : (Borrowed(x) <=> \E d \in Calls : Lends(d, x)) /\ (Borrowed(x)' <=> \E d \in Calls : Lends(d, x)')
    BY DEF Borrowed, Lends
  <2>2. BusyIsLent'
    BY <1>1, <1>2, <2>1 DEF BusyIsLent, NoEntry
  <2>3. OneBorrower'
    BY <1>1 DEF OneBorrower
  <2> QED
    BY <2>2, <2>3
<1>11. BorrowedStaysWhole'
  <2>1. \A d \in Calls : flight[d].op = "operate" => flight[d].handle \in Handles
    BY NothingTyped DEF Flight
  <2> QED
    BY <1>1, <1>2, <1>5, <2>1 DEF BorrowedStaysWhole, Lends
<1>12. SlotsAgree'
  BY <1>1, <1>2, <1>3, <1>4 DEF SlotsAgree
<1> QED
  BY <1>6, <1>7, <1>8, <1>9, <1>10, <1>11, <1>12

(* Neither its expiry nor its generation is anything the rest depends on.    *)
LEMMA Touching ==
  ASSUME FlowInv, entry' \in [Handles -> Entry], UNCHANGED <<sessions, accounts, closed, flight>>,
         \A h \in Handles :
            \/ entry'[h] = entry[h]
            \/ /\ ~entry[h].closed /\ ~entry'[h].closed /\ entry'[h].binding \in Bindings
               /\ entry'[h].mgr = entry[h].mgr /\ entry'[h].slot = entry[h].slot /\ entry'[h].busy = entry[h].busy
               /\ entry'[h].request = entry[h].request /\ entry'[h].tokens = entry[h].tokens
  PROVE  FlowInv'
<1> USE DEF FlowInv, FlowTypeOK
<1>1. ListedIsOpen' /\ OpenIsListed' /\ Bound'
  BY DEF ListedIsOpen, OpenIsListed, Bound
<1>2. ClosedIsLent' /\ Stored'
  BY DEF ClosedIsLent, Stored
<1>3. TokensAtRest'
  BY DEF TokensAtRest
<1>4. BusyIsLent' /\ OneBorrower'
  BY DEF BusyIsLent, OneBorrower, Borrowed, Lends
<1>5. BorrowedStaysWhole'
  BY NothingTyped DEF BorrowedStaysWhole, Flight
<1>6. SlotsAgree'
  BY DEF SlotsAgree
<1> QED
  BY <1>1, <1>2, <1>3, <1>4, <1>5, <1>6

-----------------------------------------------------------------------------
LEMMA SameSlot ==
  ASSUME NEW f \in [Managers -> [Slots -> Handles \cup {None}]], NEW m \in Managers, NEW s \in Slots
  PROVE  f = [f EXCEPT ![m][s] = f[m][s]]
  OBVIOUS

LEMMA Starts ==
  ASSUME FlowInv, NEW c \in Calls, NEW m \in Managers, NEW h \in Handles, NEW b \in Bindings,
         (\E s \in Slots : BeginStart(c, m, s, b, h)) \/ OperationStart(c, m, h, b) \/ Consume(c, m, h, b)
  PROVE  FlowInv'
<1> USE DEF FlowInv, FlowTypeOK
<1> DEFINE gone == Lapsed(m)
<1>1. gone \in SUBSET Handles /\ \A x \in gone : ~entry[x].closed
  BY LapsedAreOpen
<1>2. CASE \E s \in Slots : BeginStart(c, m, s, b, h)
  <2>1. PICK s \in Slots : BeginStart(c, m, s, b, h)
    BY <1>2
  <2> DEFINE e == [NoEntry EXCEPT !.mgr = m, !.slot = s, !.binding = b, !.busy = TRUE, !.closed = FALSE]
  <2>2. /\ e \in Entry /\ e.mgr = m /\ e.slot = s /\ e.binding = b
        /\ e.busy /\ ~e.closed /\ ~e.tokens
    BY DEF NoEntry, Entry
  <2>3. entry[h] = NoEntry /\ ~Borrowed(h) /\ h \notin gone
    <3>1. ~Mentioned(h)
      BY <2>1 DEF BeginStart
    <3>2. entry[h] = NoEntry /\ ~Borrowed(h)
      BY <3>1 DEF Mentioned, Borrowed
    <3> QED
      BY <1>1, <3>2 DEF NoEntry
  <2>4. /\ flight[c] = NoFlight /\ m \notin closed /\ closed' = closed
        /\ accounts[m][s] \in gone \cup {None, h}
        /\ entry' = [Closed(gone) EXCEPT ![h] = e]
        /\ sessions' = [Unlisted(gone) EXCEPT ![m] = @ \cup {h}]
        /\ accounts' = [Freed(gone) EXCEPT ![m][s] = h]
        /\ flight' = [flight EXCEPT ![c] = [op |-> "begin", handle |-> h]]
    BY <2>1 DEF BeginStart
  <2> HIDE DEF e, gone
  <2> QED
    BY <1>1, <2>2, <2>3, <2>4, Taking
<1>3. CASE OperationStart(c, m, h, b)
  <2> DEFINE e == [entry[h] EXCEPT !.busy = TRUE]
  <2>1. /\ h \in sessions[m] \ gone /\ entry[h].mgr = m /\ ~entry[h].closed /\ m \notin closed
        /\ ~entry[h].busy /\ ~entry[h].tokens /\ flight[c] = NoFlight
    BY <1>3 DEF OperationStart, ListedIsOpen
  <2>2. entry[h].request /\ entry[h].binding \in Bindings /\ entry[h].slot \in Slots /\ entry[h] \in Entry
    BY <2>1 DEF Stored, Bound
  <2>3. /\ e \in Entry /\ e.mgr = m /\ e.slot = entry[h].slot /\ e.binding \in Bindings
        /\ e.busy /\ ~e.closed /\ ~e.tokens /\ e.request
    BY <2>1, <2>2 DEF Entry
  <2>4. accounts[m][entry[h].slot] = h /\ ~Borrowed(h)
    BY <2>1, <2>2 DEF SlotsAgree, BusyIsLent
  <2>5. /\ entry' = [Closed(gone) EXCEPT ![h].busy = TRUE] /\ Detach(gone) /\ closed' = closed
        /\ flight' = [flight EXCEPT ![c] = [op |-> "operate", handle |-> h]]
    BY <1>3 DEF OperationStart
  <2>6. entry' = [Closed(gone) EXCEPT ![h] = e]
    BY <2>1, <2>5 DEF Closed
  <2>7. sessions' = [Unlisted(gone) EXCEPT ![m] = @ \cup {h}]
    <3>1. sessions' = Unlisted(gone) /\ sessions'[m] \cup {h} = sessions'[m]
      BY <2>1, <2>5 DEF Detach, Unlisted
    <3>2. sessions' = [sessions' EXCEPT ![m] = @ \cup {h}]
      BY <3>1 DEF Unlisted
    <3> QED
      BY <3>1, <3>2
  <2>8. accounts' = [Freed(gone) EXCEPT ![m][e.slot] = h]
    <3>1. accounts' = Freed(gone) /\ accounts'[m][e.slot] = h
      BY <2>1, <2>2, <2>3, <2>4, <2>5 DEF Detach, Freed
    <3>2. accounts' \in [Managers -> [Slots -> Handles \cup {None}]]
      BY <1>1, <3>1 DEF Freed
    <3>3. accounts' = [accounts' EXCEPT ![m][e.slot] = h]
      BY <2>2, <2>3, <3>1, <3>2, SameSlot
    <3> QED
      BY <3>1, <3>3
  <2> HIDE DEF e, gone
  <2> QED
    BY <1>1, <2>1, <2>2, <2>3, <2>4, <2>5, <2>6, <2>7, <2>8, Taking
<1>4. CASE Consume(c, m, h, b)
  <2>1. /\ h \in sessions[m] /\ flight[c] = NoFlight /\ closed' = closed
        /\ entry' = Closed(gone \cup {h}) /\ Detach(gone \cup {h})
        /\ flight' = [flight EXCEPT ![c] = [op |-> "consume", handle |-> h]]
    BY <1>4 DEF Consume, Matches
  <2>2. ~entry[h].closed
    BY <2>1 DEF ListedIsOpen
  <2>3. /\ flight' \in [Calls -> Flight \cup {NoFlight}]
        /\ \A d \in Calls : \/ flight'[d] = flight[d]
                            \/ flight[d].op \notin {"begin", "operate"} /\ flight'[d].op \notin {"begin", "operate"}
    BY <2>1, NothingTyped DEF Flight
  <2> HIDE DEF gone
  <2> QED
    BY <1>1, <2>1, <2>2, <2>3, Closing
<1> QED
  BY <1>2, <1>3, <1>4

LEMMA Ends ==
  ASSUME FlowInv, NEW c \in Calls, BeginEnd(c) \/ OperationEnd(c) \/ Authorized(c)
  PROVE  FlowInv'
<1> USE DEF FlowInv, FlowTypeOK
<1> DEFINE h == flight[c].handle
<1>1. Return(c, {"begin", "operate"})
  BY DEF BeginEnd, OperationEnd, Authorized, Return
<1>2. h \in Handles /\ entry[h].busy /\ ~entry[h].closed /\ entry[h] \in Entry
  BY <1>1, Returning DEF BeginEnd, OperationEnd, Authorized, StillOpen
<1>3. ~entry[h].tokens
  BY <1>2 DEF TokensAtRest
<1>4. CASE BeginEnd(c)
  <2> DEFINE e == [[entry[h] EXCEPT !.request = TRUE] EXCEPT !.busy = FALSE]
  <2>1. /\ e \in Entry /\ ~e.busy /\ ~e.closed /\ e.request /\ ~e.tokens
        /\ e.mgr = entry[h].mgr /\ e.slot = entry[h].slot /\ e.binding = entry[h].binding
    BY <1>2, <1>3 DEF Entry
  <2>2. entry' = [entry EXCEPT ![h] = e] /\ UNCHANGED <<sessions, accounts, closed>>
    BY <1>4 DEF BeginEnd, Keep
  <2> HIDE DEF e
  <2> QED
    BY <1>1, <1>2, <2>1, <2>2, Keeping
<1>5. CASE OperationEnd(c)
  <2> DEFINE e == [entry[h] EXCEPT !.busy = FALSE]
  <2>1. entry[h].request
    BY <1>5 DEF OperationEnd, Return, BorrowedStaysWhole
  <2>2. /\ e \in Entry /\ ~e.busy /\ ~e.closed /\ e.request /\ ~e.tokens
        /\ e.mgr = entry[h].mgr /\ e.slot = entry[h].slot /\ e.binding = entry[h].binding
    BY <1>2, <1>3, <2>1 DEF Entry
  <2>3. entry' = [entry EXCEPT ![h] = e] /\ UNCHANGED <<sessions, accounts, closed>>
    BY <1>5 DEF OperationEnd, Keep
  <2> HIDE DEF e
  <2> QED
    BY <1>1, <1>2, <2>2, <2>3, Keeping
<1>6. CASE Authorized(c)
  <2> DEFINE e == [[entry[h] EXCEPT !.request = FALSE, !.tokens = TRUE] EXCEPT !.busy = FALSE]
  <2>1. /\ e \in Entry /\ ~e.busy /\ ~e.closed /\ ~e.request /\ e.tokens
        /\ e.mgr = entry[h].mgr /\ e.slot = entry[h].slot /\ e.binding = entry[h].binding
    BY <1>2 DEF Entry
  <2>2. entry' = [entry EXCEPT ![h] = e] /\ UNCHANGED <<sessions, accounts, closed>>
    BY <1>6 DEF Authorized, Keep
  <2> HIDE DEF e
  <2> QED
    BY <1>1, <1>2, <2>1, <2>2, Keeping
<1> QED
  BY <1>4, <1>5, <1>6

LEMMA NothingCloses ==
  ASSUME FlowInv
  PROVE  entry = Closed({}) /\ sessions = Unlisted({}) /\ accounts = Freed({})
<1> USE DEF FlowInv, FlowTypeOK
<1>1. entry = Closed({}) /\ sessions = Unlisted({})
  BY DEF Closed, Unlisted
<1>2. accounts = Freed({})
  BY DEF Freed
<1> QED
  BY <1>1, <1>2

LEMMA ConsumeEnds ==
  ASSUME FlowInv, NEW c \in Calls, ConsumeEnd(c)
  PROVE  FlowInv'
<1> USE DEF FlowInv, FlowTypeOK
<1>1. /\ flight' \in [Calls -> Flight \cup {NoFlight}]
      /\ \A d \in Calls : \/ flight'[d] = flight[d]
                          \/ flight[d].op \notin {"begin", "operate"} /\ flight'[d].op \notin {"begin", "operate"}
  BY NothingTyped DEF ConsumeEnd, Return
<1> QED
  BY <1>1, NothingCloses, Closing DEF ConsumeEnd, Detach

LEMMA Closes ==
  ASSUME FlowInv, NEW m \in Managers,
         \/ PurgeExpired(m) \/ Close(m) \/ NewManager(m)
         \/ \E h \in Handles, b \in Bindings : Cancel(m, h, b)
  PROVE  FlowInv'
<1> USE DEF FlowInv, FlowTypeOK
<1>1. Lapsed(m) \in SUBSET Handles /\ \A x \in Lapsed(m) : ~entry[x].closed
  BY LapsedAreOpen
<1>2. CASE PurgeExpired(m)
  BY <1>1, <1>2, Closing DEF PurgeExpired
<1>3. CASE Close(m)
  <2>1. \A x \in sessions[m] : ~entry[x].closed
    BY DEF ListedIsOpen
  <2> QED
    BY <1>3, <2>1, Closing DEF Close
<1>4. CASE \E h \in Handles, b \in Bindings : Cancel(m, h, b)
  <2>1. PICK h \in Handles, b \in Bindings : Cancel(m, h, b)
    BY <1>4
  <2>2. ~entry[h].closed
    BY <2>1 DEF Cancel, Matches, ListedIsOpen
  <2> QED
    BY <1>1, <2>1, <2>2, Closing DEF Cancel
<1>5. CASE NewManager(m)
  BY <1>5, NothingCloses, Closing DEF NewManager, Detach
<1> QED
  BY <1>2, <1>3, <1>4, <1>5

LEMMA Touches ==
  ASSUME FlowInv, \/ \E h \in Handles : Lapse(h)
                  \/ \E m \in Managers, g \in Gens : Rebind(m, g)
  PROVE  FlowInv'
<1> USE DEF FlowInv, FlowTypeOK
<1>1. CASE \E h \in Handles : Lapse(h)
  <2>1. PICK h \in Handles : Lapse(h)
    BY <1>1
  <2>2. entry[h] \in Entry /\ ~entry[h].closed /\ entry[h].binding \in Bindings
    BY <2>1 DEF Lapse, Bound
  <2>3. entry'[h] = [entry[h] EXCEPT !.lapsed = TRUE] /\ \A x \in Handles : x # h => entry'[x] = entry[x]
    BY <2>1 DEF Lapse
  <2>4. /\ entry'[h] \in Entry /\ ~entry'[h].closed /\ entry'[h].binding \in Bindings
        /\ entry'[h].mgr = entry[h].mgr /\ entry'[h].slot = entry[h].slot /\ entry'[h].busy = entry[h].busy
        /\ entry'[h].request = entry[h].request /\ entry'[h].tokens = entry[h].tokens
    BY <2>2, <2>3 DEF Entry
  <2> QED
    BY <2>1, <2>2, <2>3, <2>4, Touching DEF Lapse
<1>2. CASE \E m \in Managers, g \in Gens : Rebind(m, g)
  <2>1. PICK m \in Managers, g \in Gens : Rebind(m, g)
    BY <1>2
  <2>2. \A h \in Handles : entry'[h] = IF h \in sessions[m] THEN [entry[h] EXCEPT !.binding.gen = g] ELSE entry[h]
    BY <2>1 DEF Rebind
  <2>3. ASSUME NEW h \in sessions[m]
        PROVE  /\ entry'[h] \in Entry /\ ~entry[h].closed /\ ~entry'[h].closed /\ entry'[h].binding \in Bindings
               /\ entry'[h].mgr = entry[h].mgr /\ entry'[h].slot = entry[h].slot /\ entry'[h].busy = entry[h].busy
               /\ entry'[h].request = entry[h].request /\ entry'[h].tokens = entry[h].tokens
    <3>1. entry[h] \in Entry /\ ~entry[h].closed /\ entry[h].binding \in Bindings
      BY DEF ListedIsOpen, Bound
    <3>2. [entry[h].binding EXCEPT !.gen = g] \in Bindings
      BY <3>1 DEF Bindings
    <3>3. entry'[h] = [entry[h] EXCEPT !.binding = [entry[h].binding EXCEPT !.gen = g]]
      BY <2>2, <3>1 DEF Entry
    <3> QED
      BY <3>1, <3>2, <3>3 DEF Entry
  <2>4. entry' \in [Handles -> Entry]
    BY <2>1, <2>2, <2>3 DEF Rebind
  <2> QED
    BY <2>1, <2>2, <2>3, <2>4, Touching DEF Rebind
<1> QED
  BY <1>1, <1>2

LEMMA FlowStep == FlowInv /\ [FlowNext]_flowVars => FlowInv'
<1> SUFFICES ASSUME FlowInv, [FlowNext]_flowVars
             PROVE  FlowInv'
  OBVIOUS
<1>1. CASE \E m \in Managers : ManagerStep(m)
  <2>1. PICK m \in Managers : ManagerStep(m)
    BY <1>1
  <2> QED
    BY <2>1, Closes, Touches, Starts DEF ManagerStep
<1>2. CASE \E h \in Handles : Lapse(h)
  BY <1>2, Touches
<1>3. CASE \E c \in Calls : Drop(c) \/ BeginEnd(c) \/ OperationEnd(c) \/ Authorized(c) \/ ConsumeEnd(c)
  <2>1. PICK c \in Calls : Drop(c) \/ BeginEnd(c) \/ OperationEnd(c) \/ Authorized(c) \/ ConsumeEnd(c)
    BY <1>3
  <2> QED
    BY <2>1, Dropping, Ends, ConsumeEnds
<1>4. CASE UNCHANGED flowVars
  BY <1>4 DEF flowVars, FlowInv, FlowTypeOK, ListedIsOpen, OpenIsListed, ClosedIsLent, BusyIsLent, OneBorrower,
     Lends, Bound, Stored, TokensAtRest, BorrowedStaysWhole, SlotsAgree, Borrowed
<1> QED
  BY <1>1, <1>2, <1>3, <1>4 DEF FlowNext

(* No step makes a detached entry that a call has: it only detaches one.     *)
LEMMA DetachedWasBusy ==
  ASSUME FlowInv, [FlowNext]_flowVars, NEW h \in Handles, entry'[h].closed, entry'[h].busy
  PROVE  entry[h].busy /\ entry'[h].mgr = entry[h].mgr
<1> USE DEF FlowInv, FlowTypeOK
<1>1. ~entry[h].closed => \/ Shut(h) = NoEntry
                          \/ entry[h].busy /\ Shut(h).mgr = entry[h].mgr
  BY DEF Shut, Entry
<1>2. ASSUME NEW gone \in SUBSET Handles, \A x \in gone : ~entry[x].closed,
             entry'[h] = Closed(gone)[h]
      PROVE  entry[h].busy /\ entry'[h].mgr = entry[h].mgr
  BY <1>1, <1>2 DEF Closed, NoEntry
<1>3. CASE \E m \in Managers : ManagerStep(m)
  <2>1. PICK m \in Managers : ManagerStep(m)
    BY <1>3
  <2>2. Lapsed(m) \in SUBSET Handles /\ \A x \in Lapsed(m) : ~entry[x].closed
    BY LapsedAreOpen
  <2>3. CASE NewManager(m)
    BY <2>3 DEF NewManager
  <2>4. CASE PurgeExpired(m)
    BY <1>2, <2>2, <2>4 DEF PurgeExpired
  <2>5. CASE Close(m)
    BY <1>2, <2>5 DEF Close, ListedIsOpen
  <2>6. CASE \E g \in Gens : Rebind(m, g)
    BY <2>6 DEF Rebind, Entry
  <2>7. ASSUME NEW x \in Handles, NEW b \in Bindings, Cancel(m, x, b) \/ \E c \in Calls : Consume(c, m, x, b)
        PROVE  entry[h].busy /\ entry'[h].mgr = entry[h].mgr
    <3>1. entry' = Closed(Lapsed(m) \cup {x}) /\ ~entry[x].closed
      BY <2>7 DEF Cancel, Consume, Matches, ListedIsOpen
    <3> DEFINE gone == Lapsed(m) \cup {x}
    <3>2. gone \in SUBSET Handles /\ (\A y \in gone : ~entry[y].closed) /\ entry'[h] = Closed(gone)[h]
      BY <2>2, <3>1
    <3> HIDE DEF gone
    <3> QED
      BY <1>2, <3>2
  <2>8. ASSUME NEW x \in Handles, NEW b \in Bindings, NEW c \in Calls, NEW s \in Slots, BeginStart(c, m, s, b, x)
        PROVE  entry[h].busy /\ entry'[h].mgr = entry[h].mgr
    <3>1. CASE h = x
      BY <2>8, <3>1 DEF BeginStart, NoEntry, Closed
    <3>2. CASE h # x
      BY <1>2, <2>2, <2>8, <3>2 DEF BeginStart, Closed
    <3> QED
      BY <3>1, <3>2
  <2>9. ASSUME NEW x \in Handles, NEW b \in Bindings, NEW c \in Calls, OperationStart(c, m, x, b)
        PROVE  entry[h].busy /\ entry'[h].mgr = entry[h].mgr
    <3>1. x \in sessions[m] \ Lapsed(m) /\ entry' = [Closed(Lapsed(m)) EXCEPT ![x].busy = TRUE] /\ ~entry[x].closed
      BY <2>9 DEF OperationStart, ListedIsOpen
    <3>2. CASE h = x
      BY <3>1, <3>2 DEF Closed, Entry
    <3>3. CASE h # x
      BY <1>2, <2>2, <3>1, <3>3 DEF Closed
    <3> QED
      BY <3>2, <3>3
  <2> QED
    BY <2>1, <2>3, <2>4, <2>5, <2>6, <2>7, <2>8, <2>9 DEF ManagerStep
<1>4. CASE \E x \in Handles : Lapse(x)
  BY <1>4 DEF Lapse, Entry
<1>5. CASE \E c \in Calls : Drop(c) \/ BeginEnd(c) \/ OperationEnd(c) \/ Authorized(c) \/ ConsumeEnd(c)
  <2>1. PICK c \in Calls : Drop(c) \/ BeginEnd(c) \/ OperationEnd(c) \/ Authorized(c) \/ ConsumeEnd(c)
    BY <1>5
  <2>2. CASE Drop(c)
    BY <2>2 DEF Drop, NoEntry
  <2>3. CASE BeginEnd(c)
    BY <2>3 DEF BeginEnd, Keep, Entry
  <2>4. CASE OperationEnd(c)
    BY <2>4 DEF OperationEnd, Keep, Entry
  <2>5. CASE Authorized(c)
    BY <2>5 DEF Authorized, Keep, Entry
  <2>6. CASE ConsumeEnd(c)
    BY <2>6 DEF ConsumeEnd
  <2> QED
    BY <2>1, <2>2, <2>3, <2>4, <2>5, <2>6
<1>6. CASE UNCHANGED flowVars
  BY <1>6 DEF flowVars
<1> QED
  BY <1>3, <1>4, <1>5, <1>6 DEF FlowNext

LEMMA FlowAlways == FlowSpec => []FlowInv
<1>1. FlowInit => FlowInv
  BY FlowInitial
<1>2. FlowInv /\ [FlowNext]_flowVars => FlowInv'
  BY FlowStep
<1> QED
  BY <1>1, <1>2, PTL DEF FlowSpec

-----------------------------------------------------------------------------
(* What is closed is wiped at once or by the call that has it, and what is   *)
(* open is listed by a manager that is not closed.                           *)
LEMMA SecretsFollow == FlowInv => SecretsAccounted
<1> SUFFICES ASSUME FlowInv, NEW h \in Handles, Secret(h), ~Borrowed(h)
             PROVE  \E m \in Managers \ closed : h \in sessions[m]
  BY DEF SecretsAccounted
<1>1. ~entry[h].busy
  BY DEF FlowInv, BusyIsLent
<1>2. ~entry[h].closed
  BY <1>1 DEF FlowInv, ClosedIsLent, Secret, NoEntry
<1> QED
  BY <1>2 DEF FlowInv, OpenIsListed, ListedIsOpen

(* The request ID and the credentials of a sign-in exist only while an open  *)
(* manager lists it or until the call that borrowed it returns, however its  *)
(* session came to be closed (closeEntryLocked, destroyEntryLocked).         *)
THEOREM SecretsAreAccounted == FlowSpec => []SecretsAccounted
  BY FlowAlways, SecretsFollow, PTL

(* A call that comes back finds the session it borrowed whole, whatever      *)
(* happened to it meanwhile (startOperation, closeEntryLocked).              *)
THEOREM NoWipedSessionInUse == FlowSpec => []BorrowedStaysWhole
<1>1. FlowInv => BorrowedStaysWhole
  BY DEF FlowInv
<1> QED
  BY <1>1, FlowAlways, PTL

(* A manager's two maps always agree (m.sessions and m.accounts).            *)
THEOREM SlotsAlwaysAgree == FlowSpec => []SlotsAgree
<1>1. FlowInv => SlotsAgree
  BY DEF FlowInv
<1> QED
  BY <1>1, FlowAlways, PTL

-----------------------------------------------------------------------------
(* The service.                                                              *)

(* What a call has in hand at each place of its handler.                     *)
WithManager == {"found", "remote", "answered", "checked", "abandon", "cancel", "consuming"}
WithHandle == WithManager \ {"found"}
Sound(r) ==
    /\ r \in Request
    /\ r.pc # "idle" => /\ r.binding \in Bindings
                        /\ r.op = "begin" => r.slot \in Slots
                        /\ r.op # "begin" => r.handle \in Handles
    /\ r.pc \in WithManager => r.mgr \in Managers
    /\ r.pc \in WithHandle => r.handle \in Handles

(* The service follows sign-ins only while it has a manager, and whatever    *)
(* goes on to a manager has one.                                             *)
ServiceInv ==
    /\ gen \in Gens /\ locked \in BOOLEAN /\ view \in View \cup {None}
    /\ mgr \in Managers \cup {None} /\ ops \in [Handles -> Bindings \cup {None}]
    /\ bound \in Calls \cup {None}
    /\ sweep \in [pc : {"idle", "read", "lease", "ops", "manager", "cap"}, gen : Gens, mgr : Managers \cup {None}]
    /\ lock \in [pc : {"idle", "vault", "views"}, mgr : {None}] \cup [pc : {"close", "wait"}, mgr : Managers]
    /\ ending \in Ending \cup {None}
    /\ carried \in SUBSET Handles
    /\ mgr = None => \A h \in Handles : ops[h] = None
    /\ sweep.pc = "manager" => sweep.mgr \in Managers
    /\ ending # None /\ ending.todo # {} => ending.mgr \in Managers
RequestsInv == req \in [Calls -> Request] /\ \A c \in Calls : Sound(req[c])

SignInInv == FlowInv /\ ServiceInv /\ RequestsInv

-----------------------------------------------------------------------------
LEMMA NoReqSound == Sound(NoReq)
  BY DEF Sound, NoReq, Request, Places, WithManager, WithHandle

LEMMA SoundStays ==
  ASSUME RequestsInv, NEW c \in Calls, NEW r, Sound(r), req' = [req EXCEPT ![c] = r]
  PROVE  RequestsInv'
<1>1. r \in Request
  BY DEF Sound
<1>2. \A d \in Calls : req'[d] = IF d = c THEN r ELSE req[d]
  BY DEF RequestsInv
<1> QED
  BY <1>1, <1>2 DEF RequestsInv

LEMMA GoesOn ==
  ASSUME RequestsInv, NEW c \in Calls, req[c].pc # "idle", NEW pc \in Places \ {"idle"},
         pc \in WithManager => req[c].mgr \in Managers,
         pc \in WithHandle => req[c].handle \in Handles, Goto(c, pc)
  PROVE  RequestsInv'
<1> DEFINE r == [req[c] EXCEPT !.pc = pc]
<1>1. Sound(req[c])
  BY DEF RequestsInv
<1>2. Sound(r)
  BY <1>1 DEF Sound, Request
<1>3. req' = [req EXCEPT ![c] = r]
  BY DEF Goto
<1> HIDE DEF r
<1> QED
  BY <1>2, <1>3, SoundStays

LEMMA SignInInitial == Init => SignInInv
<1> SUFFICES ASSUME Init
             PROVE  SignInInv
  OBVIOUS
<1>1. FlowInv
  BY FlowInitial DEF Init
<1>2. ServiceInv
  BY DEF Init, ServiceInv, NoSweep, NoLock
<1>3. RequestsInv
  BY NoReqSound DEF Init, RequestsInv, Sound
<1> QED
  BY <1>1, <1>2, <1>3 DEF SignInInv

(* What a call does to the service.                                          *)
LEMMA CallsKeepService ==
  ASSUME SignInInv, NEW c \in Calls,
         \/ CallStep(c)
         \/ \E s \in Slots : BeginCall(c, s)
         \/ \E h \in Handles, kind \in {"operate", "cancel"} : HandleCall(c, h, kind)
  PROVE  ServiceInv'
<1> USE DEF SignInInv, ServiceInv, service
<1>1. CASE \E s \in Slots : BeginCall(c, s)
  BY <1>1 DEF BeginCall
<1>2. CASE \E h \in Handles, kind \in {"operate", "cancel"} : HandleCall(c, h, kind)
  BY <1>2 DEF HandleCall
<1>3. CASE FindManager(c)
  BY <1>3 DEF FindManager, FlowInv, FlowTypeOK
<1>4. CASE FindOperation(c) \/ AccountTaken(c) \/ StartRefused(c) \/ BeginAnswered(c) \/ PollAuthorized(c) \/ Reauthorize(c) \/ StartConsume(c)
  BY <1>4 DEF FindOperation, AccountTaken, StartRefused, BeginAnswered, PollAuthorized, Reauthorize, StartConsume
<1>5. CASE StartOperation(c)
  BY <1>5 DEF StartOperation, TakeAccount
<1>6. CASE StartBegin(c)
  BY <1>6 DEF StartBegin, TakeAccount
<1>7. CASE OperationReturns(c) \/ Abandon(c)
  BY <1>7 DEF OperationReturns, Abandon, Finish, Released
<1>8. CASE Register(c)
  <2>1. req[c].binding \in Bindings /\ req[c].mgr \in Managers
    BY <1>8 DEF Register, At, RequestsInv, Sound, WithManager
  <2>2. CASE mgr = req[c].mgr
    <3>1. ops' = [ops EXCEPT ![req[c].handle] = req[c].binding]
      BY <1>8, <2>2 DEF Register
    <3>2. ops' \in [Handles -> Bindings \cup {None}]
      BY <2>1, <3>1
    <3>3. mgr' # None
      BY <1>8, <2>1, <2>2 DEF Register
    <3>4. UNCHANGED <<gen, locked, view, mgr, sweep, lock, ending, carried>> /\ bound' \in Calls \cup {None}
      BY <1>8, <2>2 DEF Register, Finish, Released
    <3> QED
      BY <3>2, <3>3, <3>4
  <2>3. CASE mgr # req[c].mgr
    BY <1>8, <2>3 DEF Register
  <2> QED
    BY <2>2, <2>3
<1>9. ASSUME ops' = [ops EXCEPT ![req[c].handle] = None],
             gen' \in Gens, bound' \in {bound, None},
             UNCHANGED <<locked, view, mgr, sweep, lock, ending, carried>>
      PROVE  ServiceInv'
  <2>1. ops' \in [Handles -> Bindings \cup {None}]
    BY <1>9
  <2>2. \A h \in Handles : ops[h] = None => ops'[h] = None
    BY <1>9
  <2> QED
    BY <1>9, <2>1, <2>2
<1>10. CASE CancelCall(c)
  <2>1. gen' \in Gens
    BY <1>10 DEF CancelCall
  <2> QED
    BY <1>9, <1>10, <2>1 DEF CancelCall
<1>11. CASE ConsumeRefused(c)
  <2>1. gen' \in Gens
    BY <1>11 DEF ConsumeRefused
  <2>2. bound' \in {bound, None}
    BY <1>11 DEF ConsumeRefused, Finish, Released
  <2> QED
    BY <1>9, <1>11, <2>1, <2>2 DEF ConsumeRefused
<1>12. CASE Consumed(c)
  <2>1. gen' \in Gens
    BY <1>12 DEF Consumed
  <2>2. bound' \in {bound, None}
    BY <1>12 DEF Consumed, Finish, Released
  <2> QED
    BY <1>9, <1>12, <2>1, <2>2 DEF Consumed
<1> QED
  BY <1>1, <1>2, <1>3, <1>4, <1>5, <1>6, <1>7, <1>8, <1>10, <1>11, <1>12 DEF CallStep

LEMMA CallsKeepRequests ==
  ASSUME SignInInv, NEW c \in Calls,
         \/ CallStep(c)
         \/ \E s \in Slots : BeginCall(c, s)
         \/ \E h \in Handles, kind \in {"operate", "cancel"} : HandleCall(c, h, kind)
  PROVE  RequestsInv'
<1> USE DEF SignInInv
<1>1. Sound(req[c])
  BY DEF RequestsInv
<1>2. ViewCurrent => CurrentBinding \in Bindings
  BY DEF ViewCurrent, CurrentBinding, Bindings, ServiceInv, View
<1>3. CASE \E s \in Slots : BeginCall(c, s)
  <2>1. PICK s \in Slots : BeginCall(c, s)
    BY <1>3
  <2> DEFINE r == [NoReq EXCEPT !.pc = "authorized", !.op = "begin", !.slot = s, !.binding = CurrentBinding]
  <2>2. req' = [req EXCEPT ![c] = r] /\ CurrentBinding \in Bindings
    BY <1>2, <2>1 DEF BeginCall
  <2>3. Sound(r)
    BY <2>2 DEF NoReq, Sound, Request, Places, WithManager, WithHandle
  <2> HIDE DEF r
  <2> QED
    BY <2>2, <2>3, SoundStays
<1>4. CASE \E h \in Handles, kind \in {"operate", "cancel"} : HandleCall(c, h, kind)
  <2>1. PICK h \in Handles, kind \in {"operate", "cancel"} : HandleCall(c, h, kind)
    BY <1>4
  <2> DEFINE r == [NoReq EXCEPT !.pc = "authorized", !.op = kind, !.handle = h, !.binding = CurrentBinding]
  <2>2. req' = [req EXCEPT ![c] = r] /\ CurrentBinding \in Bindings
    BY <1>2, <2>1 DEF HandleCall
  <2>3. Sound(r)
    BY <2>2 DEF NoReq, Sound, Request, Places, WithManager, WithHandle
  <2> HIDE DEF r
  <2> QED
    BY <2>2, <2>3, SoundStays
<1>5. CASE FindManager(c)
  <2>1. PICK m \in IF mgr # None THEN {mgr} ELSE closed \ InUse : req' = [req EXCEPT ![c].pc = "found", ![c].mgr = m]
    BY <1>5 DEF FindManager
  <2>2. m \in Managers
    BY DEF ServiceInv, FlowInv, FlowTypeOK
  <2> DEFINE r == [req[c] EXCEPT !.pc = "found", !.mgr = m]
  <2>3. req' = [req EXCEPT ![c] = r]
    BY <2>1
  <2>4. req[c].pc = "authorized"
    BY <1>5 DEF FindManager, At
  <2>5. Sound(r)
    BY <1>1, <2>2, <2>4 DEF Sound, Request, Places, WithManager, WithHandle
  <2> HIDE DEF r
  <2> QED
    BY <2>3, <2>5, SoundStays
<1>6. CASE FindOperation(c)
  <2> DEFINE p == IF req[c].op = "cancel" THEN "cancel" ELSE "found"
  <2> DEFINE r == IF mgr # None /\ ops[req[c].handle] = req[c].binding
                    THEN [req[c] EXCEPT !.pc = p, !.mgr = mgr] ELSE NoReq
  <2>1. req' = [req EXCEPT ![c] = r] /\ req[c].pc = "authorized" /\ req[c].op # "begin"
    BY <1>6 DEF FindOperation, At
  <2>2. CASE mgr # None
    <3>1. mgr \in Managers /\ req[c].handle \in Handles /\ req[c].binding \in Bindings
      BY <1>1, <2>1, <2>2 DEF Sound, ServiceInv
    <3>2. Sound([req[c] EXCEPT !.pc = p, !.mgr = mgr])
      BY <1>1, <2>1, <3>1 DEF Sound, Request, Places, WithManager, WithHandle
    <3> QED
      BY <2>1, <3>2, NoReqSound, SoundStays
  <2>3. CASE mgr = None
    BY <2>1, <2>3, NoReqSound, SoundStays
  <2> QED
    BY <2>2, <2>3
<1>7. ASSUME req' = [req EXCEPT ![c] = NoReq]
      PROVE  RequestsInv'
  BY <1>7, NoReqSound, SoundStays
<1>8. CASE AccountTaken(c)
  BY <1>7, <1>8 DEF AccountTaken
<1>9. CASE StartBegin(c)
  <2>1. PICK h \in Handles : req' = [req EXCEPT ![c].pc = "remote", ![c].handle = h]
    BY <1>9 DEF StartBegin
  <2> DEFINE r == [req[c] EXCEPT !.pc = "remote", !.handle = h]
  <2>2. req' = [req EXCEPT ![c] = r] /\ req[c].pc = "found" /\ req[c].op = "begin"
    BY <1>9, <2>1 DEF StartBegin, TakeAccount, At
  <2>3. Sound(r)
    BY <1>1, <2>2 DEF Sound, Request, Places, WithManager, WithHandle
  <2> HIDE DEF r
  <2> QED
    BY <2>2, <2>3, SoundStays
<1>10. CASE StartOperation(c)
  BY <1>1, <1>10, GoesOn DEF StartOperation, TakeAccount, At, Sound, Places, WithManager, WithHandle
<1>11. CASE BeginAnswered(c) \/ PollAuthorized(c)
  BY <1>1, <1>11, GoesOn DEF BeginAnswered, PollAuthorized, At, Sound, Places, WithManager, WithHandle
<1>12. CASE Reauthorize(c)
  BY <1>1, <1>12, GoesOn DEF Reauthorize, At, Sound, Places, WithManager, WithHandle
<1>13. CASE Register(c)
  <2>1. CASE mgr = req[c].mgr
    BY <1>7, <1>13, <2>1 DEF Register, Finish
  <2>2. CASE mgr # req[c].mgr
    BY <1>1, <1>13, <2>2, GoesOn DEF Register, At, Sound, Places, WithManager, WithHandle
  <2> QED
    BY <2>1, <2>2
<1>14. CASE StartConsume(c)
  BY <1>1, <1>14, GoesOn DEF StartConsume, At, Sound, Places, WithManager, WithHandle
<1>15. CASE StartRefused(c) \/ OperationReturns(c) \/ Abandon(c) \/ CancelCall(c) \/ ConsumeRefused(c) \/ Consumed(c)
  BY <1>7, <1>15 DEF StartRefused, OperationReturns, Abandon, CancelCall, ConsumeRefused, Consumed, Finish
<1> QED
  BY <1>3, <1>4, <1>5, <1>6, <1>8, <1>9, <1>10, <1>11, <1>12, <1>13, <1>14, <1>15 DEF CallStep

(* What everything else does to the service.                                 *)
ViewStep == (\E t \in Tokens : OpenView(t)) \/ EndView \/ EndStep \/ Unlock
VaultStep == OtherWrite \/ Renew \/ StartLock \/ LockStep \/ SweepStep
ManagerStepOnly == (\E m \in Managers : Reap(m)) \/ \E h \in Handles : Expire(h)

LEMMA ViewsKeepService ==
  ASSUME SignInInv, ViewStep
  PROVE  ServiceInv' /\ RequestsInv'
<1> USE DEF SignInInv, ServiceInv
<1>1. req' = req
  BY DEF ViewStep, OpenView, EndView, EndStep, EndDone, EndCancel, Unlock
<1>2. RequestsInv'
  BY <1>1 DEF RequestsInv
<1>3. CASE \E t \in Tokens : OpenView(t)
  <2>1. PICK t \in Tokens : OpenView(t)
    BY <1>3
  <2>2. view' \in View /\ ops' \in [Handles -> Bindings \cup {None}]
    BY <2>1 DEF OpenView, View
  <2>3. \A h \in Handles : ops[h] = None => ops'[h] = None
    BY <2>1 DEF OpenView
  <2> QED
    BY <1>2, <2>1, <2>2, <2>3 DEF OpenView
<1>4. CASE EndView
  <2> DEFINE b == [gen |-> view.lease, token |-> view.token]
  <2> DEFINE mine == {h \in Handles : ops[h] = b}
  <2>1. /\ ending' = [todo |-> mine, mgr |-> mgr, binding |-> b]
        /\ ops' = [h \in Handles |-> IF h \in mine THEN None ELSE ops[h]]
        /\ bound' = None /\ view \in View
        /\ UNCHANGED <<gen, locked, view, mgr, sweep, lock, carried>>
    BY <1>4 DEF EndView
  <2>2. b \in Bindings /\ b # None
    BY <2>1 DEF View, Bindings
  <2>3. ending' \in Ending /\ ops' \in [Handles -> Bindings \cup {None}]
    BY <2>1, <2>2 DEF Ending
  <2>4. \A h \in Handles : ops[h] = None => ops'[h] = None
    BY <2>1
  <2>5. ending'.todo # {} => ending'.mgr \in Managers
    BY <2>1, <2>2
  <2> QED
    BY <1>2, <2>1, <2>3, <2>4, <2>5
<1>5. CASE EndDone
  BY <1>2, <1>5 DEF EndDone
<1>6. CASE \E h \in Handles : EndCancel(h)
  <2>1. PICK h \in Handles : EndCancel(h)
    BY <1>6
  <2>2. ending \in Ending /\ ending' = [ending EXCEPT !.todo = @ \ {h}] /\ h \in ending.todo
    BY <2>1 DEF EndCancel, ViewFree
  <2>3. ending' \in Ending /\ ending'.mgr = ending.mgr
    BY <2>2 DEF Ending
  <2>4. ending.mgr \in Managers
    BY <2>1, <2>2 DEF EndCancel, ViewFree
  <2> QED
    BY <1>2, <2>1, <2>3, <2>4 DEF EndCancel
<1>7. CASE Unlock
  BY <1>2, <1>7 DEF Unlock
<1> QED
  BY <1>3, <1>4, <1>5, <1>6, <1>7 DEF ViewStep, EndStep

LEMMA VaultKeepsService ==
  ASSUME SignInInv, VaultStep
  PROVE  ServiceInv' /\ RequestsInv'
<1> USE DEF SignInInv, ServiceInv
<1>1. req' = req
  BY DEF VaultStep, OtherWrite, Renew, StartLock, LockStep, CloseManager, WaitForCalls, LockVault, RevokeViews,
         SweepStep, ReadGeneration, CarryLease, CarryOps, CarryManager, CarryGrant
<1>2. RequestsInv'
  BY <1>1 DEF RequestsInv
<1>3. CASE OtherWrite
  BY <1>2, <1>3 DEF OtherWrite
<1>4. CASE Renew
  BY <1>2, <1>4 DEF Renew
<1>5. CASE StartLock
  BY <1>2, <1>5 DEF StartLock
<1>6. CASE LockStep
  <2>1. CASE CloseManager
    <3>1. lock \in [pc : {"close", "wait"}, mgr : Managers] /\ lock' = [lock EXCEPT !.pc = "wait"]
      BY <2>1 DEF CloseManager
    <3>2. lock' \in [pc : {"close", "wait"}, mgr : Managers]
      BY <3>1
    <3> QED
      BY <1>2, <2>1, <3>2 DEF CloseManager
  <2>2. CASE WaitForCalls
    BY <1>2, <2>2 DEF WaitForCalls
  <2>3. CASE LockVault
    <3>1. lock \in [pc : {"idle", "vault", "views"}, mgr : {None}] /\ lock' = [lock EXCEPT !.pc = "views"]
      BY <2>3 DEF LockVault
    <3>2. lock' \in [pc : {"idle", "vault", "views"}, mgr : {None}]
      BY <3>1
    <3> QED
      BY <1>2, <2>3, <3>2 DEF LockVault
  <2>4. CASE RevokeViews
    BY <1>2, <2>4 DEF RevokeViews, NoLock
  <2> QED
    BY <1>6, <2>1, <2>2, <2>3, <2>4 DEF LockStep
<1>7. CASE ReadGeneration \/ CarryLease
  BY <1>2, <1>7 DEF ReadGeneration, CarryLease, View
<1>8. CASE CarryOps
  <2>1. ops' = [h \in Handles |-> IF ops[h] = None THEN None ELSE [ops[h] EXCEPT !.gen = sweep.gen]]
    BY <1>8 DEF CarryOps
  <2>2. \A h \in Handles : ops[h] # None => [ops[h] EXCEPT !.gen = sweep.gen] \in Bindings
    BY DEF Bindings
  <2>3. ops' \in [Handles -> Bindings \cup {None}] /\ \A h \in Handles : ops[h] = None => ops'[h] = None
    BY <2>1, <2>2
  <2>4. sweep' = [sweep EXCEPT !.pc = IF mgr = None THEN "cap" ELSE "manager", !.mgr = mgr]
    BY <1>8 DEF CarryOps
  <2>5. /\ sweep' \in [pc : {"idle", "read", "lease", "ops", "manager", "cap"}, gen : Gens, mgr : Managers \cup {None}]
        /\ sweep'.pc = "manager" => sweep'.mgr \in Managers
    BY <2>4
  <2>6. carried' \in SUBSET Handles
    BY <1>8 DEF CarryOps, InHand, FlowInv, FlowTypeOK
  <2> QED
    BY <1>2, <1>8, <2>3, <2>5, <2>6 DEF CarryOps
<1>9. CASE CarryManager
  BY <1>2, <1>9 DEF CarryManager, InHand, Overtaken, FlowInv, FlowTypeOK
<1>10. CASE CarryGrant
  BY <1>2, <1>10 DEF CarryGrant, NoSweep, View
<1> QED
  BY <1>3, <1>4, <1>5, <1>6, <1>7, <1>8, <1>9, <1>10 DEF VaultStep, SweepStep

LEMMA ManagersKeepService ==
  ASSUME SignInInv, ManagerStepOnly
  PROVE  ServiceInv' /\ RequestsInv'
<1>1. UNCHANGED <<service, req>>
  BY DEF ManagerStepOnly, Reap, Expire
<1> QED
  BY <1>1 DEF SignInInv, ServiceInv, RequestsInv, service

-----------------------------------------------------------------------------
(* The service takes no step of a manager that AuthFlow does not have.       *)
LEMMA CallsUseManagers ==
  ASSUME SignInInv, NEW c \in Calls,
         \/ CallStep(c)
         \/ \E s \in Slots : BeginCall(c, s)
         \/ \E h \in Handles, kind \in {"operate", "cancel"} : HandleCall(c, h, kind)
  PROVE  [FlowNext]_flowVars
<1> USE DEF SignInInv
<1>1. Sound(req[c])
  BY DEF RequestsInv
<1>2. ASSUME NEW m \in Managers, ManagerStep(m)
      PROVE  FlowNext
  BY <1>2 DEF FlowNext
<1>3. CASE (\E s \in Slots : BeginCall(c, s)) \/ \E h \in Handles, kind \in {"operate", "cancel"} : HandleCall(c, h, kind)
  BY <1>3 DEF BeginCall, HandleCall
<1>4. CASE FindManager(c)
  BY <1>2, <1>4 DEF FindManager, ManagerStep, FlowInv, FlowTypeOK
<1>5. CASE FindOperation(c) \/ AccountTaken(c) \/ Reauthorize(c) \/ Register(c)
  BY <1>5 DEF FindOperation, AccountTaken, Reauthorize, Register
<1>6. CASE StartBegin(c)
  <2>1. req[c].mgr \in Managers /\ req[c].slot \in Slots /\ req[c].binding \in Bindings
    BY <1>1, <1>6 DEF StartBegin, TakeAccount, At, Sound, WithManager
  <2>2. PICK h \in Handles : BeginStart(c, req[c].mgr, req[c].slot, req[c].binding, h)
    BY <1>6 DEF StartBegin
  <2> QED
    BY <1>2, <2>1, <2>2 DEF ManagerStep
<1>7. CASE StartOperation(c)
  <2>1. req[c].mgr \in Managers /\ req[c].handle \in Handles /\ req[c].binding \in Bindings
    BY <1>1, <1>7 DEF StartOperation, TakeAccount, At, Sound, WithManager
  <2> QED
    BY <1>2, <1>7, <2>1 DEF StartOperation, ManagerStep
<1>8. CASE StartRefused(c) \/ ConsumeRefused(c)
  <2>1. req[c].mgr \in Managers /\ PurgeExpired(req[c].mgr)
    BY <1>1, <1>8 DEF StartRefused, ConsumeRefused, At, Sound, WithManager
  <2> QED
    BY <1>2, <2>1 DEF ManagerStep
<1>9. CASE BeginAnswered(c) \/ PollAuthorized(c) \/ OperationReturns(c) \/ Consumed(c)
  BY <1>9 DEF BeginAnswered, PollAuthorized, OperationReturns, Consumed, FlowNext
<1>10. CASE Abandon(c) \/ CancelCall(c)
  <2>1. req[c].mgr \in Managers /\ req[c].handle \in Handles /\ req[c].binding \in Bindings
    BY <1>1, <1>10 DEF Abandon, CancelCall, At, Sound, WithManager, WithHandle
  <2>2. ManagerStep(req[c].mgr)
    BY <1>10, <2>1 DEF Abandon, CancelCall, CancelOwn, TryCancel, ManagerStep
  <2> QED
    BY <1>2, <2>1, <2>2
<1>11. CASE StartConsume(c)
  <2>1. req[c].mgr \in Managers /\ req[c].handle \in Handles /\ req[c].binding \in Bindings
    BY <1>1, <1>11 DEF StartConsume, At, Sound, WithManager, WithHandle
  <2> QED
    BY <1>2, <1>11, <2>1 DEF StartConsume, ManagerStep
<1> QED
  BY <1>3, <1>4, <1>5, <1>6, <1>7, <1>8, <1>9, <1>10, <1>11 DEF CallStep

LEMMA OthersUseManagers ==
  ASSUME SignInInv, ViewStep \/ VaultStep \/ ManagerStepOnly
  PROVE  [FlowNext]_flowVars
<1> USE DEF SignInInv, ServiceInv
<1>1. ASSUME NEW m \in Managers, ManagerStep(m)
      PROVE  FlowNext
  BY <1>1 DEF FlowNext
<1>2. CASE (\E t \in Tokens : OpenView(t)) \/ EndView \/ EndDone \/ Unlock \/ OtherWrite \/ Renew \/ StartLock
  BY <1>2 DEF OpenView, EndView, EndDone, Unlock, OtherWrite, Renew, StartLock
<1>3. CASE \E h \in Handles : EndCancel(h)
  <2>1. PICK h \in Handles : EndCancel(h)
    BY <1>3
  <2>2. ending.mgr \in Managers /\ ending.binding \in Bindings /\ TryCancel(ending.mgr, h, ending.binding)
    BY <2>1 DEF EndCancel, ViewFree, Ending
  <2>3. ManagerStep(ending.mgr)
    BY <2>2 DEF TryCancel, ManagerStep
  <2> QED
    BY <1>1, <2>2, <2>3
<1>4. CASE CloseManager
  <2>1. lock.mgr \in Managers /\ Close(lock.mgr)
    BY <1>4 DEF CloseManager
  <2> QED
    BY <1>1, <2>1 DEF ManagerStep
<1>5. CASE WaitForCalls \/ LockVault \/ RevokeViews \/ ReadGeneration \/ CarryLease \/ CarryOps \/ CarryGrant
  BY <1>5 DEF WaitForCalls, LockVault, RevokeViews, ReadGeneration, CarryLease, CarryOps, CarryGrant
<1>6. CASE CarryManager
  <2>1. sweep.mgr \in Managers /\ sweep.gen \in Gens /\ Rebind(sweep.mgr, sweep.gen)
    BY <1>6 DEF CarryManager
  <2> QED
    BY <1>1, <2>1 DEF ManagerStep
<1>7. CASE ManagerStepOnly
  BY <1>1, <1>7 DEF ManagerStepOnly, Reap, Expire, ManagerStep, FlowNext
<1> QED
  BY <1>2, <1>3, <1>4, <1>5, <1>6, <1>7 DEF ViewStep, VaultStep, EndStep, LockStep, SweepStep

LEMMA SignInStep == SignInInv /\ [Next]_vars => SignInInv' /\ [FlowNext]_flowVars
<1> SUFFICES ASSUME SignInInv, [Next]_vars
             PROVE  SignInInv' /\ [FlowNext]_flowVars
  OBVIOUS
<1>1. ASSUME [FlowNext]_flowVars, ServiceInv', RequestsInv'
      PROVE  SignInInv' /\ [FlowNext]_flowVars
  BY <1>1, FlowStep DEF SignInInv
<1>2. CASE \E c \in Calls :
             \/ CallStep(c)
             \/ \E s \in Slots : BeginCall(c, s)
             \/ \E h \in Handles, kind \in {"operate", "cancel"} : HandleCall(c, h, kind)
  BY <1>1, <1>2, CallsKeepService, CallsKeepRequests, CallsUseManagers
<1>3. CASE ViewStep \/ VaultStep \/ ManagerStepOnly
  BY <1>1, <1>3, ViewsKeepService, VaultKeepsService, ManagersKeepService, OthersUseManagers
<1>4. CASE UNCHANGED vars
  <2>1. UNCHANGED flowVars /\ UNCHANGED <<service, req>>
    BY <1>4 DEF vars
  <2>2. ServiceInv' /\ RequestsInv'
    BY <2>1 DEF SignInInv, ServiceInv, RequestsInv, service
  <2> QED
    BY <1>1, <2>1, <2>2
<1> QED
  BY <1>2, <1>3, <1>4 DEF Next, ViewStep, VaultStep, ManagerStepOnly

LEMMA SignInAlways == Spec => []SignInInv
<1>1. Init => SignInInv
  BY SignInInitial
<1>2. SignInInv /\ [Next]_vars => SignInInv'
  BY SignInStep
<1> QED
  BY <1>1, <1>2, PTL DEF Spec

(* Every variable of the sign-in service keeps its type.                     *)
THEOREM SignInTypeCorrect == Spec => []TypeOK
<1>1. SignInInv => TypeOK
  BY DEF SignInInv, FlowInv, ServiceInv, RequestsInv, Sound, TypeOK, Ending
<1> QED
  BY <1>1, SignInAlways, PTL

(* The service uses its managers only as AuthFlow allows: each of its steps, *)
(* and each step beside it, is one of a manager or none.                     *)
THEOREM SignInUsesManagers == Spec => FlowSpec
<1>1. Init => FlowInit
  BY DEF Init
<1>2. SignInInv /\ [Next]_vars => [FlowNext]_flowVars
  BY SignInStep
<1> QED
  BY <1>1, <1>2, SignInAlways, PTL DEF Spec, FlowSpec

(* In the whole system no request ID and no credential outlives its session, *)
(* but for the call that has borrowed it.                                    *)
THEOREM SignInSecretsAccounted == Spec => []SecretsAccounted
  BY SignInUsesManagers, SecretsAreAccounted

(* In the whole system no call is left with a wiped session.                 *)
THEOREM SignInBorrowedWhole == Spec => []BorrowedStaysWhole
  BY SignInUsesManagers, NoWipedSessionInUse

(* In the whole system no sign-in is refused because of one that is gone.    *)
THEOREM SignInSlotsAgree == Spec => []SlotsAgree
  BY SignInUsesManagers, SlotsAlwaysAgree

-----------------------------------------------------------------------------
(* A manager that nobody is closing any more has no call left: it takes no   *)
(* new one once it is closed, and LockNow does not let go of it before.      *)
ClosedIsIdle == \A m \in closed : lock.mgr # m => \A h \in Handles : entry[h].mgr = m => ~Borrowed(h)

LEMMA CallsCloseNothing ==
  ASSUME SignInInv, NEW c \in Calls,
         \/ CallStep(c)
         \/ \E s \in Slots : BeginCall(c, s)
         \/ \E h \in Handles, kind \in {"operate", "cancel"} : HandleCall(c, h, kind)
  PROVE  closed' \subseteq closed /\ lock' = lock
<1>1. CASE FindManager(c)
  BY <1>1 DEF FindManager, NewManager, flowVars
<1>2. CASE FindOperation(c) \/ AccountTaken(c) \/ Reauthorize(c) \/ Register(c)
  BY <1>2 DEF FindOperation, AccountTaken, Reauthorize, Register, service, flowVars
<1>3. CASE StartBegin(c) \/ StartOperation(c) \/ StartRefused(c)
  BY <1>3 DEF StartBegin, StartOperation, StartRefused, BeginStart, OperationStart, PurgeExpired, service
<1>4. CASE BeginAnswered(c) \/ PollAuthorized(c) \/ OperationReturns(c)
  BY <1>4 DEF BeginAnswered, PollAuthorized, OperationReturns, BeginEnd, Authorized, OperationEnd, Drop, service
<1>5. CASE Abandon(c) \/ CancelCall(c)
  BY <1>5 DEF Abandon, CancelCall, CancelOwn, TryCancel, Cancel, PurgeExpired
<1>6. CASE StartConsume(c) \/ ConsumeRefused(c) \/ Consumed(c)
  BY <1>6 DEF StartConsume, ConsumeRefused, Consumed, Consume, ConsumeEnd, PurgeExpired, service
<1>7. CASE (\E s \in Slots : BeginCall(c, s)) \/ \E h \in Handles, kind \in {"operate", "cancel"} : HandleCall(c, h, kind)
  BY <1>7 DEF BeginCall, HandleCall, service, flowVars
<1> QED
  BY <1>1, <1>2, <1>3, <1>4, <1>5, <1>6, <1>7 DEF CallStep

LEMMA LockLetsGo ==
  ASSUME SignInInv, [Next]_vars, NEW m \in closed', lock'.mgr # m
  PROVE  m \in closed /\ (lock.mgr # m \/ NoneInFlight(m))
<1> USE DEF SignInInv, ServiceInv, flowVars
<1>1. m \in Managers
  BY SignInStep DEF FlowInv, FlowTypeOK
<1>2. ASSUME closed' \subseteq closed, lock' = lock
      PROVE  m \in closed /\ (lock.mgr # m \/ NoneInFlight(m))
  BY <1>2
<1>3. CASE \E c \in Calls :
             \/ CallStep(c)
             \/ \E s \in Slots : BeginCall(c, s)
             \/ \E h \in Handles, kind \in {"operate", "cancel"} : HandleCall(c, h, kind)
  BY <1>2, <1>3, CallsCloseNothing
<1>4. CASE ViewStep
  BY <1>2, <1>4 DEF ViewStep, OpenView, EndView, EndStep, EndDone, EndCancel, Unlock, TryCancel, Cancel, PurgeExpired
<1>5. CASE StartLock
  BY <1>1, <1>5 DEF StartLock
<1>6. CASE CloseManager
  BY <1>6 DEF CloseManager, Close
<1>7. CASE WaitForCalls
  BY <1>7 DEF WaitForCalls
<1>8. CASE LockVault \/ RevokeViews
  BY <1>1, <1>8 DEF LockVault, RevokeViews, NoLock
<1>9. CASE OtherWrite \/ Renew \/ SweepStep
  BY <1>2, <1>9 DEF OtherWrite, Renew, SweepStep, ReadGeneration, CarryLease, CarryOps, CarryManager, CarryGrant, Rebind
<1>10. CASE ManagerStepOnly
  BY <1>2, <1>10 DEF ManagerStepOnly, Reap, Expire, PurgeExpired, Lapse, service
<1>11. CASE UNCHANGED vars
  BY <1>2, <1>11 DEF vars, service
<1> QED
  BY <1>3, <1>4, <1>5, <1>6, <1>7, <1>8, <1>9, <1>10, <1>11 DEF Next, ViewStep, LockStep, ManagerStepOnly

LEMMA ClosedIsIdleStep == SignInInv /\ ClosedIsIdle /\ [Next]_vars => ClosedIsIdle'
<1> SUFFICES ASSUME SignInInv, ClosedIsIdle, [Next]_vars,
                    NEW m \in closed', lock'.mgr # m, NEW h \in Handles, entry'[h].mgr = m, Borrowed(h)'
             PROVE  FALSE
  BY DEF ClosedIsIdle
<1>1. [FlowNext]_flowVars /\ FlowInv'
  BY SignInStep DEF SignInInv
<1>2. m \in closed /\ (lock.mgr # m \/ NoneInFlight(m))
  BY LockLetsGo
<1>3. entry'[h].busy /\ entry'[h].closed
  BY <1>1 DEF FlowInv, BusyIsLent, OpenIsListed, ListedIsOpen
<1>4. entry[h].busy /\ entry[h].mgr = m
  BY <1>1, <1>3, DetachedWasBusy DEF SignInInv
<1>5. Borrowed(h)
  BY <1>4 DEF SignInInv, FlowInv, BusyIsLent
<1> QED
  BY <1>2, <1>4, <1>5 DEF ClosedIsIdle, NoneInFlight

(* Once LockNow has closed a manager and waited for it, no call of that      *)
(* manager is in flight and none of its sessions holds a secret, ever        *)
(* (closeAuthenticationManager, Close).                                      *)
THEOREM ClosedStaysSilent == Spec => []ClosedIsSilent
<1>1. Init => ClosedIsIdle
  BY NothingTyped DEF Init, FlowInit, ClosedIsIdle, Borrowed
<1>2. SignInInv /\ ClosedIsIdle /\ [Next]_vars => ClosedIsIdle'
  BY ClosedIsIdleStep
<1>3. SignInInv /\ ClosedIsIdle => ClosedIsSilent
  <2> SUFFICES ASSUME SignInInv, ClosedIsIdle, NEW m \in closed, lock.mgr # m, NEW h \in Handles, entry[h].mgr = m
               PROVE  ~Secret(h) /\ ~Borrowed(h)
    BY DEF ClosedIsSilent
  <2>1. ~Borrowed(h)
    BY DEF ClosedIsIdle
  <2>2. ~\E k \in Managers \ closed : h \in sessions[k]
    BY DEF SignInInv, FlowInv, ListedIsOpen
  <2> QED
    BY <2>1, <2>2, SecretsFollow DEF SignInInv, SecretsAccounted
<1> QED
  BY <1>1, <1>2, <1>3, SignInAlways, PTL DEF Spec

-----------------------------------------------------------------------------
(* Who follows a session.                                                    *)

(* Where a call is, and what its goroutine does in the manager meanwhile.    *)
CallFits(c) ==
    /\ req[c].pc = "idle" => req[c] = NoReq
    /\ req[c].pc = "authorized" => req[c].op \in {"begin", "operate", "cancel"} /\ (req[c].op = "begin" => req[c].handle = None)
    /\ req[c].pc = "found" => req[c].op \in {"begin", "operate"} /\ (req[c].op = "begin" <=> req[c].handle = None)
    /\ req[c].pc \in {"remote", "answered", "checked", "abandon"} => req[c].op \in {"begin", "operate"}
    /\ req[c].pc = "consuming" => req[c].op = "operate"
    /\ req[c].pc = "cancel" => req[c].op = "cancel"
    /\ req[c].pc = "remote" => flight[c].op = req[c].op /\ flight[c].handle = req[c].handle
    /\ req[c].pc = "consuming" => flight[c].op = "consume" /\ flight[c].handle = req[c].handle
    /\ req[c].pc \notin {"remote", "consuming"} => flight[c] = NoFlight
Calling == \A c \in Calls : CallFits(c)

Open(h) == ~entry[h].closed
Live(h) == Open(h) /\ h \notin carried

(* Until the service follows a new sign-in only the call that began it knows *)
(* of it.  A call that was answered with credentials finds them in the       *)
(* session, and one that consumes them has taken it out of the manager.      *)
OwnSession(c, h) ==
    /\ ops[h] = None /\ h \notin Doomed
    /\ Open(h) => ~entry[h].tokens
    /\ \A d \in Calls : req[d].handle = h => d = c
BeginsAlone == \A c \in Calls, h \in Handles : req[c].op = "begin" /\ req[c].handle = h => OwnSession(c, h)
Answers == \A c \in Calls, h \in Handles :
    req[c].pc \in {"answered", "checked"} /\ req[c].op = "operate" /\ req[c].handle = h /\ Open(h) => entry[h].tokens
ConsumedIsGone == \A c \in Calls, h \in Handles : req[c].pc = "consuming" /\ req[c].handle = h => ~Open(h)

(* Whoever refers to an open session refers to the manager that lists it,    *)
OpsInPlace == \A h \in Handles : Open(h) /\ ops[h] # None => entry[h].mgr = mgr
DoomedInPlace == \A h \in Doomed : Open(h) => entry[h].mgr = ending.mgr
Has(c, h) == req[c].handle = h /\ req[c].pc \notin {"idle", "authorized"}
HandsInPlace == \A c \in Calls, h \in Handles : Has(c, h) /\ Open(h) => req[c].mgr = entry[h].mgr

(* and unless a renewal came between them, under the binding that the        *)
(* manager has for it, so that it can cancel it.                             *)
HandsMatch == \A c \in Calls, h \in Handles : Has(c, h) /\ Live(h) => req[c].binding = entry[h].binding
DoomedMatch == \A h \in Doomed : ops[h] = None /\ (Live(h) => entry[h].binding = ending.binding)

(* Between the two halves of a renewal the operations are ahead; nobody can  *)
(* look for one of them under its new binding before the manager has it too, *)
(* because the window's grant is carried last.                               *)
Split(h) == ops[h].gen # entry[h].binding.gen
AheadFits(h) ==
    /\ sweep.pc = "manager" /\ sweep.mgr = entry[h].mgr /\ ops[h].gen = sweep.gen
    /\ \A c \in Calls : req[c].handle = h => req[c].binding # ops[h]
    /\ view # None /\ view.token = ops[h].token => view.cap # sweep.gen
OpsMatch == \A h \in Handles : Live(h) /\ ops[h] # None =>
    ops[h].token = entry[h].binding.token /\ (Split(h) => AheadFits(h))

(* The generations: none is newer than the vault's, what is begun while a    *)
(* renewal is carried is no older than the renewal, and a grant that is not  *)
(* of the generation of its sign-ins is out of date.                         *)
Carrying == sweep.pc \in {"manager", "cap"}
Outdated == view.cap < gen /\ (sweep.pc \in {"lease", "ops"} => view.cap < sweep.gen)
Fresh(b) ==
    /\ b.gen <= gen
    /\ Carrying => b.gen >= sweep.gen
    /\ view # None /\ b.token = view.token /\ ~Carrying => b.gen = view.cap \/ Outdated
SweepAges ==
    /\ sweep.pc \in {"lease", "ops", "manager", "cap"} => sweep.gen <= gen
    /\ sweep.pc \in {"ops", "manager"} /\ view # None => view.lease >= sweep.gen
    /\ sweep.pc \in {"ops", "manager"} /\ ending # None => ending.binding.gen >= sweep.gen
    /\ view # None => view.lease <= gen
OpsFresh == \A h \in Handles : Live(h) /\ ops[h] # None => Fresh(ops[h])
HandsFresh == \A c \in Calls, h \in Handles :
    req[c].pc = "checked" /\ req[c].op = "begin" /\ req[c].handle = h /\ req[c].mgr = mgr /\ Live(h)
        => Fresh(req[c].binding)

(* A live session has somebody who goes on with it.                          *)
Wields(c, h) ==
    /\ req[c].handle = h
    /\ req[c].pc \in {"answered", "checked", "abandon"} \/ (req[c].pc = "remote" /\ req[c].op = "begin")
IsTended(h) ==
    \/ \E c \in Calls : Wields(c, h)
    \/ h \in Doomed
    \/ lock.pc = "close" /\ lock.mgr = entry[h].mgr
    \/ ops[h] # None /\ ~entry[h].tokens
Tended == \A h \in Handles : Live(h) => IsTended(h)

PlacesInv == OpsInPlace /\ DoomedInPlace /\ HandsInPlace
MatchInv == HandsMatch /\ DoomedMatch /\ OpsMatch
AgesInv == SweepAges /\ OpsFresh /\ HandsFresh
SessionsInv == BeginsAlone /\ Answers /\ ConsumedIsGone /\ PlacesInv /\ MatchInv /\ AgesInv
FollowInv == Calling /\ SessionsInv /\ Tended

-----------------------------------------------------------------------------
(* What the steps of a manager leave of a session that stays open.           *)
Kept(h) ==
    /\ Open(h) /\ entry'[h].mgr = entry[h].mgr
    /\ entry'[h].binding = entry[h].binding /\ entry'[h].tokens = entry[h].tokens
Keeps == \A h \in Handles : Open(h)' => Kept(h)

LEMMA ClosingKeeps ==
  ASSUME FlowInv, NEW gone \in SUBSET Handles, \A h \in gone : ~entry[h].closed, entry' = Closed(gone)
  PROVE  Keeps /\ \A h \in gone : ~Open(h)'
<1>1. \A h \in Handles : entry'[h] = IF h \in gone THEN Shut(h) ELSE entry[h]
  BY DEF Closed
<1>2. \A h \in gone : entry'[h].closed
  BY <1>1, Shutting DEF NoEntry
<1> QED
  BY <1>1, <1>2 DEF Keeps, Kept, Open

LEMMA ManagersKeep ==
  ASSUME FlowInv, NEW m \in Managers,
         PurgeExpired(m) \/ Close(m) \/ NewManager(m) \/ \E h \in Handles, b \in Bindings : Cancel(m, h, b)
  PROVE  Keeps /\ flight' = flight
<1>1. Lapsed(m) \in SUBSET Handles /\ \A h \in Lapsed(m) : ~entry[h].closed
  BY LapsedAreOpen
<1>2. CASE PurgeExpired(m)
  BY <1>1, <1>2, ClosingKeeps DEF PurgeExpired
<1>3. CASE Close(m)
  <2>1. sessions[m] \in SUBSET Handles /\ \A h \in sessions[m] : ~entry[h].closed
    BY DEF FlowInv, FlowTypeOK, ListedIsOpen
  <2> QED
    BY <1>3, <2>1, ClosingKeeps DEF Close
<1>4. CASE \E h \in Handles, b \in Bindings : Cancel(m, h, b)
  <2>1. PICK h \in Handles, b \in Bindings : Cancel(m, h, b)
    BY <1>4
  <2>2. ~entry[h].closed
    BY <2>1 DEF Cancel, Matches, FlowInv, ListedIsOpen
  <2> QED
    BY <1>1, <2>1, <2>2, ClosingKeeps DEF Cancel
<1>5. CASE NewManager(m)
  BY <1>5 DEF NewManager, Keeps, Kept, Open
<1> QED
  BY <1>2, <1>3, <1>4, <1>5

(* A manager closes what it lists; nothing of it is open then.               *)
LEMMA CloseShuts ==
  ASSUME FlowInv, NEW m \in Managers, Close(m), NEW h \in Handles, Open(h)'
  PROVE  entry[h].mgr # m
<1>1. sessions[m] \in SUBSET Handles /\ \A x \in sessions[m] : ~entry[x].closed
  BY DEF FlowInv, FlowTypeOK, ListedIsOpen
<1>2. h \notin sessions[m] /\ Open(h)
  BY <1>1, ClosingKeeps DEF Close, Keeps, Kept
<1> QED
  BY <1>2 DEF Open, FlowInv, OpenIsListed

(* Cancelling works for whoever knows the manager and the binding.           *)
LEMMA CancelShuts ==
  ASSUME FlowInv, NEW m \in Managers, NEW h \in Handles, NEW b \in Bindings, TryCancel(m, h, b)
  PROVE  Keeps /\ flight' = flight /\ (Open(h)' => entry[h].mgr # m \/ entry[h].binding # b)
<1>1. Lapsed(m) \in SUBSET Handles /\ \A x \in Lapsed(m) : ~entry[x].closed
  BY LapsedAreOpen
<1>2. Keeps /\ flight' = flight
  BY ManagersKeep DEF TryCancel
<1>3. CASE Cancel(m, h, b)
  <2>1. ~entry[h].closed
    BY <1>3 DEF Cancel, Matches, FlowInv, ListedIsOpen
  <2>2. ~Open(h)'
    BY <1>1, <1>3, <2>1, ClosingKeeps DEF Cancel
  <2> QED
    BY <1>2, <2>2
<1>4. CASE ~Matches(m, h, b) /\ PurgeExpired(m)
  <2>1. Open(h)' => Open(h) /\ h \notin Lapsed(m)
    BY <1>1, <1>4, <1>2, ClosingKeeps DEF PurgeExpired, Keeps, Kept
  <2>2. Open(h) => h \in sessions[entry[h].mgr]
    BY DEF Open, FlowInv, OpenIsListed
  <2> QED
    BY <1>2, <1>4, <2>1, <2>2 DEF Matches
<1> QED
  BY <1>3, <1>4 DEF TryCancel

LEMMA ConsumeShuts ==
  ASSUME FlowInv, NEW c \in Calls, NEW m \in Managers, NEW h \in Handles, NEW b \in Bindings, Consume(c, m, h, b)
  PROVE  Keeps /\ ~Open(h)' /\ flight' = [flight EXCEPT ![c] = [op |-> "consume", handle |-> h]]
<1>1. Lapsed(m) \in SUBSET Handles /\ \A x \in Lapsed(m) : ~entry[x].closed
  BY LapsedAreOpen
<1>2. ~entry[h].closed
  BY DEF Consume, Matches, FlowInv, ListedIsOpen
<1> QED
  BY <1>1, <1>2, ClosingKeeps DEF Consume

(* An operation starts on a session that it leaves open, without credentials *)
LEMMA OperationKeeps ==
  ASSUME FlowInv, NEW c \in Calls, NEW m \in Managers, NEW h \in Handles, NEW b \in Bindings, OperationStart(c, m, h, b)
  PROVE  Keeps /\ flight' = [flight EXCEPT ![c] = [op |-> "operate", handle |-> h]]
<1>1. Lapsed(m) \in SUBSET Handles /\ \A x \in Lapsed(m) : ~entry[x].closed
  BY LapsedAreOpen
<1>2. \A x \in Handles : Closed(Lapsed(m))[x] = IF x \in Lapsed(m) THEN Shut(x) ELSE entry[x]
  BY DEF Closed
<1>3. entry[h] \in Entry /\ h \notin Lapsed(m)
  BY DEF OperationStart, FlowInv, FlowTypeOK
<1>4. entry'[h] = [entry[h] EXCEPT !.busy = TRUE]
  BY <1>2, <1>3 DEF OperationStart, Closed
<1>5. \A x \in Handles : x # h => entry'[x] = IF x \in Lapsed(m) THEN Shut(x) ELSE entry[x]
  BY <1>2 DEF OperationStart, Closed
<1>6. \A x \in Lapsed(m) : Shut(x).closed
  BY <1>1, Shutting DEF NoEntry
<1>7. ~entry[h].closed
  BY <1>3 DEF OperationStart, FlowInv, ListedIsOpen
<1>8. \A x \in Handles : Open(x)' => Kept(x)
  <2> SUFFICES ASSUME NEW x \in Handles, Open(x)'
               PROVE  Kept(x)
    OBVIOUS
  <2>1. CASE x = h
    BY <1>3, <1>4, <1>7, <2>1 DEF Kept, Open, Entry
  <2>2. CASE x # h
    BY <1>5, <1>6, <2>2 DEF Kept, Open
  <2> QED
    BY <2>1, <2>2
<1> QED
  BY <1>8 DEF Keeps, OperationStart

LEMMA BeginKeeps ==
  ASSUME FlowInv, NEW c \in Calls, NEW m \in Managers, NEW s \in Slots, NEW h \in Handles, NEW b \in Bindings,
         BeginStart(c, m, s, b, h)
  PROVE  /\ \A x \in Handles \ {h} : Open(x)' => Kept(x)
         /\ Open(h)' /\ entry'[h].mgr = m /\ entry'[h].binding = b /\ ~entry'[h].tokens
         /\ flight' = [flight EXCEPT ![c] = [op |-> "begin", handle |-> h]]
<1>1. Lapsed(m) \in SUBSET Handles /\ \A x \in Lapsed(m) : ~entry[x].closed
  BY LapsedAreOpen
<1>2. \A x \in Handles : Closed(Lapsed(m))[x] = IF x \in Lapsed(m) THEN Shut(x) ELSE entry[x]
  BY DEF Closed
<1>3. \A x \in Handles : x # h => entry'[x] = IF x \in Lapsed(m) THEN Shut(x) ELSE entry[x]
  BY <1>2 DEF BeginStart, Closed
<1>4. \A x \in Lapsed(m) : Shut(x).closed
  BY <1>1, Shutting DEF NoEntry
<1>5. entry'[h] = [NoEntry EXCEPT !.mgr = m, !.slot = s, !.binding = b, !.busy = TRUE, !.closed = FALSE]
  BY DEF BeginStart, Closed
<1>6. Open(h)' /\ entry'[h].mgr = m /\ entry'[h].binding = b /\ ~entry'[h].tokens
  BY <1>5 DEF Open, NoEntry
<1>7. \A x \in Handles \ {h} : Open(x)' => Kept(x)
  BY <1>3, <1>4 DEF Kept, Open
<1> QED
  BY <1>6, <1>7 DEF BeginStart

(* A call that comes back leaves its session as it was or wipes it; only the *)
(* answer that authorizes it changes what the session holds.                 *)
LEMMA ReturnsKeep ==
  ASSUME FlowInv, NEW c \in Calls, Drop(c) \/ BeginEnd(c) \/ OperationEnd(c)
  PROVE  Keeps /\ flight' = [flight EXCEPT ![c] = NoFlight]
<1>1. flight[c].op \in {"begin", "operate"} /\ flight[c].handle \in Handles /\ entry[flight[c].handle] \in Entry
  BY NothingTyped DEF Drop, BeginEnd, OperationEnd, Return, FlowInv, FlowTypeOK, Flight
<1>2. CASE Drop(c)
  <2>1. \A h \in Handles : entry'[h] = IF h = flight[c].handle THEN NoEntry ELSE entry[h]
    BY <1>1, <1>2 DEF Drop, FlowInv, FlowTypeOK
  <2>2. NoEntry.closed
    BY DEF NoEntry
  <2> QED
    BY <1>2, <2>1, <2>2 DEF Drop, Return, Keeps, Kept, Open
<1>3. CASE BeginEnd(c)
  <2> DEFINE e == [[entry[flight[c].handle] EXCEPT !.request = TRUE] EXCEPT !.busy = FALSE]
  <2>1. \A h \in Handles : entry'[h] = IF h = flight[c].handle THEN e ELSE entry[h]
    BY <1>1, <1>3 DEF BeginEnd, Keep, FlowInv, FlowTypeOK
  <2>2. LET d == entry[flight[c].handle] IN e.closed = d.closed /\ e.mgr = d.mgr /\ e.binding = d.binding /\ e.tokens = d.tokens
    BY <1>1 DEF Entry
  <2> HIDE DEF e
  <2> QED
    BY <1>3, <2>1, <2>2 DEF BeginEnd, Return, Keeps, Kept, Open
<1>4. CASE OperationEnd(c)
  <2> DEFINE e == [entry[flight[c].handle] EXCEPT !.busy = FALSE]
  <2>1. \A h \in Handles : entry'[h] = IF h = flight[c].handle THEN e ELSE entry[h]
    BY <1>1, <1>4 DEF OperationEnd, Keep, FlowInv, FlowTypeOK
  <2>2. LET d == entry[flight[c].handle] IN e.closed = d.closed /\ e.mgr = d.mgr /\ e.binding = d.binding /\ e.tokens = d.tokens
    BY <1>1 DEF Entry
  <2> HIDE DEF e
  <2> QED
    BY <1>4, <2>1, <2>2 DEF OperationEnd, Return, Keeps, Kept, Open
<1> QED
  BY <1>2, <1>3, <1>4

LEMMA AuthorizedKeeps ==
  ASSUME FlowInv, NEW c \in Calls, Authorized(c)
  PROVE  /\ flight[c].op = "operate" /\ flight[c].handle \in Handles
         /\ flight' = [flight EXCEPT ![c] = NoFlight]
         /\ entry'[flight[c].handle].tokens
         /\ \A h \in Handles : Open(h)' => /\ Open(h) /\ entry'[h].mgr = entry[h].mgr /\ entry'[h].binding = entry[h].binding
                                           /\ h # flight[c].handle => entry'[h].tokens = entry[h].tokens
<1>1. flight[c].op = "operate" /\ flight[c].handle \in Handles /\ entry[flight[c].handle] \in Entry
  BY NothingTyped DEF Authorized, Return, FlowInv, FlowTypeOK, Flight
<1> DEFINE e == [[entry[flight[c].handle] EXCEPT !.request = FALSE, !.tokens = TRUE] EXCEPT !.busy = FALSE]
<1>2. \A h \in Handles : entry'[h] = IF h = flight[c].handle THEN e ELSE entry[h]
  BY <1>1 DEF Authorized, Keep, FlowInv, FlowTypeOK
<1>3. LET d == entry[flight[c].handle] IN e.closed = d.closed /\ e.mgr = d.mgr /\ e.binding = d.binding /\ e.tokens
  BY <1>1 DEF Entry
<1> HIDE DEF e
<1> QED
  BY <1>1, <1>2, <1>3 DEF Authorized, Return, Open

LEMMA LapseKeeps ==
  ASSUME FlowInv, NEW h \in Handles, Lapse(h)
  PROVE  Keeps /\ flight' = flight
<1>1. entry[h] \in Entry
  BY DEF FlowInv, FlowTypeOK
<1>2. entry'[h] = [entry[h] EXCEPT !.lapsed = TRUE] /\ \A x \in Handles : x # h => entry'[x] = entry[x]
  BY DEF Lapse, FlowInv, FlowTypeOK
<1> QED
  BY <1>1, <1>2 DEF Lapse, Keeps, Kept, Open, Entry

(* Carrying a renewal into a manager changes the generation of its sessions. *)
LEMMA RebindKeeps ==
  ASSUME FlowInv, NEW m \in Managers, NEW g \in Gens, Rebind(m, g)
  PROVE  /\ flight' = flight
         /\ \A h \in Handles : Open(h)' =>
               /\ Open(h) /\ entry'[h].mgr = entry[h].mgr /\ entry'[h].tokens = entry[h].tokens
               /\ entry'[h].binding \in Bindings /\ entry'[h].binding.token = entry[h].binding.token
               /\ IF entry[h].mgr = m THEN entry'[h].binding.gen = g ELSE entry'[h].binding = entry[h].binding
<1>1. \A h \in Handles : entry'[h] = IF h \in sessions[m] THEN [entry[h] EXCEPT !.binding.gen = g] ELSE entry[h]
  BY DEF Rebind
<1> SUFFICES ASSUME NEW h \in Handles, Open(h)'
             PROVE  /\ Open(h) /\ entry'[h].mgr = entry[h].mgr /\ entry'[h].tokens = entry[h].tokens
                    /\ entry'[h].binding \in Bindings /\ entry'[h].binding.token = entry[h].binding.token
                    /\ IF entry[h].mgr = m THEN entry'[h].binding.gen = g ELSE entry'[h].binding = entry[h].binding
  BY DEF Rebind
<1>2. CASE h \in sessions[m]
  <2>1. entry[h] \in Entry /\ ~entry[h].closed /\ entry[h].mgr = m /\ entry[h].binding \in Bindings
    BY <1>2 DEF FlowInv, FlowTypeOK, ListedIsOpen, Bound
  <2>2. entry'[h] = [entry[h] EXCEPT !.binding = [entry[h].binding EXCEPT !.gen = g]]
    BY <1>1, <1>2, <2>1 DEF Entry
  <2>3. LET b == [entry[h].binding EXCEPT !.gen = g] IN b \in Bindings /\ b.gen = g /\ b.token = entry[h].binding.token
    BY <2>1 DEF Bindings
  <2> QED
    BY <2>1, <2>2, <2>3 DEF Open, Entry
<1>3. CASE h \notin sessions[m]
  <2>1. entry'[h] = entry[h] /\ ~entry[h].closed
    BY <1>1, <1>3 DEF Open
  <2> QED
    BY <1>3, <2>1 DEF Open, FlowInv, OpenIsListed, Bound
<1> QED
  BY <1>2, <1>3

-----------------------------------------------------------------------------
(* The types that the steps below need.                                      *)
LEMMA ServiceTyped ==
  ASSUME SignInInv
  PROVE  /\ gen \in Nat /\ sweep.gen \in Nat /\ sweep.gen \in Gens
         /\ None \notin Handles /\ NoReq.handle = None /\ NoReq.pc = "idle" /\ NoReq.op = None
         /\ \A c \in Calls : /\ req[c].handle \in Handles \cup {None} /\ req[c].binding \in Bindings \cup {None}
                             /\ req[c].pc \in Places /\ req[c].mgr \in Managers \cup {None}
                             /\ req[c].pc \in WithManager => req[c].mgr \in Managers
                             /\ req[c].pc \in WithHandle => req[c].handle \in Handles
                             /\ req[c].pc # "idle" => req[c].binding \in Bindings
         /\ \A h \in Handles : /\ ops[h] \in Bindings \cup {None}
                               /\ Open(h) => entry[h].binding \in Bindings /\ entry[h].mgr \in Managers
         /\ view # None => view.cap \in Nat /\ view.lease \in Nat /\ view.token \in Tokens
         /\ Doomed \subseteq Handles
         /\ ending # None => ending.binding \in Bindings /\ ending.todo = Doomed
<1>1. /\ gen \in Nat /\ sweep.gen \in Nat /\ sweep.gen \in Gens
  BY DEF SignInInv, ServiceInv
<1>2. None \notin Handles /\ NoReq.handle = None /\ NoReq.pc = "idle" /\ NoReq.op = None
  BY DEF NoReq
<1>3. \A c \in Calls : /\ req[c].handle \in Handles \cup {None} /\ req[c].binding \in Bindings \cup {None}
                       /\ req[c].pc \in Places /\ req[c].mgr \in Managers \cup {None}
                       /\ req[c].pc \in WithManager => req[c].mgr \in Managers
                       /\ req[c].pc \in WithHandle => req[c].handle \in Handles
                       /\ req[c].pc # "idle" => req[c].binding \in Bindings
  BY DEF SignInInv, RequestsInv, Sound, Request
<1>4. \A h \in Handles : /\ ops[h] \in Bindings \cup {None}
                         /\ Open(h) => entry[h].binding \in Bindings /\ entry[h].mgr \in Managers
  BY DEF SignInInv, ServiceInv, FlowInv, Bound, OpenIsListed, Open
<1>5. view # None => view.cap \in Nat /\ view.lease \in Nat /\ view.token \in Tokens
  BY DEF SignInInv, ServiceInv, View
<1>6. /\ Doomed \subseteq Handles
      /\ ending # None => ending.binding \in Bindings /\ ending.todo = Doomed
  BY DEF SignInInv, ServiceInv, Ending, Doomed, ViewFree
<1> QED
  BY <1>1, <1>2, <1>3, <1>4, <1>5, <1>6

LEMMA SameBindings ==
  ASSUME NEW b \in Bindings, NEW d \in Bindings, b.gen = d.gen, b.token = d.token
  PROVE  b = d
  BY DEF Bindings

(* Sessions closed, calls returned, operations forgotten, a window gone, a   *)
(* newer generation: less of everything asks for less.                       *)
LEMMA Lessening ==
  ASSUME SignInInv, SessionsInv, SignInInv', Keeps,
         \A d \in Calls : req'[d] = req[d] \/ req'[d] = NoReq,
         \A h \in Handles : ops'[h] = ops[h] \/ ops'[h] = None,
         \/ ending' = None
         \/ /\ ending # None /\ ending' # None /\ ending'.binding = ending.binding /\ ending'.mgr = ending.mgr
            /\ ending'.todo \subseteq ending.todo,
         view' = view \/ view' = None,
         mgr' = mgr \/ (mgr' = None /\ \A h \in Handles : ops'[h] = None),
         sweep' = sweep, gen' >= gen, carried \subseteq carried'
  PROVE  SessionsInv'
<1> USE ServiceTyped DEF SessionsInv, PlacesInv, MatchInv, AgesInv
<1>1. \A h \in Handles : (Open(h)' => Kept(h)) /\ (Live(h)' => Live(h) /\ Kept(h))
  BY DEF Keeps, Live, Kept
<1>2. Doomed' \subseteq Doomed
  BY DEF Doomed, ViewFree
<1>3. \A d \in Calls, h \in Handles : req'[d].handle = h => req'[d] = req[d]
  OBVIOUS
<1>4. BeginsAlone'
  <2> SUFFICES ASSUME NEW c \in Calls, NEW h \in Handles, req'[c].op = "begin", req'[c].handle = h
               PROVE  OwnSession(c, h)'
    BY DEF BeginsAlone
  <2>1. OwnSession(c, h)
    BY <1>3 DEF BeginsAlone
  <2> QED
    BY <1>1, <1>2, <1>3, <2>1 DEF OwnSession, Kept
<1>5. Answers' /\ ConsumedIsGone'
  BY <1>1, <1>3 DEF Answers, ConsumedIsGone, Kept
<1>6. OpsInPlace'
  BY <1>1 DEF OpsInPlace, Kept
<1>7. DoomedInPlace'
  <2> SUFFICES ASSUME NEW h \in Doomed', Open(h)'
               PROVE  entry'[h].mgr = ending'.mgr
    BY DEF DoomedInPlace
  <2>1. ending' # None /\ ending'.mgr = ending.mgr /\ h \in Doomed
    BY <1>2 DEF Doomed, ViewFree
  <2> QED
    BY <1>1, <2>1 DEF DoomedInPlace, Kept
<1>8. HandsInPlace' /\ HandsMatch'
  BY <1>1, <1>3 DEF HandsInPlace, HandsMatch, Has, Kept
<1>9. DoomedMatch'
  <2> SUFFICES ASSUME NEW h \in Doomed'
               PROVE  ops'[h] = None /\ (Live(h)' => entry'[h].binding = ending'.binding)
    BY DEF DoomedMatch
  <2>1. ending' # None /\ ending'.binding = ending.binding /\ h \in Doomed
    BY <1>2 DEF Doomed, ViewFree
  <2> QED
    BY <1>1, <2>1 DEF DoomedMatch, Kept
<1>10. OpsMatch'
  <2> SUFFICES ASSUME NEW h \in Handles, Live(h)', ops'[h] # None
               PROVE  ops'[h].token = entry'[h].binding.token /\ (Split(h)' => AheadFits(h)')
    BY DEF OpsMatch
  <2>1. Live(h) /\ Kept(h) /\ ops'[h] = ops[h]
    BY <1>1
  <2>2. Split(h)' <=> Split(h)
    BY <2>1 DEF Split, Kept
  <2>3. AheadFits(h) => AheadFits(h)'
    BY <1>3, <2>1 DEF AheadFits, Kept
  <2> QED
    BY <2>1, <2>2, <2>3 DEF OpsMatch, Kept
<1>11. gen' \in Nat /\ gen \in Nat /\ sweep.gen \in Nat
  BY DEF SignInInv, ServiceInv
<1>15. SweepAges'
  <2>1. ending' # None => ending # None /\ ending'.binding = ending.binding
    OBVIOUS
  <2>2. view' # None => view # None /\ view' = view /\ view.lease \in Nat
    OBVIOUS
  <2> QED
    BY <1>11, <2>1, <2>2 DEF SweepAges
<1>12. ASSUME NEW b \in Bindings, Fresh(b)
       PROVE  Fresh(b)'
  <2>1. b.gen \in Nat
    BY DEF Bindings
  <2>2. view' # None => view # None /\ view' = view /\ view.cap \in Nat
    OBVIOUS
  <2>3. view' # None => (Outdated => Outdated')
    BY <1>11, <2>2 DEF Outdated
  <2>4. Carrying' <=> Carrying
    BY DEF Carrying
  <2> QED
    BY <1>11, <1>12, <2>1, <2>2, <2>3, <2>4 DEF Fresh
<1>13. OpsFresh'
  BY <1>1, <1>12 DEF OpsFresh
<1>14. HandsFresh'
  <2> SUFFICES ASSUME NEW c \in Calls, NEW h \in Handles, req'[c].pc = "checked", req'[c].op = "begin",
                      req'[c].handle = h, req'[c].mgr = mgr', Live(h)'
               PROVE  Fresh(req[c].binding)'
    BY DEF HandsFresh
  <2>1. req'[c] = req[c] /\ req[c].mgr \in Managers /\ req[c].binding \in Bindings /\ Live(h)
    BY <1>1, <1>3 DEF WithManager
  <2>2. mgr' = mgr
    BY <2>1
  <2> QED
    BY <1>12, <2>1, <2>2 DEF HandsFresh
<1> QED
  BY <1>4, <1>5, <1>6, <1>7, <1>8, <1>9, <1>10, <1>13, <1>14, <1>15

(* A call goes on with the session it has.                                   *)
LEMMA Moving ==
  ASSUME SignInInv, SessionsInv, NEW c \in Calls, NEW p \in Places,
         req' = [req EXCEPT ![c].pc = p],
         req[c].pc \notin {"idle", "authorized"}, p \notin {"idle", "authorized"},
         UNCHANGED <<gen, view, mgr, ops, sweep, ending, carried>>,
         \A h \in Handles : Open(h)' =>
            /\ Open(h) /\ entry'[h].mgr = entry[h].mgr /\ entry'[h].binding = entry[h].binding
            /\ \/ entry'[h].tokens = entry[h].tokens
               \/ entry'[h].tokens /\ req[c].handle = h /\ req[c].op = "operate",
         \A h \in Handles : req[c].handle = h /\ Open(h)' =>
            /\ p \in {"answered", "checked"} /\ req[c].op = "operate" => req[c].pc = "answered" \/ entry'[h].tokens
            /\ p # "consuming",
         p = "checked" /\ req[c].op = "begin" => Fresh(req[c].binding)
  PROVE  SessionsInv'
<1> USE ServiceTyped DEF SessionsInv, PlacesInv, MatchInv, AgesInv
<1>1. \A d \in Calls : /\ req'[d].handle = req[d].handle /\ req'[d].op = req[d].op /\ req'[d].mgr = req[d].mgr
                       /\ req'[d].binding = req[d].binding
                       /\ req'[d].pc = IF d = c THEN p ELSE req[d].pc
  BY DEF SignInInv, RequestsInv, Sound, Request
<1>2. \A h \in Handles : (Open(h)' => Open(h)) /\ (Live(h)' => Live(h))
  BY DEF Live
<1>3. Doomed' = Doomed
  BY DEF Doomed, ViewFree
<1>4. BeginsAlone'
  <2> SUFFICES ASSUME NEW d \in Calls, NEW h \in Handles, req'[d].op = "begin", req'[d].handle = h
               PROVE  OwnSession(d, h)'
    BY DEF BeginsAlone
  <2>1. OwnSession(d, h) /\ req[d].op = "begin" /\ req[d].handle = h
    BY <1>1 DEF BeginsAlone
  <2>2. req[c].handle = h => c = d
    BY <2>1 DEF OwnSession
  <2>3. Open(h)' => ~entry'[h].tokens
    BY <1>2, <2>1, <2>2 DEF OwnSession
  <2> QED
    BY <1>1, <1>3, <2>1, <2>3 DEF OwnSession
<1>5. Answers'
  <2> SUFFICES ASSUME NEW d \in Calls, NEW h \in Handles, req'[d].pc \in {"answered", "checked"}, req'[d].op = "operate",
                      req'[d].handle = h, Open(h)'
               PROVE  entry'[h].tokens
    BY DEF Answers
  <2>1. entry[h].tokens => entry'[h].tokens
    OBVIOUS
  <2>2. CASE d = c
    BY <1>1, <1>2, <2>1, <2>2 DEF Answers
  <2>3. CASE d # c
    BY <1>1, <1>2, <2>1, <2>3 DEF Answers
  <2> QED
    BY <2>2, <2>3
<1>6. ConsumedIsGone'
  <2> SUFFICES ASSUME NEW d \in Calls, NEW h \in Handles, req'[d].pc = "consuming", req'[d].handle = h, Open(h)'
               PROVE  FALSE
    BY DEF ConsumedIsGone
  <2>1. CASE d = c
    BY <1>1, <2>1
  <2>2. CASE d # c
    BY <1>1, <1>2, <2>2 DEF ConsumedIsGone
  <2> QED
    BY <2>1, <2>2
<1>7. OpsInPlace' /\ DoomedInPlace'
  BY <1>2, <1>3 DEF OpsInPlace, DoomedInPlace
<1>8. \A d \in Calls, h \in Handles : Has(d, h)' => Has(d, h)
  BY <1>1 DEF Has
<1>9. HandsInPlace' /\ HandsMatch'
  <2> SUFFICES ASSUME NEW d \in Calls, NEW h \in Handles, Has(d, h)', Open(h)'
               PROVE  /\ req'[d].mgr = entry'[h].mgr
                      /\ Live(h)' => req'[d].binding = entry'[h].binding
    BY DEF HandsInPlace, HandsMatch, Live
  <2>1. Has(d, h) /\ Open(h)
    BY <1>8
  <2>2. req[d].mgr = entry[h].mgr /\ (Live(h) => req[d].binding = entry[h].binding)
    BY <2>1 DEF HandsInPlace, HandsMatch
  <2> QED
    BY <1>1, <1>2, <2>2
<1>10. DoomedMatch'
  <2> SUFFICES ASSUME NEW h \in Doomed
               PROVE  ops'[h] = None /\ (Live(h)' => entry'[h].binding = ending'.binding)
    BY <1>3 DEF DoomedMatch
  <2>1. ops[h] = None /\ (Live(h) => entry[h].binding = ending.binding)
    BY DEF DoomedMatch
  <2> QED
    BY <1>2, <2>1 DEF Live
<1>11. OpsMatch'
  <2> SUFFICES ASSUME NEW h \in Handles, Live(h)', ops'[h] # None
               PROVE  ops'[h].token = entry'[h].binding.token /\ (Split(h)' => AheadFits(h)')
    BY DEF OpsMatch
  <2>1. Live(h) /\ ops'[h] = ops[h] /\ entry'[h].binding = entry[h].binding /\ entry'[h].mgr = entry[h].mgr
    BY <1>2 DEF Live
  <2>2. Split(h)' => Split(h)
    BY <2>1 DEF Split
  <2>3. AheadFits(h) => AheadFits(h)'
    BY <1>1, <2>1 DEF AheadFits
  <2> QED
    BY <2>1, <2>2, <2>3 DEF OpsMatch
<1>12. SweepAges'
  BY DEF SweepAges
<1>13. \A b \in Bindings : Fresh(b)' <=> Fresh(b)
  BY DEF Fresh, Outdated, Carrying
<1>14. OpsFresh'
  BY <1>2, <1>13 DEF OpsFresh
<1>15. HandsFresh'
  <2> SUFFICES ASSUME NEW d \in Calls, NEW h \in Handles, req'[d].pc = "checked", req'[d].op = "begin",
                      req'[d].handle = h, req'[d].mgr = mgr', Live(h)'
               PROVE  Fresh(req[d].binding)'
    BY <1>1 DEF HandsFresh
  <2>1. req[d].binding \in Bindings
    BY <1>1
  <2>2. Fresh(req[d].binding)
    BY <1>1, <1>2 DEF HandsFresh
  <2> QED
    BY <1>13, <2>1, <2>2
<1> QED
  BY <1>4, <1>5, <1>6, <1>7, <1>9, <1>10, <1>11, <1>12, <1>14, <1>15

(* The other calls stay where they are.                                      *)
LEMMA CallingStays ==
  ASSUME Calling, NEW c \in Calls, CallFits(c)', \A d \in Calls : d # c => req'[d] = req[d] /\ flight'[d] = flight[d]
  PROVE  Calling'
  BY DEF Calling, CallFits

LEMMA NoReqFits ==
  ASSUME NEW c \in Calls, req'[c] = NoReq, flight'[c] = NoFlight
  PROVE  CallFits(c)'
<1>1. NoReq.pc = "idle"
  BY DEF NoReq
<1> QED
  BY <1>1 DEF CallFits

(* A session stays tended if the call that took this step did not wield it.  *)
LEMMA TendedStays ==
  ASSUME SignInInv, Tended, NEW c \in Calls, \A d \in Calls : d # c => req'[d] = req[d], NEW h \in Handles,
         Live(h)' => Live(h) /\ entry'[h].mgr = entry[h].mgr,
         Live(h)' => \/ Wields(c, h)'
                     \/ /\ ~Wields(c, h)
                        /\ ops[h] # None => ops'[h] # None
                        /\ entry'[h].tokens = entry[h].tokens,
         Doomed' = Doomed, lock' = lock, Live(h)'
  PROVE  IsTended(h)'
<1>1. CASE Wields(c, h)'
  BY <1>1 DEF IsTended
<1>2. CASE ~Wields(c, h)'
  <2>1. IsTended(h) /\ ~Wields(c, h)
    BY <1>2 DEF Tended
  <2>2. \A d \in Calls : Wields(d, h) => Wields(d, h)'
    BY <2>1 DEF Wields
  <2> QED
    BY <1>2, <2>1, <2>2 DEF IsTended
<1> QED
  BY <1>1, <1>2

LEMMA CallReturns ==
  ASSUME SignInInv, FollowInv, SignInInv', NEW c \in Calls, Keeps,
         req' = [req EXCEPT ![c] = NoReq], flight' = [flight EXCEPT ![c] = NoFlight],
         \/ ops' = ops
         \/ \A h \in Handles : ops'[h] = IF h = req[c].handle THEN None ELSE ops[h],
         \A h \in Handles : Live(h)' /\ req[c].handle = h => ops' = ops /\ ~Wields(c, h),
         UNCHANGED <<view, mgr, sweep, ending, lock, carried>>, gen' >= gen
  PROVE  FollowInv'
<1> USE DEF FollowInv
<1>1. \A d \in Calls : /\ req'[d] = IF d = c THEN NoReq ELSE req[d]
                       /\ flight'[d] = IF d = c THEN NoFlight ELSE flight[d]
  BY DEF SignInInv, RequestsInv, FlowInv, FlowTypeOK
<1>2. Calling'
  BY <1>1, NoReqFits, CallingStays
<1>3. SessionsInv'
  BY <1>1, Lessening
<1>4. Tended'
  <2> SUFFICES ASSUME NEW h \in Handles, Live(h)'
               PROVE  IsTended(h)'
    BY DEF Tended
  <2>1. Live(h) /\ entry'[h].mgr = entry[h].mgr /\ entry'[h].tokens = entry[h].tokens
    BY DEF Live, Keeps, Kept
  <2>2. ~Wields(c, h) /\ ops'[h] = ops[h]
    BY DEF Wields
  <2>3. Doomed' = Doomed
    BY DEF Doomed, ViewFree
  <2> QED
    BY <1>1, <2>1, <2>2, <2>3, TendedStays
<1> QED
  BY <1>2, <1>3, <1>4

LEMMA AtRest ==
  ASSUME SignInInv, NEW c \in Calls
  PROVE  /\ flight[c] = NoFlight => flight = [flight EXCEPT ![c] = NoFlight]
         /\ entry' = entry => Keeps
  BY DEF SignInInv, FlowInv, FlowTypeOK, Keeps, Kept, Open

LEMMA PurgeShuts ==
  ASSUME FlowInv, NEW m \in Managers, PurgeExpired(m)
  PROVE  Keeps /\ flight' = flight /\ \A h \in Lapsed(m) : ~Open(h)'
<1>1. Lapsed(m) \in SUBSET Handles /\ \A x \in Lapsed(m) : ~entry[x].closed
  BY LapsedAreOpen
<1> QED
  BY <1>1, ManagersKeep, ClosingKeeps DEF PurgeExpired

(* A call returns: it was refused, it has what it came for, or it gives its  *)
(* session up.                                                               *)
LEMMA RefusedFollows ==
  ASSUME SignInInv, FollowInv, SignInInv', NEW c \in Calls,
         AccountTaken(c) \/ StartRefused(c) \/ (FindOperation(c) /\ req' = [req EXCEPT ![c] = NoReq])
  PROVE  FollowInv'
<1>1. req[c].pc \in {"authorized", "found"} /\ flight[c] = NoFlight
  BY DEF AccountTaken, StartRefused, FindOperation, At, FollowInv, Calling, CallFits
<1>2. Keeps /\ flight' = flight
  <2>1. CASE StartRefused(c)
    <3>1. req[c].mgr \in Managers
      BY <1>1, <2>1, ServiceTyped DEF StartRefused, At, WithManager
    <3> QED
      BY <2>1, <3>1, PurgeShuts DEF StartRefused, SignInInv
  <2>2. CASE AccountTaken(c) \/ FindOperation(c)
    BY <2>2, AtRest DEF AccountTaken, FindOperation, flowVars
  <2> QED
    BY <2>1, <2>2
<1>3. UNCHANGED service /\ req' = [req EXCEPT ![c] = NoReq]
  BY DEF AccountTaken, StartRefused, FindOperation
<1>4. gen' >= gen
  BY <1>3, ServiceTyped DEF service
<1>5. \A h \in Handles : ~Wields(c, h)
  BY <1>1 DEF Wields
<1> QED
  BY <1>1, <1>2, <1>3, <1>4, <1>5, AtRest, CallReturns DEF service

LEMMA OperationFollows ==
  ASSUME SignInInv, FollowInv, SignInInv', NEW c \in Calls, OperationReturns(c)
  PROVE  FollowInv'
<1>1. req[c].pc = "remote" /\ flight[c].op = req[c].op /\ flight[c].handle = req[c].handle
  BY DEF OperationReturns, At, FollowInv, Calling, CallFits
<1>2. Keeps /\ flight' = [flight EXCEPT ![c] = NoFlight]
  BY ReturnsKeep DEF OperationReturns, SignInInv
<1>3. UNCHANGED <<gen, view, mgr, ops, sweep, ending, lock, carried>> /\ req' = [req EXCEPT ![c] = NoReq]
  BY DEF OperationReturns, Finish
<1>4. gen' >= gen
  BY <1>3, ServiceTyped
<1>5. ASSUME NEW h \in Handles, Live(h)', req[c].handle = h
      PROVE  ~Wields(c, h)
  <2>1. CASE OperationEnd(c)
    BY <1>1, <2>1 DEF OperationEnd, Return, Wields
  <2>2. CASE Drop(c)
    <3>1. entry'[h] = NoEntry
      BY <1>1, <1>5, <2>2 DEF Drop, SignInInv, FlowInv, FlowTypeOK
    <3> QED
      BY <1>5, <3>1 DEF Live, Open, NoEntry
  <2> QED
    BY <2>1, <2>2 DEF OperationReturns
<1> QED
  BY <1>2, <1>3, <1>4, <1>5, CallReturns

LEMMA GivenUpFollows ==
  ASSUME SignInInv, FollowInv, SignInInv', NEW c \in Calls, Abandon(c) \/ CancelCall(c)
  PROVE  FollowInv'
<1>1. req[c].pc \in {"abandon", "cancel"} /\ flight[c] = NoFlight
  BY DEF Abandon, CancelCall, At, FollowInv, Calling, CallFits
<1>2. PICK m \in Managers, h \in Handles, b \in Bindings : req[c].mgr = m /\ req[c].handle = h /\ req[c].binding = b
  BY <1>1, ServiceTyped DEF WithManager, WithHandle
<1>3. Keeps /\ flight' = flight /\ (Open(h)' => entry[h].mgr # m \/ entry[h].binding # b)
  <2>1. TryCancel(m, h, b)
    BY <1>2 DEF Abandon, CancelCall, CancelOwn
  <2> QED
    BY <2>1, CancelShuts DEF SignInInv
<1>4. UNCHANGED <<gen, view, mgr, sweep, ending, lock, carried>> /\ req' = [req EXCEPT ![c] = NoReq]
  BY DEF Abandon, CancelCall, Finish
<1>5. gen' >= gen
  BY <1>4, ServiceTyped
<1>6. ~Live(h)'
  <2> SUFFICES ASSUME Live(h)'
               PROVE  FALSE
    OBVIOUS
  <2>1. Live(h) /\ Open(h)'
    BY <1>3, <1>4 DEF Live, Keeps, Kept
  <2>2. Has(c, h)
    BY <1>1, <1>2 DEF Has
  <2> QED
    BY <1>2, <1>3, <2>1, <2>2 DEF FollowInv, SessionsInv, PlacesInv, MatchInv, HandsInPlace, HandsMatch, Live
<1>7. ops' = ops \/ \A x \in Handles : ops'[x] = IF x = req[c].handle THEN None ELSE ops[x]
  BY DEF Abandon, CancelCall, SignInInv, ServiceInv
<1>8. flight' = [flight EXCEPT ![c] = NoFlight]
  BY <1>1, <1>3, AtRest
<1>9. \A x \in Handles : Live(x)' /\ req[c].handle = x => ops' = ops /\ ~Wields(c, x)
  BY <1>2, <1>6
<1> QED
  BY <1>3, <1>4, <1>5, <1>7, <1>8, <1>9, CallReturns

LEMMA UnconsumedFollows ==
  ASSUME SignInInv, FollowInv, SignInInv', NEW c \in Calls, ConsumeRefused(c)
  PROVE  FollowInv'
<1>1. req[c].pc = "checked" /\ req[c].op = "operate" /\ flight[c] = NoFlight
  BY DEF ConsumeRefused, At, FollowInv, Calling, CallFits
<1>2. PICK m \in Managers, h \in Handles : req[c].mgr = m /\ req[c].handle = h
  BY <1>1, ServiceTyped DEF WithManager, WithHandle
<1>3. Keeps /\ flight' = flight /\ \A x \in Lapsed(m) : ~Open(x)'
  BY <1>2, PurgeShuts DEF ConsumeRefused, SignInInv
<1>4. UNCHANGED <<gen, view, mgr, sweep, ending, lock, carried>> /\ req' = [req EXCEPT ![c] = NoReq]
  BY DEF ConsumeRefused, Finish
<1>5. gen' >= gen
  BY <1>4, ServiceTyped
<1>6. ~Live(h)'
  <2> SUFFICES ASSUME Live(h)'
               PROVE  FALSE
    OBVIOUS
  <2>1. Live(h) /\ h \notin Lapsed(m)
    BY <1>3, <1>4 DEF Live, Keeps, Kept
  <2>2. Has(c, h)
    BY <1>1, <1>2 DEF Has
  <2>3. m = entry[h].mgr /\ req[c].binding = entry[h].binding
    BY <1>2, <2>1, <2>2 DEF FollowInv, SessionsInv, PlacesInv, MatchInv, HandsInPlace, HandsMatch, Live
  <2>4. Matches(m, h, req[c].binding)
    BY <2>1, <2>3 DEF Matches, Live, Open, SignInInv, FlowInv, OpenIsListed
  <2>5. entry[h].tokens
    BY <1>1, <1>2, <2>1 DEF FollowInv, SessionsInv, Answers, Live
  <2>6. ~entry[h].busy
    BY <2>5 DEF SignInInv, FlowInv, TokensAtRest
  <2> QED
    BY <1>2, <2>4, <2>5, <2>6 DEF ConsumeRefused
<1>7. \A x \in Handles : ops'[x] = IF x = req[c].handle THEN None ELSE ops[x]
  BY DEF ConsumeRefused, SignInInv, ServiceInv
<1>8. flight' = [flight EXCEPT ![c] = NoFlight]
  BY <1>1, <1>3, AtRest
<1>9. \A x \in Handles : Live(x)' /\ req[c].handle = x => ops' = ops /\ ~Wields(c, x)
  BY <1>2, <1>6
<1> QED
  BY <1>3, <1>4, <1>5, <1>7, <1>8, <1>9, CallReturns

LEMMA ConsumedFollows ==
  ASSUME SignInInv, FollowInv, SignInInv', NEW c \in Calls, Consumed(c)
  PROVE  FollowInv'
<1>1. req[c].pc = "consuming"
  BY DEF Consumed, At
<1>2. entry' = entry /\ flight' = [flight EXCEPT ![c] = NoFlight]
  BY DEF Consumed, ConsumeEnd, Return
<1>3. UNCHANGED <<view, mgr, sweep, ending, lock, carried>> /\ req' = [req EXCEPT ![c] = NoReq]
  BY DEF Consumed, Finish
<1>4. gen' >= gen
  BY ServiceTyped DEF Consumed
<1>5. \A x \in Handles : req[c].handle = x => ~Live(x)'
  BY <1>1, <1>2 DEF FollowInv, SessionsInv, ConsumedIsGone, Live, Open
<1>6. \A x \in Handles : ops'[x] = IF x = req[c].handle THEN None ELSE ops[x]
  BY DEF Consumed, SignInInv, ServiceInv
<1>7. Keeps
  BY <1>2, AtRest
<1> QED
  BY <1>2, <1>3, <1>4, <1>5, <1>6, <1>7, CallReturns

(* A call goes on: nobody who had a session to look after loses sight of it. *)
LEMMA MovesOn ==
  ASSUME SignInInv, FollowInv, NEW c \in Calls, NEW p \in Places, Goto(c, p),
         req[c].pc \notin {"idle", "authorized"}, p \notin {"idle", "authorized"},
         UNCHANGED <<gen, view, mgr, ops, sweep, ending, lock, carried>>,
         \A h \in Handles : Open(h)' =>
            /\ Open(h) /\ entry'[h].mgr = entry[h].mgr /\ entry'[h].binding = entry[h].binding
            /\ \/ entry'[h].tokens = entry[h].tokens
               \/ entry'[h].tokens /\ req[c].handle = h /\ req[c].op = "operate",
         \A h \in Handles : req[c].handle = h /\ Open(h)' =>
            /\ p \in {"answered", "checked"} /\ req[c].op = "operate" => req[c].pc = "answered" \/ entry'[h].tokens
            /\ p # "consuming",
         p = "checked" /\ req[c].op = "begin" => Fresh(req[c].binding),
         \A d \in Calls : d # c => flight'[d] = flight[d],
         /\ p # "idle" /\ p # "authorized" /\ p # "found"
         /\ p \in {"remote", "answered", "checked", "abandon"} => req[c].op \in {"begin", "operate"}
         /\ p = "consuming" => req[c].op = "operate"
         /\ p # "cancel"
         /\ p = "remote" => flight'[c].op = req[c].op /\ flight'[c].handle = req[c].handle
         /\ p = "consuming" => flight'[c].op = "consume" /\ flight'[c].handle = req[c].handle
         /\ p \notin {"remote", "consuming"} => flight'[c] = NoFlight,
         \A h \in Handles : req[c].handle = h /\ Open(h)' =>
            \/ p \in {"answered", "checked", "abandon"}
            \/ req[c].pc = "found" /\ entry'[h].tokens = entry[h].tokens
  PROVE  FollowInv'
<1> USE DEF FollowInv
<1>1. \A d \in Calls : /\ req'[d].handle = req[d].handle /\ req'[d].op = req[d].op
                       /\ req'[d].pc = IF d = c THEN p ELSE req[d].pc
                       /\ d # c => req'[d] = req[d]
  BY DEF Goto, SignInInv, RequestsInv, Sound, Request
<1>2. CallFits(c)'
  BY <1>1 DEF CallFits
<1>3. Calling'
  BY <1>1, <1>2, CallingStays
<1>4. SessionsInv'
  BY Moving DEF Goto
<1>5. Tended'
  <2> SUFFICES ASSUME NEW h \in Handles, Live(h)'
               PROVE  IsTended(h)'
    BY DEF Tended
  <2>1. Live(h) /\ entry'[h].mgr = entry[h].mgr /\ Open(h)'
    BY DEF Live
  <2>2. Doomed' = Doomed
    BY DEF Doomed, ViewFree
  <2>3. CASE req[c].handle = h /\ p \in {"answered", "checked", "abandon"}
    <3>1. Wields(c, h)'
      BY <1>1, <2>3 DEF Wields
    <3> QED
      BY <3>1 DEF IsTended
  <2>4. CASE req[c].handle = h /\ req[c].pc = "found" /\ entry'[h].tokens = entry[h].tokens
    <3>1. ~Wields(c, h)
      BY <2>4 DEF Wields
    <3> QED
      BY <1>1, <2>1, <2>2, <2>4, <3>1, TendedStays
  <2>5. CASE req[c].handle # h
    <3>1. ~Wields(c, h) /\ entry'[h].tokens = entry[h].tokens
      BY <2>1, <2>5 DEF Wields
    <3> QED
      BY <1>1, <2>1, <2>2, <3>1, TendedStays
  <2> QED
    BY <2>1, <2>3, <2>4, <2>5
<1> QED
  BY <1>3, <1>4, <1>5

LEMMA StartedFollows ==
  ASSUME SignInInv, FollowInv, NEW c \in Calls, StartOperation(c)
  PROVE  FollowInv'
<1>1. req[c].pc = "found" /\ req[c].op = "operate"
  BY DEF StartOperation, TakeAccount, At, FollowInv, Calling, CallFits
<1>2. req[c].mgr \in Managers /\ req[c].handle \in Handles /\ req[c].binding \in Bindings
  BY <1>1, ServiceTyped DEF SignInInv, RequestsInv, Sound, WithManager
<1>3. Keeps /\ flight' = [flight EXCEPT ![c] = [op |-> "operate", handle |-> req[c].handle]]
  BY <1>2, OperationKeeps DEF StartOperation, SignInInv
<1>4. \A d \in Calls : flight'[d] = IF d = c THEN [op |-> "operate", handle |-> req[c].handle] ELSE flight[d]
  BY <1>3 DEF SignInInv, FlowInv, FlowTypeOK
<1>5. UNCHANGED <<gen, view, mgr, ops, sweep, ending, lock, carried>> /\ Goto(c, "remote")
  BY DEF StartOperation
<1> QED
  BY <1>1, <1>3, <1>4, <1>5, MovesOn DEF Keeps, Kept, Places

LEMMA AnsweredFollows ==
  ASSUME SignInInv, FollowInv, NEW c \in Calls, BeginAnswered(c) \/ PollAuthorized(c)
  PROVE  FollowInv'
<1>1. req[c].pc = "remote" /\ req[c].op \in {"begin", "operate"} /\ flight[c].op = req[c].op /\ flight[c].handle = req[c].handle
  BY DEF BeginAnswered, PollAuthorized, At, FollowInv, Calling, CallFits
<1>2. UNCHANGED <<gen, view, mgr, ops, sweep, ending, lock, carried>> /\ Goto(c, "answered")
  BY DEF BeginAnswered, PollAuthorized, service
<1>3. /\ flight' = [flight EXCEPT ![c] = NoFlight]
      /\ \A h \in Handles : Open(h)' =>
            /\ Open(h) /\ entry'[h].mgr = entry[h].mgr /\ entry'[h].binding = entry[h].binding
            /\ \/ entry'[h].tokens = entry[h].tokens /\ (req[c].handle = h => req[c].op = "begin")
               \/ entry'[h].tokens /\ req[c].handle = h /\ req[c].op = "operate"
  <2>1. CASE BeginAnswered(c)
    BY <1>1, <2>1, ReturnsKeep DEF BeginAnswered, BeginEnd, Return, Keeps, Kept, SignInInv
  <2>2. CASE PollAuthorized(c)
    BY <1>1, <2>2, AuthorizedKeeps DEF PollAuthorized, SignInInv
  <2> QED
    BY <2>1, <2>2
<1>4. \A d \in Calls : flight'[d] = IF d = c THEN NoFlight ELSE flight[d]
  BY <1>3 DEF SignInInv, FlowInv, FlowTypeOK
<1> QED
  BY <1>1, <1>2, <1>3, <1>4, MovesOn DEF Places

LEMMA ReauthorizedFollows ==
  ASSUME SignInInv, FollowInv, NEW c \in Calls, Reauthorize(c)
  PROVE  FollowInv'
<1> USE DEF FollowInv
<1>1. req[c].pc = "answered" /\ req[c].op \in {"begin", "operate"} /\ flight[c] = NoFlight
  BY DEF Reauthorize, At, Calling, CallFits
<1>2. UNCHANGED <<gen, view, mgr, ops, sweep, ending, lock, carried, entry, flight>>
  BY DEF Reauthorize, service, flowVars
<1>3. CASE StillAuthorized(c)
  <2>1. Goto(c, "checked")
    BY <1>3 DEF Reauthorize
  <2>2. Fresh(req[c].binding)
    <3>1. req[c].binding = CurrentBinding /\ view # None /\ view.cap = gen /\ gen \in Nat /\ sweep.gen \in Nat
      BY <1>3, ServiceTyped DEF StillAuthorized, ViewCurrent
    <3>2. Carrying => sweep.gen <= gen
      BY DEF Carrying, SessionsInv, AgesInv, SweepAges
    <3> QED
      BY <3>1, <3>2 DEF CurrentBinding, Fresh
  <2> QED
    BY <1>1, <1>2, <2>1, <2>2, MovesOn DEF Places, Open
<1>4. CASE ~StillAuthorized(c)
  <2>1. Goto(c, "abandon")
    BY <1>4 DEF Reauthorize
  <2> QED
    BY <1>1, <1>2, <2>1, MovesOn DEF Places, Open
<1> QED
  BY <1>3, <1>4

LEMMA UnregisteredFollows ==
  ASSUME SignInInv, FollowInv, NEW c \in Calls, Register(c), mgr # req[c].mgr
  PROVE  FollowInv'
<1>1. req[c].pc = "checked" /\ req[c].op = "begin" /\ flight[c] = NoFlight
  BY DEF Register, At, FollowInv, Calling, CallFits
<1>2. UNCHANGED <<gen, view, mgr, ops, sweep, ending, lock, carried, entry, flight>> /\ Goto(c, "abandon")
  BY DEF Register, flowVars
<1> QED
  BY <1>1, <1>2, MovesOn DEF Places, Open

LEMMA ConsumingFollows ==
  ASSUME SignInInv, FollowInv, NEW c \in Calls, StartConsume(c)
  PROVE  FollowInv'
<1>1. req[c].pc = "checked" /\ req[c].op = "operate"
  BY DEF StartConsume, At
<1>2. PICK m \in Managers, h \in Handles, b \in Bindings : req[c].mgr = m /\ req[c].handle = h /\ req[c].binding = b
  BY <1>1, ServiceTyped DEF WithManager, WithHandle
<1>3. Keeps /\ ~Open(h)' /\ flight' = [flight EXCEPT ![c] = [op |-> "consume", handle |-> h]]
  <2>1. Consume(c, m, h, b)
    BY <1>2 DEF StartConsume
  <2> QED
    BY <2>1, ConsumeShuts DEF SignInInv
<1>4. \A d \in Calls : flight'[d] = IF d = c THEN [op |-> "consume", handle |-> h] ELSE flight[d]
  BY <1>3 DEF SignInInv, FlowInv, FlowTypeOK
<1>5. UNCHANGED <<gen, view, mgr, ops, sweep, ending, lock, carried>> /\ Goto(c, "consuming")
  BY DEF StartConsume, service
<1> QED
  BY <1>1, <1>2, <1>3, <1>4, <1>5, MovesOn DEF Keeps, Kept, Places

(* A call is admitted, or finds the manager or the sign-in that it is about. *)
LEMMA Turning ==
  ASSUME SignInInv, SessionsInv, NEW c \in Calls, \A d \in Calls : d # c => req'[d] = req[d],
         req'[c].pc \in {"authorized", "found", "cancel"}, req'[c].op = "begin" => req'[c].handle = None,
         UNCHANGED <<gen, view, ops, sweep, ending, carried, entry>>,
         mgr' = mgr \/ ((\A h \in Handles : ops[h] = None) /\ \A d \in Calls : req[d].mgr # mgr'),
         \A h \in Handles : req'[c].handle = h => req[c].handle = h \/ ops[h] # None,
         \A h \in Handles : req'[c].handle = h /\ req'[c].pc # "authorized" =>
            (Open(h) => req'[c].mgr = entry[h].mgr) /\ (Live(h) => req'[c].binding = entry[h].binding),
         \A h \in Handles : req'[c].handle = h /\ Live(h) /\ ops[h] # None /\ Split(h) => req'[c].binding # ops[h]
  PROVE  SessionsInv'
<1> USE ServiceTyped DEF SessionsInv, PlacesInv, MatchInv, AgesInv
<1>1. \A d \in Calls : d # c => req'[d] = req[d]
  OBVIOUS
<1>2. \A h \in Handles : (Open(h)' <=> Open(h)) /\ (Live(h)' <=> Live(h))
  BY DEF Live, Open
<1>3. Doomed' = Doomed
  BY DEF Doomed, ViewFree
<1>4. BeginsAlone'
  <2> SUFFICES ASSUME NEW d \in Calls, NEW h \in Handles, req'[d].op = "begin", req'[d].handle = h
               PROVE  OwnSession(d, h)'
    BY DEF BeginsAlone
  <2>1. d # c
    BY <1>1
  <2>2. OwnSession(d, h)
    BY <1>1, <2>1 DEF BeginsAlone
  <2>3. \A x \in Calls : req'[x].handle = h => x = d
    BY <1>1, <2>1, <2>2 DEF OwnSession
  <2> QED
    BY <1>2, <1>3, <2>2, <2>3 DEF OwnSession
<1>5. Answers' /\ ConsumedIsGone'
  BY <1>1, <1>2 DEF Answers, ConsumedIsGone
<1>6. OpsInPlace' /\ DoomedInPlace'
  BY <1>2, <1>3 DEF OpsInPlace, DoomedInPlace
<1>7. HandsInPlace' /\ HandsMatch'
  <2> SUFFICES ASSUME NEW d \in Calls, NEW h \in Handles, Has(d, h)', Open(h)
               PROVE  req'[d].mgr = entry[h].mgr /\ (Live(h) => req'[d].binding = entry[h].binding)
    BY <1>2 DEF HandsInPlace, HandsMatch, Live
  <2>1. CASE d = c
    BY <1>1, <2>1 DEF Has
  <2>2. CASE d # c
    BY <1>1, <2>2 DEF Has, HandsInPlace, HandsMatch
  <2> QED
    BY <2>1, <2>2
<1>8. DoomedMatch'
  BY <1>2, <1>3 DEF DoomedMatch
<1>9. OpsMatch'
  <2> SUFFICES ASSUME NEW h \in Handles, Live(h), ops[h] # None
               PROVE  ops[h].token = entry[h].binding.token /\ (Split(h)' => AheadFits(h)')
    BY <1>2 DEF OpsMatch
  <2>1. Split(h)' <=> Split(h)
    BY DEF Split
  <2>2. Split(h) /\ AheadFits(h) => AheadFits(h)'
    BY <1>1 DEF AheadFits
  <2> QED
    BY <2>1, <2>2 DEF OpsMatch
<1>10. SweepAges'
  BY DEF SweepAges
<1>11. \A b \in Bindings : Fresh(b)' <=> Fresh(b)
  BY DEF Fresh, Outdated, Carrying
<1>12. OpsFresh'
  BY <1>2, <1>11 DEF OpsFresh
<1>13. HandsFresh'
  <2> SUFFICES ASSUME NEW d \in Calls, NEW h \in Handles, req'[d].pc = "checked", req'[d].op = "begin",
                      req'[d].handle = h, req'[d].mgr = mgr', Live(h)'
               PROVE  Fresh(req[d].binding)'
    BY DEF HandsFresh
  <2>1. req'[d] = req[d] /\ req[d].binding \in Bindings /\ mgr' = mgr
    BY <1>1
  <2>2. Fresh(req[d].binding)
    BY <1>2, <2>1 DEF HandsFresh
  <2>3. Fresh(req[d].binding)'
    BY <1>11, <2>1, <2>2 DEF Fresh, Outdated, Carrying
  <2> QED
    BY <2>3
<1> QED
  BY <1>4, <1>5, <1>6, <1>7, <1>8, <1>9, <1>10, <1>12, <1>13

LEMMA TurnsFollow ==
  ASSUME SignInInv, FollowInv, NEW c \in Calls, \A d \in Calls : d # c => req'[d] = req[d], SessionsInv',
         UNCHANGED <<ops, ending, lock, carried, entry, flight>>,
         req[c].pc \in {"authorized", "idle"}, req'[c].pc \in {"authorized", "found", "cancel"},
         req'[c].op \in {"begin", "operate", "cancel"}, req'[c].op = "begin" => req'[c].handle = None,
         req'[c].pc = "found" => req'[c].op # "cancel" /\ (req'[c].op = "operate" => req'[c].handle # None),
         req'[c].pc = "cancel" => req'[c].op = "cancel"
  PROVE  FollowInv'
<1> USE DEF FollowInv
<1>2. flight[c] = NoFlight
  BY DEF Calling, CallFits
<1>3. CallFits(c)'
  BY <1>2, ServiceTyped DEF CallFits
<1>4. Calling'
  BY <1>3, CallingStays
<1>5. Tended'
  <2> SUFFICES ASSUME NEW h \in Handles, Live(h)'
               PROVE  IsTended(h)'
    BY DEF Tended
  <2>1. Live(h) /\ ~Wields(c, h)
    BY DEF Live, Open, Wields
  <2>2. Doomed' = Doomed
    BY DEF Doomed, ViewFree
  <2> QED
    BY <2>1, <2>2, TendedStays
<1> QED
  BY <1>4, <1>5

LEMMA AdmittedFollows ==
  ASSUME SignInInv, FollowInv, NEW c \in Calls,
         \/ \E s \in Slots : BeginCall(c, s)
         \/ \E h \in Handles, kind \in {"operate", "cancel"} : HandleCall(c, h, kind)
  PROVE  FollowInv'
<1>1. CASE \E s \in Slots : BeginCall(c, s)
  <2>1. PICK s \in Slots : BeginCall(c, s)
    BY <1>1
  <2> DEFINE r == [NoReq EXCEPT !.pc = "authorized", !.op = "begin", !.slot = s, !.binding = CurrentBinding]
  <2>2. req' = [req EXCEPT ![c] = r] /\ req[c].pc = "idle" /\ UNCHANGED <<flowVars, service>>
    BY <2>1 DEF BeginCall, At
  <2>3. /\ req'[c].pc = "authorized" /\ req'[c].op = "begin" /\ req'[c].handle = None
        /\ \A d \in Calls : d # c => req'[d] = req[d]
    BY <2>2 DEF NoReq, SignInInv, RequestsInv
  <2> HIDE DEF r
  <2>4. SessionsInv'
    BY <2>2, <2>3, Turning, ServiceTyped DEF flowVars, service, FollowInv
  <2> QED
    BY <2>2, <2>3, <2>4, TurnsFollow DEF flowVars, service
<1>2. CASE \E h \in Handles, kind \in {"operate", "cancel"} : HandleCall(c, h, kind)
  <2>1. PICK h \in Handles, kind \in {"operate", "cancel"} : HandleCall(c, h, kind)
    BY <1>2
  <2> DEFINE r == [NoReq EXCEPT !.pc = "authorized", !.op = kind, !.handle = h, !.binding = CurrentBinding]
  <2>2. /\ req' = [req EXCEPT ![c] = r] /\ req[c].pc = "idle" /\ UNCHANGED <<flowVars, service>>
        /\ ops[h] # None /\ view # None /\ view.cap = gen
    BY <2>1 DEF HandleCall, At, ViewCurrent
  <2>3. /\ req'[c].pc = "authorized" /\ req'[c].op = kind /\ req'[c].handle = h /\ req'[c].binding = CurrentBinding
        /\ \A d \in Calls : d # c => req'[d] = req[d]
    BY <2>2 DEF NoReq, SignInInv, RequestsInv
  <2> HIDE DEF r
  <2>4. ASSUME Live(h), Split(h)
        PROVE  req'[c].binding # ops[h]
    <3>1. AheadFits(h)
      BY <2>2, <2>4 DEF FollowInv, SessionsInv, MatchInv, OpsMatch
    <3> QED
      BY <2>2, <2>3, <3>1 DEF AheadFits, CurrentBinding
  <2>5. SessionsInv'
    BY <2>2, <2>3, <2>4, Turning DEF flowVars, service, FollowInv
  <2> QED
    BY <2>2, <2>3, <2>5, TurnsFollow DEF flowVars, service
<1> QED
  BY <1>1, <1>2

LEMMA FoundManagerFollows ==
  ASSUME SignInInv, FollowInv, NEW c \in Calls, FindManager(c)
  PROVE  FollowInv'
<1>1. PICK m \in IF mgr # None THEN {mgr} ELSE closed \ InUse :
         /\ IF mgr = None THEN NewManager(m) ELSE UNCHANGED flowVars
         /\ mgr' = m
         /\ req' = [req EXCEPT ![c].pc = "found", ![c].mgr = m]
  BY DEF FindManager
<1>2. req[c].pc = "authorized" /\ req[c].op = "begin" /\ req[c].handle = None
  BY DEF FindManager, At, FollowInv, Calling, CallFits
<1> DEFINE r == [req[c] EXCEPT !.pc = "found", !.mgr = m]
<1>3. req' = [req EXCEPT ![c] = r]
  BY <1>1
<1>4. /\ req'[c].pc = "found" /\ req'[c].op = "begin" /\ req'[c].handle = None
      /\ \A d \in Calls : d # c => req'[d] = req[d]
  BY <1>2, <1>3 DEF SignInInv, RequestsInv, Sound, Request
<1>5. UNCHANGED <<entry, flight>> /\ UNCHANGED <<gen, view, ops, sweep, lock, ending, carried>>
  BY <1>1 DEF FindManager, NewManager, flowVars
<1>6. mgr' = mgr \/ ((\A h \in Handles : ops[h] = None) /\ \A d \in Calls : req[d].mgr # mgr')
  <2>1. CASE mgr = None
    BY <1>1, <2>1 DEF InUse, SignInInv, ServiceInv
  <2> QED
    BY <1>1, <2>1
<1> HIDE DEF r
<1>7. SessionsInv'
  BY <1>3, <1>4, <1>5, <1>6, ServiceTyped, Turning DEF FollowInv
<1> QED
  BY <1>2, <1>3, <1>4, <1>5, <1>7, TurnsFollow

LEMMA FoundOperationFollows ==
  ASSUME SignInInv, FollowInv, NEW c \in Calls, FindOperation(c), mgr # None, ops[req[c].handle] = req[c].binding
  PROVE  FollowInv'
<1>1. /\ req[c].pc = "authorized" /\ req[c].op \in {"operate", "cancel"}
      /\ req[c].handle \in Handles /\ req[c].binding \in Bindings
  BY DEF FindOperation, At, FollowInv, Calling, CallFits, SignInInv, RequestsInv, Sound, Request
<1> DEFINE p == IF req[c].op = "cancel" THEN "cancel" ELSE "found"
           r == [req[c] EXCEPT !.pc = p, !.mgr = mgr]
<1>2. req' = [req EXCEPT ![c] = r] /\ UNCHANGED <<flowVars, service>>
  BY DEF FindOperation
<1>3. /\ req'[c].pc = p /\ req'[c].op = req[c].op /\ req'[c].handle = req[c].handle
      /\ req'[c].binding = req[c].binding /\ req'[c].mgr = mgr
      /\ \A d \in Calls : d # c => req'[d] = req[d]
  BY <1>2 DEF SignInInv, RequestsInv, Sound, Request
<1> HIDE DEF r
<1>4. ASSUME NEW h \in Handles, req[c].handle = h, Open(h)
      PROVE  mgr = entry[h].mgr /\ (Live(h) => req[c].binding = entry[h].binding /\ ~Split(h))
  <2>1. mgr = entry[h].mgr
    BY <1>1, <1>4, ServiceTyped DEF FollowInv, SessionsInv, PlacesInv, OpsInPlace
  <2>2. ASSUME Live(h)
        PROVE  req[c].binding = entry[h].binding /\ ~Split(h)
    <3>1. ops[h] \in Bindings /\ entry[h].binding \in Bindings /\ ops[h] # None
      BY <1>1, <1>4, ServiceTyped
    <3>2. ops[h].token = entry[h].binding.token /\ (Split(h) => AheadFits(h))
      BY <2>2, <3>1 DEF FollowInv, SessionsInv, MatchInv, OpsMatch
    <3>3. ~Split(h)
      BY <1>4, <3>2 DEF AheadFits
    <3> QED
      BY <1>4, <3>1, <3>2, <3>3, SameBindings DEF Split
  <2> QED
    BY <2>1, <2>2
<1>5. p \in {"found", "cancel"} /\ (p = "found" <=> req[c].op = "operate")
  BY <1>1
<1> HIDE DEF p
<1>6. \A h \in Handles : req'[c].handle = h /\ req'[c].pc # "authorized" =>
            (Open(h) => req'[c].mgr = entry[h].mgr) /\ (Live(h) => req'[c].binding = entry[h].binding)
  BY <1>3, <1>4 DEF Live
<1>7. \A h \in Handles : req'[c].handle = h /\ Live(h) /\ ops[h] # None /\ Split(h) => req'[c].binding # ops[h]
  BY <1>3, <1>4 DEF Live
<1>8. SessionsInv'
  BY <1>1, <1>2, <1>3, <1>5, <1>6, <1>7, Turning DEF flowVars, service, FollowInv
<1> QED
  BY <1>1, <1>2, <1>3, <1>5, <1>8, ServiceTyped, TurnsFollow DEF flowVars, service

(* A new sign-in: nobody knows of it but the call that begins it, which      *)
(* follows it until it has registered it with the service.                   *)
LEMMA BegunFollows ==
  ASSUME SignInInv, FollowInv, NEW c \in Calls, StartBegin(c)
  PROVE  FollowInv'
<1> USE ServiceTyped DEF FollowInv, SessionsInv, PlacesInv, MatchInv, AgesInv
<1>1. req[c].pc = "found" /\ req[c].op = "begin" /\ req[c].handle = None /\ flight[c] = NoFlight
  BY DEF StartBegin, TakeAccount, At, Calling, CallFits
<1>2. PICK h \in Handles :
         /\ ops[h] = None /\ ~Held(h) /\ h \notin Doomed
         /\ BeginStart(c, req[c].mgr, req[c].slot, req[c].binding, h)
         /\ req' = [req EXCEPT ![c].pc = "remote", ![c].handle = h]
         /\ carried' = carried \ {h}
  BY DEF StartBegin
<1>3. req[c].mgr \in Managers /\ req[c].slot \in Slots /\ req[c].binding \in Bindings
  BY <1>1 DEF SignInInv, RequestsInv, Sound, WithManager
<1>4. /\ \A x \in Handles \ {h} : Open(x)' => Kept(x)
      /\ Open(h)' /\ entry'[h].mgr = req[c].mgr /\ entry'[h].binding = req[c].binding /\ ~entry'[h].tokens
      /\ flight' = [flight EXCEPT ![c] = [op |-> "begin", handle |-> h]]
  BY <1>2, <1>3, BeginKeeps DEF SignInInv
<1>5. \A d \in Calls : flight'[d] = IF d = c THEN [op |-> "begin", handle |-> h] ELSE flight[d]
  BY <1>4 DEF SignInInv, FlowInv, FlowTypeOK
<1>6. \A d \in Calls : d # c => req'[d] = req[d] /\ req[d].handle # h
  BY <1>2 DEF SignInInv, RequestsInv, Held
<1>7. /\ req'[c].pc = "remote" /\ req'[c].op = "begin" /\ req'[c].handle = h
      /\ req'[c].mgr = req[c].mgr /\ req'[c].binding = req[c].binding
  BY <1>1, <1>2 DEF SignInInv, RequestsInv, Sound, Request
<1>8. UNCHANGED <<gen, view, mgr, ops, sweep, lock, ending>>
  BY DEF StartBegin
<1>9. \A x \in Handles \ {h} : (Open(x)' => Kept(x)) /\ (Live(x)' => Live(x) /\ Kept(x))
  BY <1>2, <1>4 DEF Live, Kept
<1>10. Doomed' = Doomed
  BY <1>8 DEF Doomed, ViewFree
<1>11. Calling'
  <2>1. CallFits(c)'
    BY <1>5, <1>7 DEF CallFits
  <2> QED
    BY <1>5, <1>6, <2>1, CallingStays
<1>12. BeginsAlone'
  <2> SUFFICES ASSUME NEW d \in Calls, NEW x \in Handles, req'[d].op = "begin", req'[d].handle = x
               PROVE  OwnSession(d, x)'
    BY DEF BeginsAlone
  <2>1. CASE d = c
    <3>1. x = h
      BY <1>7, <2>1
    <3>2. \A e \in Calls : req'[e].handle = h => e = c
      BY <1>6
    <3> QED
      BY <1>2, <1>4, <1>8, <1>10, <2>1, <3>1, <3>2 DEF OwnSession
  <2>2. CASE d # c
    <3>1. x # h /\ OwnSession(d, x)
      BY <1>6, <2>2 DEF BeginsAlone
    <3> QED
      BY <1>6, <1>7, <1>8, <1>9, <1>10, <3>1 DEF OwnSession, Kept
  <2> QED
    BY <2>1, <2>2
<1>13. Answers' /\ ConsumedIsGone'
  <2> SUFFICES ASSUME NEW d \in Calls, NEW x \in Handles, req'[d].handle = x, Open(x)'
               PROVE  /\ req'[d].pc \in {"answered", "checked"} /\ req'[d].op = "operate" => entry'[x].tokens
                      /\ req'[d].pc # "consuming"
    BY DEF Answers, ConsumedIsGone
  <2>1. CASE d = c
    BY <1>7, <2>1
  <2>2. CASE d # c
    BY <1>6, <1>9, <2>2 DEF Answers, ConsumedIsGone, Kept
  <2> QED
    BY <2>1, <2>2
<1>14. OpsInPlace'
  BY <1>2, <1>8, <1>9 DEF OpsInPlace, Kept
<1>15. DoomedInPlace'
  BY <1>2, <1>8, <1>9, <1>10 DEF DoomedInPlace, Kept
<1>16. HandsInPlace' /\ HandsMatch'
  <2> SUFFICES ASSUME NEW d \in Calls, NEW x \in Handles, Has(d, x)', Open(x)'
               PROVE  req'[d].mgr = entry'[x].mgr /\ (Live(x)' => req'[d].binding = entry'[x].binding)
    BY DEF HandsInPlace, HandsMatch, Live
  <2>1. CASE d = c
    BY <1>4, <1>7, <2>1 DEF Has
  <2>2. CASE d # c
    BY <1>6, <1>9, <2>2 DEF Has, HandsInPlace, HandsMatch, Kept
  <2> QED
    BY <2>1, <2>2
<1>17. DoomedMatch'
  BY <1>2, <1>8, <1>9, <1>10 DEF DoomedMatch, Kept
<1>18. OpsMatch'
  <2> SUFFICES ASSUME NEW x \in Handles, Live(x)', ops'[x] # None
               PROVE  ops'[x].token = entry'[x].binding.token /\ (Split(x)' => AheadFits(x)')
    BY DEF OpsMatch
  <2>1. x # h /\ Live(x) /\ Kept(x)
    BY <1>2, <1>8, <1>9
  <2>2. Split(x)' <=> Split(x)
    BY <1>8, <2>1 DEF Split, Kept
  <2>3. AheadFits(x) => AheadFits(x)'
    BY <1>6, <1>7, <1>8, <2>1 DEF AheadFits, Kept
  <2> QED
    BY <1>8, <2>1, <2>2, <2>3 DEF OpsMatch, Kept
<1>19. SweepAges'
  BY <1>8 DEF SweepAges
<1>20. \A b \in Bindings : Fresh(b)' <=> Fresh(b)
  BY <1>8 DEF Fresh, Outdated, Carrying
<1>21. OpsFresh'
  BY <1>2, <1>8, <1>9, <1>20 DEF OpsFresh
<1>22. HandsFresh'
  <2> SUFFICES ASSUME NEW d \in Calls, NEW x \in Handles, req'[d].pc = "checked", req'[d].op = "begin",
                      req'[d].handle = x, req'[d].mgr = mgr', Live(x)'
               PROVE  Fresh(req[d].binding)'
    BY DEF HandsFresh
  <2>1. d # c
    BY <1>7
  <2>2. req'[d] = req[d] /\ x # h /\ Live(x) /\ req[d].binding \in Bindings
    BY <1>6, <1>9, <2>1
  <2>3. Fresh(req[d].binding)
    BY <1>8, <2>2 DEF HandsFresh
  <2> QED
    BY <1>8, <2>2, <2>3 DEF Fresh, Outdated, Carrying
<1>23. Tended'
  <2> SUFFICES ASSUME NEW x \in Handles, Live(x)'
               PROVE  IsTended(x)'
    BY DEF Tended
  <2>1. CASE x = h
    <3>1. Wields(c, x)'
      BY <1>7, <2>1 DEF Wields
    <3> QED
      BY <3>1 DEF IsTended
  <2>2. CASE x # h
    <3>1. Live(x) /\ Kept(x) /\ ~Wields(c, x)
      BY <1>1, <1>9, <2>2 DEF Wields
    <3> QED
      BY <1>6, <1>8, <1>10, <3>1, TendedStays DEF Kept
  <2> QED
    BY <2>1, <2>2
<1> QED
  BY <1>11, <1>12, <1>13, <1>14, <1>15, <1>16, <1>17, <1>18, <1>19, <1>21, <1>22, <1>23

LEMMA RegisteredFollows ==
  ASSUME SignInInv, FollowInv, NEW c \in Calls, Register(c), mgr = req[c].mgr
  PROVE  FollowInv'
<1> USE ServiceTyped DEF FollowInv, SessionsInv, PlacesInv, MatchInv, AgesInv
<1>1. req[c].pc = "checked" /\ req[c].op = "begin" /\ flight[c] = NoFlight
  BY DEF Register, At, Calling, CallFits
<1>2. PICK h \in Handles, b \in Bindings : req[c].handle = h /\ req[c].binding = b
  BY <1>1 DEF WithHandle, WithManager
<1>3. UNCHANGED <<entry, flight, gen, view, mgr, sweep, lock, ending, carried>> /\ req' = [req EXCEPT ![c] = NoReq]
  BY DEF Register, Finish, flowVars
<1>4. \A x \in Handles : ops'[x] = IF x = h THEN b ELSE ops[x]
  BY <1>2 DEF Register, SignInInv, ServiceInv
<1>5. \A d \in Calls : req'[d] = IF d = c THEN NoReq ELSE req[d]
  BY <1>3 DEF SignInInv, RequestsInv
<1>6. OwnSession(c, h) /\ Has(c, h)
  BY <1>1, <1>2 DEF BeginsAlone, Has
<1>7. \A x \in Handles : (Open(x)' <=> Open(x)) /\ (Live(x)' <=> Live(x))
  BY <1>3 DEF Live, Open
<1>8. Doomed' = Doomed
  BY <1>3 DEF Doomed, ViewFree
<1>9. Calling'
  <2>1. CallFits(c)'
    BY <1>1, <1>3, <1>5, NoReqFits
  <2> QED
    BY <1>3, <1>5, <2>1, CallingStays
<1>10. \A d \in Calls, x \in Handles : req'[d].handle = x => x # h /\ d # c /\ req'[d] = req[d]
  BY <1>5, <1>6 DEF OwnSession
<1>11. BeginsAlone'
  <2> SUFFICES ASSUME NEW d \in Calls, NEW x \in Handles, req'[d].op = "begin", req'[d].handle = x
               PROVE  OwnSession(d, x)'
    BY DEF BeginsAlone
  <2>1. x # h /\ OwnSession(d, x)
    BY <1>10 DEF BeginsAlone
  <2> QED
    BY <1>3, <1>4, <1>7, <1>8, <1>10, <2>1 DEF OwnSession
<1>12. Answers' /\ ConsumedIsGone'
  BY <1>3, <1>7, <1>10 DEF Answers, ConsumedIsGone
<1>13. OpsInPlace'
  BY <1>2, <1>3, <1>4, <1>6, <1>7 DEF OpsInPlace, HandsInPlace
<1>14. DoomedInPlace'
  BY <1>3, <1>7, <1>8 DEF DoomedInPlace
<1>15. HandsInPlace' /\ HandsMatch'
  BY <1>3, <1>7, <1>10 DEF HandsInPlace, HandsMatch, Has
<1>16. DoomedMatch'
  BY <1>3, <1>4, <1>6, <1>7, <1>8 DEF DoomedMatch, OwnSession
<1>17. OpsMatch'
  <2> SUFFICES ASSUME NEW x \in Handles, Live(x), ops'[x] # None
               PROVE  ops'[x].token = entry[x].binding.token /\ (Split(x)' => AheadFits(x)')
    BY <1>3, <1>7 DEF OpsMatch
  <2>1. CASE x = h
    <3>1. ops'[x] = entry[x].binding
      BY <1>2, <1>4, <1>6, <2>1 DEF HandsMatch
    <3> QED
      BY <1>3, <3>1 DEF Split
  <2>2. CASE x # h
    <3>1. ops'[x] = ops[x]
      BY <1>4, <2>2
    <3>2. Split(x)' <=> Split(x)
      BY <1>3, <3>1 DEF Split
    <3>3. AheadFits(x) => AheadFits(x)'
      BY <1>3, <1>10, <3>1 DEF AheadFits
    <3> QED
      BY <3>1, <3>2, <3>3 DEF OpsMatch
  <2> QED
    BY <2>1, <2>2
<1>18. SweepAges'
  BY <1>3 DEF SweepAges
<1>19. \A d \in Bindings : Fresh(d)' <=> Fresh(d)
  BY <1>3 DEF Fresh, Outdated, Carrying
<1>20. OpsFresh'
  <2> SUFFICES ASSUME NEW x \in Handles, Live(x), ops'[x] # None
               PROVE  Fresh(ops[x])'
    BY <1>7 DEF OpsFresh
  <2>1. CASE x = h
    <3>1. Fresh(b)
      BY <1>1, <1>2, <2>1 DEF HandsFresh
    <3>2. Fresh(b)' /\ ops'[x] = b
      BY <1>4, <1>19, <2>1, <3>1
    <3> QED
      BY <3>2 DEF Fresh, Outdated, Carrying
  <2>2. CASE x # h
    <3>1. ops'[x] = ops[x] /\ Fresh(ops[x])
      BY <1>4, <2>2 DEF OpsFresh
    <3> QED
      BY <1>3, <3>1 DEF Fresh, Outdated, Carrying
  <2> QED
    BY <2>1, <2>2
<1>21. HandsFresh'
  <2> SUFFICES ASSUME NEW d \in Calls, NEW x \in Handles, req'[d].pc = "checked", req'[d].op = "begin",
                      req'[d].handle = x, req'[d].mgr = mgr', Live(x)'
               PROVE  Fresh(req[d].binding)'
    BY DEF HandsFresh
  <2>1. req'[d] = req[d] /\ Live(x)
    BY <1>7, <1>10
  <2>2. Fresh(req[d].binding)
    BY <1>3, <2>1 DEF HandsFresh
  <2> QED
    BY <1>3, <2>1, <2>2 DEF Fresh, Outdated, Carrying
<1>22. Tended'
  <2> SUFFICES ASSUME NEW x \in Handles, Live(x)
               PROVE  IsTended(x)'
    BY <1>7 DEF Tended
  <2>1. CASE x = h
    BY <1>3, <1>4, <1>6, <2>1 DEF IsTended, OwnSession, Live
  <2>2. CASE x # h
    <3>1. ~Wields(c, x) /\ ops'[x] = ops[x]
      BY <1>2, <1>4, <2>2 DEF Wields
    <3>2. IsTended(x) /\ \A d \in Calls : Wields(d, x) => d # c
      BY <3>1 DEF Tended
    <3>3. \A d \in Calls : Wields(d, x) => Wields(d, x)'
      BY <1>5, <3>2 DEF Wields
    <3> QED
      BY <1>3, <1>8, <3>1, <3>2, <3>3 DEF IsTended
  <2> QED
    BY <2>1, <2>2
<1> QED
  BY <1>9, <1>11, <1>12, <1>13, <1>14, <1>15, <1>16, <1>17, <1>18, <1>20, <1>21, <1>22

LEMMA CallsFollow ==
  ASSUME SignInInv, FollowInv, SignInInv', NEW c \in Calls, CallStep(c)
  PROVE  FollowInv'
<1>1. CASE FindOperation(c)
  <2>1. (mgr # None /\ ops[req[c].handle] = req[c].binding) \/ req' = [req EXCEPT ![c] = NoReq]
    BY <1>1 DEF FindOperation
  <2> QED
    BY <1>1, <2>1, RefusedFollows, FoundOperationFollows
<1>2. CASE Register(c)
  BY <1>2, RegisteredFollows, UnregisteredFollows
<1>3. CASE FindManager(c) \/ AccountTaken(c) \/ StartRefused(c) \/ StartBegin(c) \/ StartOperation(c)
  BY <1>3, FoundManagerFollows, RefusedFollows, BegunFollows, StartedFollows
<1>4. CASE BeginAnswered(c) \/ PollAuthorized(c) \/ OperationReturns(c) \/ Reauthorize(c)
  BY <1>4, AnsweredFollows, OperationFollows, ReauthorizedFollows
<1>5. CASE Abandon(c) \/ CancelCall(c) \/ StartConsume(c) \/ ConsumeRefused(c) \/ Consumed(c)
  BY <1>5, GivenUpFollows, ConsumingFollows, UnconsumedFollows, ConsumedFollows
<1> QED
  BY <1>1, <1>2, <1>3, <1>4, <1>5 DEF CallStep

-----------------------------------------------------------------------------
(* The window, the vault's lock and the reapers.                             *)
LEMMA CallingRests ==
  ASSUME Calling, UNCHANGED <<req, flight>>
  PROVE  Calling'
  BY DEF Calling, CallFits

LEMMA LessFollows ==
  ASSUME SignInInv, FollowInv, SignInInv', Keeps,
         UNCHANGED <<req, flight, ops, mgr, sweep, carried>>, Doomed' = Doomed,
         lock' = lock \/ lock.pc # "close",
         ending' = ending \/ ending' = None,
         view' = view \/ view' = None, gen' >= gen
  PROVE  FollowInv'
<1> USE DEF FollowInv
<1>1. ending' = None \/ (ending # None /\ ending' # None /\ ending' = ending)
  OBVIOUS
<1>2. SessionsInv'
  BY <1>1, Lessening
<1>3. Tended'
  <2> SUFFICES ASSUME NEW h \in Handles, Live(h)'
               PROVE  IsTended(h)'
    BY DEF Tended
  <2>1. IsTended(h) /\ Kept(h)
    BY DEF Tended, Keeps, Kept, Live
  <2> QED
    BY <2>1 DEF IsTended, Wields, Kept
<1> QED
  BY <1>2, <1>3, CallingRests

LEMMA QuietFollow ==
  ASSUME SignInInv, FollowInv, SignInInv',
         \/ EndDone \/ RevokeViews \/ WaitForCalls \/ LockVault \/ Unlock \/ OtherWrite
         \/ \E m \in Managers : Reap(m)
         \/ \E h \in Handles : Expire(h)
  PROVE  FollowInv'
<1>1. CASE EndDone
  <2>1. Keeps /\ Doomed' = Doomed /\ gen' >= gen
    BY <1>1, ServiceTyped DEF EndDone, flowVars, Doomed, ViewFree, Keeps, Kept, Open
  <2> QED
    BY <1>1, <2>1, LessFollows DEF EndDone, flowVars
<1>2. CASE RevokeViews \/ WaitForCalls \/ LockVault \/ Unlock \/ OtherWrite
  <2>1. /\ UNCHANGED <<entry, flight, req, ops, mgr, sweep, carried, ending>> /\ (view' = view \/ view' = None)
        /\ lock' = lock \/ lock.pc # "close"
    BY <1>2 DEF RevokeViews, WaitForCalls, LockVault, Unlock, OtherWrite, flowVars
  <2>2. gen' >= gen
    BY <1>2, ServiceTyped DEF RevokeViews, WaitForCalls, LockVault, Unlock, OtherWrite
  <2>3. Keeps /\ Doomed' = Doomed
    BY <2>1 DEF Doomed, ViewFree, Keeps, Kept, Open
  <2> QED
    BY <2>1, <2>2, <2>3, LessFollows
<1>3. CASE \/ \E m \in Managers : Reap(m)
           \/ \E h \in Handles : Expire(h)
  <2>1. UNCHANGED <<service, req>>
    BY <1>3 DEF Reap, Expire
  <2>2. Keeps /\ flight' = flight
    BY <1>3, PurgeShuts, LapseKeeps DEF Reap, Expire, SignInInv
  <2>3. UNCHANGED <<gen, view, mgr, ops, sweep, ending, lock, carried>>
    BY <2>1 DEF service
  <2>4. gen' >= gen /\ Doomed' = Doomed
    BY <2>3, ServiceTyped DEF Doomed, ViewFree
  <2> QED
    BY <2>1, <2>2, <2>3, <2>4, LessFollows
<1> QED
  BY <1>1, <1>2, <1>3

(* Closing a window cancels what it took, under the binding it took it with. *)
LEMMA EndCancelFollows ==
  ASSUME SignInInv, FollowInv, SignInInv', NEW h \in Handles, EndCancel(h)
  PROVE  FollowInv'
<1> USE DEF FollowInv
<1>1. /\ UNCHANGED <<gen, view, mgr, ops, req, sweep, lock, carried>>
      /\ ending # None /\ h \in ending.todo /\ ending' = [ending EXCEPT !.todo = @ \ {h}]
  BY DEF EndCancel, ViewFree
<1>2. ending \in Ending /\ ending.mgr \in Managers /\ ending.binding \in Bindings
  BY <1>1 DEF SignInInv, ServiceInv, Ending
<1>3. ending' \in Ending /\ ending'.mgr = ending.mgr /\ ending'.binding = ending.binding /\ ending'.todo = ending.todo \ {h}
  BY <1>1, <1>2 DEF Ending
<1> USE NoneIsNoWindow
<1>4. Keeps /\ flight' = flight /\ (Open(h)' => entry[h].mgr # ending.mgr \/ entry[h].binding # ending.binding)
  BY <1>2, CancelShuts DEF EndCancel, SignInInv
<1>5. gen' >= gen
  BY <1>1, ServiceTyped
<1>6. SessionsInv'
  BY <1>1, <1>3, <1>4, <1>5, Lessening
<1>7. h \in Doomed /\ Doomed' = Doomed \ {h}
  BY <1>1, <1>3 DEF Doomed, ViewFree
<1>8. ~Live(h)'
  <2> SUFFICES ASSUME Live(h)'
               PROVE  FALSE
    OBVIOUS
  <2>1. Live(h) /\ Open(h)'
    BY <1>1, <1>4 DEF Live, Keeps, Kept
  <2> QED
    BY <1>4, <1>7, <2>1 DEF SessionsInv, PlacesInv, MatchInv, DoomedInPlace, DoomedMatch, Live
<1>9. Tended'
  <2> SUFFICES ASSUME NEW x \in Handles, Live(x)'
               PROVE  IsTended(x)'
    BY DEF Tended
  <2>1. IsTended(x) /\ Kept(x) /\ x # h
    BY <1>1, <1>4, <1>8 DEF Tended, Keeps, Kept, Live
  <2> QED
    BY <1>1, <1>7, <2>1 DEF IsTended, Wields, Kept
<1> QED
  BY <1>1, <1>4, <1>6, <1>9, CallingRests

(* Locking takes all the service follows, and closes the manager of it.      *)
LEMMA StartLockFollows ==
  ASSUME SignInInv, FollowInv, SignInInv', StartLock
  PROVE  FollowInv'
<1> USE DEF FollowInv
<1>1. /\ UNCHANGED <<entry, flight, gen, view, req, sweep, ending, carried>>
      /\ lock' = [pc |-> IF mgr = None THEN "vault" ELSE "close", mgr |-> mgr]
      /\ mgr' = None /\ \A h \in Handles : ops'[h] = None
      /\ lock.pc = "idle"
  BY DEF StartLock, flowVars
<1>2. Keeps /\ gen' >= gen
  BY <1>1, ServiceTyped DEF Keeps, Kept, Open
<1>3. SessionsInv'
  BY <1>1, <1>2, Lessening
<1>4. Tended'
  <2> SUFFICES ASSUME NEW h \in Handles, Live(h)'
               PROVE  IsTended(h)'
    BY DEF Tended
  <2>1. Live(h) /\ IsTended(h)
    BY <1>1 DEF Tended, Live, Open
  <2>2. CASE ops[h] # None
    <3>1. entry[h].mgr = mgr /\ mgr # None
      BY <2>1, <2>2, ServiceTyped DEF SessionsInv, PlacesInv, OpsInPlace, Live, SignInInv, ServiceInv
    <3> QED
      BY <1>1, <3>1 DEF IsTended
  <2>3. CASE ops[h] = None
    BY <1>1, <2>1, <2>3 DEF IsTended, Wields, Doomed, ViewFree
  <2> QED
    BY <2>2, <2>3
<1> QED
  BY <1>1, <1>3, <1>4, CallingRests

LEMMA CloseManagerFollows ==
  ASSUME SignInInv, FollowInv, SignInInv', CloseManager
  PROVE  FollowInv'
<1> USE DEF FollowInv
<1>1. UNCHANGED <<gen, view, mgr, ops, req, sweep, ending, carried>> /\ lock.pc = "close" /\ Close(lock.mgr)
  BY DEF CloseManager
<1>2. PICK m \in Managers : lock.mgr = m
  BY <1>1 DEF SignInInv, ServiceInv
<1>3. Keeps /\ flight' = flight
  BY <1>1, <1>2, ManagersKeep DEF SignInInv
<1>4. \A h \in Handles : Open(h)' => entry[h].mgr # m
  BY <1>1, <1>2, CloseShuts DEF SignInInv
<1>5. gen' >= gen
  BY <1>1, ServiceTyped
<1>6. SessionsInv'
  BY <1>1, <1>3, <1>5, Lessening
<1>7. Tended'
  <2> SUFFICES ASSUME NEW h \in Handles, Live(h)'
               PROVE  IsTended(h)'
    BY DEF Tended
  <2>1. IsTended(h) /\ Kept(h) /\ entry[h].mgr # m
    BY <1>1, <1>3, <1>4 DEF Tended, Keeps, Kept, Live
  <2> QED
    BY <1>1, <1>2, <2>1 DEF IsTended, Wields, Doomed, ViewFree, Kept
<1> QED
  BY <1>1, <1>3, <1>6, <1>7, CallingRests

(* A new window has a capability that nothing was ever bound to.             *)
LEMMA OpenViewFollows ==
  ASSUME SignInInv, FollowInv, NEW t \in Tokens, OpenView(t)
  PROVE  FollowInv'
<1> USE ServiceTyped DEF FollowInv, SessionsInv, PlacesInv, MatchInv, AgesInv
<1>1. /\ UNCHANGED <<entry, flight, gen, mgr, req, sweep, ending, lock, carried>>
      /\ view = None /\ ending = None /\ view' = [token |-> t, lease |-> gen, cap |-> gen]
      /\ \A b \in {entry[h].binding : h \in Handles} \cup {req[c].binding : c \in Calls} : b # None => b.token # t
      /\ ops' = [h \in Handles |-> IF ops[h] \in [gen : Gens, token : {t}] THEN None ELSE ops[h]]
  BY DEF OpenView, ViewFree, flowVars
<1>2. \A h \in Handles : (Open(h)' <=> Open(h)) /\ (Live(h)' <=> Live(h)) /\ (ops'[h] = ops[h] \/ ops'[h] = None)
  BY <1>1 DEF Live, Open
<1>3. \A h \in Handles : Open(h) => entry[h].binding.token # t
  <2> SUFFICES ASSUME NEW h \in Handles, Open(h)
               PROVE  entry[h].binding.token # t
    OBVIOUS
  <2>1. entry[h].binding \in Bindings
    OBVIOUS
  <2> QED
    BY <1>1, <2>1
<1>4. \A h \in Handles : Live(h) => ops'[h] = ops[h] /\ (ops[h] # None => ops[h].token # t)
  <2> SUFFICES ASSUME NEW h \in Handles, Live(h), ops[h] # None
               PROVE  ops'[h] = ops[h] /\ ops[h].token # t
    BY <1>1
  <2>1. ops[h].token # t
    BY <1>3 DEF OpsMatch, Live
  <2> QED
    BY <1>1, <2>1
<1>5. Doomed' = {} /\ Doomed = {}
  BY <1>1 DEF Doomed, ViewFree
<1>6. BeginsAlone'
  BY <1>1, <1>2, <1>5 DEF BeginsAlone, OwnSession
<1>7. Answers' /\ ConsumedIsGone'
  BY <1>1, <1>2 DEF Answers, ConsumedIsGone
<1>8. PlacesInv'
  BY <1>1, <1>2, <1>5 DEF OpsInPlace, DoomedInPlace, HandsInPlace, Has
<1>9. HandsMatch' /\ DoomedMatch'
  BY <1>1, <1>2, <1>5 DEF HandsMatch, DoomedMatch, Has
<1>10. view'.token = t /\ view'.lease = gen /\ view'.cap = gen
  BY <1>1
<1>11. OpsMatch'
  <2> SUFFICES ASSUME NEW h \in Handles, Live(h), ops'[h] # None
               PROVE  ops'[h].token = entry[h].binding.token /\ (Split(h)' => AheadFits(h)')
    BY <1>1, <1>2 DEF OpsMatch
  <2>1. ops'[h] = ops[h] /\ ops[h].token # t
    BY <1>4
  <2>2. Split(h)' <=> Split(h)
    BY <1>1, <2>1 DEF Split
  <2>3. AheadFits(h) => AheadFits(h)'
    BY <1>1, <1>10, <2>1 DEF AheadFits
  <2> QED
    BY <2>1, <2>2, <2>3 DEF OpsMatch
<1>12. SweepAges'
  BY <1>1, <1>10 DEF SweepAges
<1>13. \A b \in Bindings : Fresh(b) /\ b.token # t => Fresh(b)'
  BY <1>1, <1>10 DEF Fresh, Outdated, Carrying
<1>14. OpsFresh'
  <2> SUFFICES ASSUME NEW h \in Handles, Live(h), ops'[h] # None
               PROVE  Fresh(ops[h])'
    BY <1>2 DEF OpsFresh
  <2>1. ops'[h] = ops[h] /\ ops[h].token # t /\ Fresh(ops[h]) /\ ops[h] \in Bindings
    BY <1>4 DEF OpsFresh
  <2> QED
    BY <1>1, <1>10, <2>1 DEF Fresh, Outdated, Carrying
<1>15. HandsFresh'
  <2> SUFFICES ASSUME NEW c \in Calls, NEW h \in Handles, req[c].pc = "checked", req[c].op = "begin",
                      req[c].handle = h, req[c].mgr = mgr, Live(h)
               PROVE  Fresh(req[c].binding)'
    BY <1>1, <1>2 DEF HandsFresh
  <2>1. req[c].binding \in Bindings
    OBVIOUS
  <2>2. req[c].binding.token # t /\ Fresh(req[c].binding)
    BY <1>1, <2>1 DEF HandsFresh
  <2> QED
    BY <1>1, <1>10, <2>1, <2>2 DEF Fresh, Outdated, Carrying
<1>16. Tended'
  BY <1>1, <1>2, <1>4, <1>5 DEF Tended, IsTended, Wields
<1>17. Calling'
  BY <1>1, CallingRests
<1> QED
  BY <1>6, <1>7, <1>8, <1>9, <1>11, <1>12, <1>14, <1>15, <1>16, <1>17

(* A window that closes takes what the service follows for it, and knows the *)
(* binding that the manager has for each of them.                            *)
LEMMA EndViewFollows ==
  ASSUME SignInInv, FollowInv, EndView
  PROVE  FollowInv'
<1> USE ServiceTyped DEF FollowInv, SessionsInv, PlacesInv, MatchInv, AgesInv
<1> DEFINE b == [gen |-> view.lease, token |-> view.token]
           mine == {h \in Handles : ops[h] = b}
<1>1. /\ UNCHANGED <<entry, flight, gen, view, mgr, req, sweep, lock, carried>>
      /\ view # None /\ view.lease = view.cap /\ ending = None
      /\ ending' = [todo |-> mine, mgr |-> mgr, binding |-> b]
      /\ \A h \in Handles : ops'[h] = IF h \in mine THEN None ELSE ops[h]
  BY DEF EndView, ViewFree, flowVars
<1>2. b \in Bindings /\ b.gen = view.lease /\ b.token = view.token
  BY <1>1 DEF Bindings, SignInInv, ServiceInv, View
<1>3. \A h \in mine : h \in Handles /\ ops[h] = b /\ ops[h] # None
  BY <1>2
<1>4. ending' # None /\ ending'.todo = mine /\ ending'.mgr = mgr /\ ending'.binding = b
  <2>1. ending' \in Ending
    BY <1>1, <1>2 DEF Ending, SignInInv, ServiceInv
  <2> QED
    BY <1>1, <2>1, NoneIsNoWindow
<1>5. Doomed = {} /\ Doomed' = mine
  BY <1>1, <1>4 DEF Doomed, ViewFree
<1> HIDE DEF mine, b
<1>6. \A h \in Handles : (Open(h)' <=> Open(h)) /\ (Live(h)' <=> Live(h))
  BY <1>1 DEF Live, Open
<1>7. BeginsAlone'
  BY <1>1, <1>3, <1>5, <1>6 DEF BeginsAlone, OwnSession
<1>8. Answers' /\ ConsumedIsGone'
  BY <1>1, <1>6 DEF Answers, ConsumedIsGone
<1>9. OpsInPlace' /\ HandsInPlace' /\ HandsMatch'
  BY <1>1, <1>6 DEF OpsInPlace, HandsInPlace, HandsMatch, Has
<1>10. DoomedInPlace'
  BY <1>1, <1>3, <1>4, <1>5, <1>6 DEF DoomedInPlace, OpsInPlace
<1>11. DoomedMatch'
  <2> SUFFICES ASSUME NEW h \in mine, Live(h)
               PROVE  entry[h].binding = b
    BY <1>1, <1>3, <1>4, <1>5, <1>6 DEF DoomedMatch
  <2>1. ops[h] = b /\ h \in Handles /\ entry[h].binding \in Bindings
    BY <1>3 DEF Live
  <2>2. b.token = entry[h].binding.token /\ (Split(h) => AheadFits(h))
    BY <1>3, <2>1 DEF OpsMatch
  <2>3. ~Split(h)
    BY <1>1, <1>2, <2>1, <2>2 DEF AheadFits
  <2> QED
    BY <1>2, <2>1, <2>2, <2>3, SameBindings DEF Split
<1>12. OpsMatch'
  <2> SUFFICES ASSUME NEW h \in Handles, Live(h), ops'[h] # None
               PROVE  ops'[h].token = entry[h].binding.token /\ (Split(h)' => AheadFits(h)')
    BY <1>1, <1>6 DEF OpsMatch
  <2>1. ops'[h] = ops[h]
    BY <1>1
  <2>2. Split(h)' <=> Split(h)
    BY <1>1, <2>1 DEF Split
  <2>3. AheadFits(h) => AheadFits(h)'
    BY <1>1, <2>1 DEF AheadFits
  <2> QED
    BY <2>1, <2>2, <2>3 DEF OpsMatch
<1>13. SweepAges'
  BY <1>1, <1>2, <1>4 DEF SweepAges
<1>14. OpsFresh'
  <2> SUFFICES ASSUME NEW h \in Handles, Live(h), ops'[h] # None
               PROVE  Fresh(ops[h])'
    BY <1>6 DEF OpsFresh
  <2>1. ops'[h] = ops[h] /\ Fresh(ops[h])
    BY <1>1 DEF OpsFresh
  <2> QED
    BY <1>1, <2>1 DEF Fresh, Outdated, Carrying
<1>15. HandsFresh'
  <2> SUFFICES ASSUME NEW c \in Calls, NEW h \in Handles, req[c].pc = "checked", req[c].op = "begin",
                      req[c].handle = h, req[c].mgr = mgr, Live(h)
               PROVE  Fresh(req[c].binding)'
    BY <1>1, <1>6 DEF HandsFresh
  <2>1. Fresh(req[c].binding)
    BY DEF HandsFresh
  <2> QED
    BY <1>1, <2>1 DEF Fresh, Outdated, Carrying
<1>16. Tended'
  <2> SUFFICES ASSUME NEW h \in Handles, Live(h)
               PROVE  IsTended(h)'
    BY <1>6 DEF Tended
  <2>1. IsTended(h)
    BY DEF Tended
  <2>2. CASE h \in mine
    BY <1>5, <2>2 DEF IsTended
  <2>3. CASE h \notin mine
    BY <1>1, <1>5, <2>1, <2>3 DEF IsTended, Wields
  <2> QED
    BY <2>2, <2>3
<1>17. Calling'
  BY <1>1, CallingRests
<1> QED
  BY <1>7, <1>8, <1>9, <1>10, <1>11, <1>12, <1>13, <1>14, <1>15, <1>16, <1>17

-----------------------------------------------------------------------------
(* The renewal.  What moves no session and no operation.                     *)
LEMMA Sweeping ==
  ASSUME SignInInv, FollowInv, UNCHANGED <<entry, flight, req, mgr, ops, ending, lock, carried>>,
         sweep.pc # "manager", SweepAges', \A b \in Bindings : Fresh(b) => Fresh(b)'
  PROVE  FollowInv'
<1> USE ServiceTyped DEF FollowInv, SessionsInv, PlacesInv, MatchInv, AgesInv
<1>1. \A h \in Handles : (Open(h)' <=> Open(h)) /\ (Live(h)' <=> Live(h))
  BY DEF Live, Open
<1>2. Doomed' = Doomed
  BY DEF Doomed, ViewFree
<1>3. BeginsAlone' /\ Answers' /\ ConsumedIsGone'
  BY <1>1, <1>2 DEF BeginsAlone, OwnSession, Answers, ConsumedIsGone
<1>4. PlacesInv' /\ HandsMatch' /\ DoomedMatch'
  BY <1>1, <1>2 DEF OpsInPlace, DoomedInPlace, HandsInPlace, HandsMatch, DoomedMatch, Has
<1>5. OpsMatch'
  <2> SUFFICES ASSUME NEW h \in Handles, Live(h), ops[h] # None
               PROVE  ops[h].token = entry[h].binding.token /\ ~Split(h)'
    BY <1>1 DEF OpsMatch
  <2>1. Split(h)' <=> Split(h)
    BY DEF Split
  <2> QED
    BY <2>1 DEF OpsMatch, AheadFits
<1>6. OpsFresh' /\ HandsFresh'
  <2>1. ASSUME NEW b \in Bindings, Fresh(b)
        PROVE  Fresh(b)'
    BY <2>1
  <2>2. OpsFresh'
    <3> SUFFICES ASSUME NEW h \in Handles, Live(h), ops[h] # None
                 PROVE  Fresh(ops[h])'
      BY <1>1 DEF OpsFresh
    <3>1. PICK b \in Bindings : ops[h] = b /\ ops'[h] = b
      OBVIOUS
    <3>2. Fresh(b)'
      BY <2>1, <3>1 DEF OpsFresh
    <3> QED
      BY <3>1, <3>2 DEF Fresh
  <2>3. HandsFresh'
    <3> SUFFICES ASSUME NEW c \in Calls, NEW h \in Handles, req[c].pc = "checked", req[c].op = "begin",
                        req[c].handle = h, req[c].mgr = mgr, Live(h)
                 PROVE  Fresh(req[c].binding)'
      BY <1>1 DEF HandsFresh
    <3>1. PICK b \in Bindings : req[c].binding = b /\ req'[c].binding = b
      OBVIOUS
    <3>2. Fresh(b)'
      BY <2>1, <3>1 DEF HandsFresh
    <3> QED
      BY <3>1, <3>2 DEF Fresh
  <2> QED
    BY <2>2, <2>3
<1>7. Tended'
  BY <1>1, <1>2 DEF Tended, IsTended, Wields
<1>8. Calling'
  BY CallingRests
<1> QED
  BY <1>3, <1>4, <1>5, <1>6, <1>7, <1>8

LEMMA SweepsFollow ==
  ASSUME SignInInv, FollowInv, SignInInv', Renew \/ ReadGeneration \/ CarryLease \/ CarryGrant
  PROVE  FollowInv'
<1> USE ServiceTyped DEF FollowInv, SessionsInv, AgesInv
<1>1. UNCHANGED <<entry, flight, req, mgr, ops, ending, lock, carried>> /\ sweep.pc # "manager"
  BY DEF Renew, ReadGeneration, CarryLease, CarryGrant, flowVars
<1>2. /\ gen \in Nat /\ gen' \in Nat /\ sweep.gen \in Nat /\ sweep'.gen \in Nat
      /\ \A b \in Bindings : b.gen \in Nat
  BY DEF SignInInv, ServiceInv, Bindings
<1>3. CASE Renew
  <2>1. gen' = gen + 1 /\ view' = view /\ sweep.pc = "idle" /\ sweep'.pc = "read" /\ sweep'.gen = sweep.gen
    BY <1>3 DEF Renew, SignInInv, ServiceInv
  <2>2. SweepAges'
    BY <1>2, <2>1 DEF SweepAges
  <2>3. \A b \in Bindings : Fresh(b) => Fresh(b)'
    BY <1>2, <2>1 DEF Fresh, Outdated, Carrying
  <2> QED
    BY <1>1, <2>2, <2>3, Sweeping
<1>4. CASE ReadGeneration
  <2>1. gen' = gen /\ view' = view /\ sweep.pc = "read" /\ sweep'.pc = "lease" /\ sweep'.gen = gen
    BY <1>4 DEF ReadGeneration, SignInInv, ServiceInv
  <2>2. SweepAges'
    BY <1>2, <2>1 DEF SweepAges
  <2>3. \A b \in Bindings : Fresh(b) => Fresh(b)'
    BY <1>2, <2>1 DEF Fresh, Outdated, Carrying
  <2> QED
    BY <1>1, <2>2, <2>3, Sweeping
<1>5. CASE CarryLease
  <2>1. /\ gen' = gen /\ sweep.pc = "lease" /\ sweep'.pc = "ops" /\ sweep'.gen = sweep.gen /\ ending = None
        /\ view' = IF view = None THEN None ELSE [view EXCEPT !.lease = sweep.gen]
    BY <1>5 DEF CarryLease, SignInInv, ServiceInv, ViewFree
  <2>2. view' # None => view # None /\ view'.lease = sweep.gen /\ view'.cap = view.cap /\ view'.token = view.token
    BY <2>1 DEF SignInInv, ServiceInv, View
  <2>3. SweepAges'
    BY <1>1, <1>2, <2>1, <2>2 DEF SweepAges
  <2>4. \A b \in Bindings : Fresh(b) => Fresh(b)'
    BY <1>2, <2>1, <2>2 DEF Fresh, Outdated, Carrying
  <2> QED
    BY <1>1, <2>3, <2>4, Sweeping
<1>6. CASE CarryGrant
  <2>1. /\ gen' = gen /\ sweep.pc = "cap" /\ sweep'.pc = "idle"
        /\ view' = IF view = None THEN None ELSE [view EXCEPT !.cap = sweep.gen]
    BY <1>6 DEF CarryGrant, NoSweep
  <2>2. view' # None => view # None /\ view'.cap = sweep.gen /\ view'.lease = view.lease /\ view'.token = view.token
    BY <2>1 DEF SignInInv, ServiceInv, View
  <2>3. SweepAges'
    BY <1>2, <2>1, <2>2 DEF SweepAges
  <2>4. ASSUME NEW b \in Bindings, Fresh(b)
        PROVE  Fresh(b)'
    <3>1. b.gen <= gen /\ b.gen >= sweep.gen /\ sweep.gen <= gen /\ b.gen \in Nat
      BY <1>2, <2>1, <2>4 DEF Fresh, Carrying, SweepAges
    <3>2. ~Carrying'
      BY <2>1 DEF Carrying
    <3>3. view' # None => b.gen = view'.cap \/ Outdated'
      BY <1>2, <2>1, <2>2, <3>1 DEF Outdated
    <3> QED
      BY <2>1, <3>1, <3>2, <3>3 DEF Fresh
  <2> QED
    BY <1>1, <2>3, <2>4, Sweeping
<1> QED
  BY <1>3, <1>4, <1>5, <1>6

(* An open session is one of its manager's, and a renewal sees whether a     *)
(* call has it.                                                              *)
LEMMA HeldIsCarried ==
  ASSUME SignInInv, NEW h \in Handles, Open(h), Held(h)
  PROVE  h \in InHand(entry[h].mgr)
  BY DEF SignInInv, FlowInv, OpenIsListed, Open, InHand

(* The service's half: whoever has a session in hand is left behind, and the *)
(* window cannot ask for what is on the new generation before its grant is.  *)
LEMMA CarryOpsFollows ==
  ASSUME SignInInv, FollowInv, CarryOps
  PROVE  FollowInv'
<1> USE ServiceTyped DEF FollowInv, SessionsInv, PlacesInv, MatchInv, AgesInv
<1>1. /\ UNCHANGED <<entry, flight, gen, view, mgr, req, ending, lock>> /\ sweep.pc = "ops"
      /\ sweep' = [sweep EXCEPT !.pc = IF mgr = None THEN "cap" ELSE "manager", !.mgr = mgr]
      /\ \A h \in Handles : ops'[h] = IF ops[h] = None THEN None ELSE [ops[h] EXCEPT !.gen = sweep.gen]
      /\ carried' = carried \cup IF mgr = None THEN {} ELSE InHand(mgr)
  BY DEF CarryOps, flowVars
<1>2. /\ sweep'.pc = IF mgr = None THEN "cap" ELSE "manager"
      /\ sweep'.mgr = mgr /\ sweep'.gen = sweep.gen /\ sweep.gen <= gen
  BY <1>1 DEF SignInInv, ServiceInv, SweepAges
<1>3. \A h \in Handles : ops[h] # None =>
         ops'[h] \in Bindings /\ ops'[h].gen = sweep.gen /\ ops'[h].token = ops[h].token
  <2> SUFFICES ASSUME NEW h \in Handles, ops[h] # None
               PROVE  ops'[h] \in Bindings /\ ops'[h].gen = sweep.gen /\ ops'[h].token = ops[h].token
    OBVIOUS
  <2>1. ops[h] \in Bindings /\ ops'[h] = [ops[h] EXCEPT !.gen = sweep.gen] /\ sweep.gen \in Gens
    BY <1>1
  <2> QED
    BY <2>1 DEF Bindings
<1>4. \A h \in Handles : (ops'[h] = None <=> ops[h] = None) /\ (Open(h)' <=> Open(h)) /\ (Live(h)' => Live(h))
  BY <1>1, <1>3 DEF Live, Open
<1>5. \A h \in Handles : mgr # None /\ Live(h)' /\ entry[h].mgr = mgr => ~Held(h)
  BY <1>1, HeldIsCarried DEF Live, Open
<1>6. Doomed' = Doomed
  BY <1>1 DEF Doomed, ViewFree
<1>7. BeginsAlone' /\ Answers' /\ ConsumedIsGone'
  BY <1>1, <1>4, <1>6 DEF BeginsAlone, OwnSession, Answers, ConsumedIsGone
<1>8. OpsInPlace' /\ DoomedInPlace' /\ HandsInPlace' /\ HandsMatch' /\ DoomedMatch'
  BY <1>1, <1>4, <1>6 DEF OpsInPlace, DoomedInPlace, HandsInPlace, HandsMatch, DoomedMatch, Has
<1>9. OpsMatch'
  <2> SUFFICES ASSUME NEW h \in Handles, Live(h)', ops[h] # None
               PROVE  ops'[h].token = entry[h].binding.token /\ (Split(h)' => AheadFits(h)')
    BY <1>1, <1>4 DEF OpsMatch
  <2>1. Live(h) /\ ops[h] \in Bindings
    BY <1>4
  <2>2. ops[h].token = entry[h].binding.token /\ Fresh(ops[h]) /\ ~Split(h)
    BY <1>1, <2>1 DEF OpsMatch, OpsFresh, AheadFits
  <2>3. entry[h].mgr = mgr /\ mgr # None
    BY <2>1 DEF OpsInPlace, SignInInv, ServiceInv, Live
  <2>4. Split(h)' => ops[h].gen # sweep.gen
    BY <1>1, <1>3, <2>2 DEF Split
  <2>5. view # None /\ view.token = ops[h].token /\ ops[h].gen # sweep.gen => view.cap # sweep.gen
    BY <1>1, <2>2 DEF Fresh, Carrying, Outdated
  <2>6. \A c \in Calls : req[c].handle # h
    BY <1>5, <2>3 DEF Held
  <2> QED
    BY <1>1, <1>2, <1>3, <2>2, <2>3, <2>4, <2>5, <2>6 DEF AheadFits
<1>10. SweepAges'
  BY <1>1, <1>2 DEF SweepAges
<1>11. OpsFresh'
  <2> SUFFICES ASSUME NEW h \in Handles, Live(h)', ops[h] # None
               PROVE  Fresh(ops[h])'
    BY <1>4 DEF OpsFresh
  <2> QED
    BY <1>1, <1>2, <1>3 DEF Fresh, Carrying
<1>12. HandsFresh'
  <2> SUFFICES ASSUME NEW c \in Calls, NEW h \in Handles, req[c].pc = "checked", req[c].op = "begin",
                      req[c].handle = h, req[c].mgr = mgr, Live(h)'
               PROVE  FALSE
    BY <1>1 DEF HandsFresh
  <2>1. req[c].mgr \in Managers /\ Has(c, h) /\ Open(h)
    BY <1>4 DEF WithManager, Has, Live
  <2>2. entry[h].mgr = mgr /\ mgr # None
    BY <2>1 DEF HandsInPlace
  <2> QED
    BY <1>5, <2>2 DEF Held
<1>13. Tended'
  BY <1>1, <1>4, <1>6 DEF Tended, IsTended, Wields
<1>14. Calling'
  BY <1>1, CallingRests
<1> QED
  BY <1>7, <1>8, <1>9, <1>10, <1>11, <1>12, <1>13, <1>14

(* The manager's half: the generations agree again, unless another write has *)
(* moved on what the renewal moves back.                                     *)
LEMMA CarryManagerFollows ==
  ASSUME SignInInv, FollowInv, CarryManager
  PROVE  FollowInv'
<1> USE ServiceTyped DEF FollowInv, SessionsInv, PlacesInv, MatchInv, AgesInv
<1>1. /\ UNCHANGED <<gen, view, mgr, ops, req, ending, lock>> /\ sweep.pc = "manager"
      /\ sweep' = [sweep EXCEPT !.pc = "cap"] /\ Rebind(sweep.mgr, sweep.gen)
      /\ carried' = carried \cup InHand(sweep.mgr) \cup Overtaken(sweep.mgr)
  BY DEF CarryManager
<1>2. sweep'.pc = "cap" /\ sweep'.gen = sweep.gen /\ sweep.gen <= gen
  BY <1>1 DEF SignInInv, ServiceInv, SweepAges
<1>3. PICK m \in Managers : sweep.mgr = m
  BY <1>1 DEF SignInInv, ServiceInv
<1>4. /\ flight' = flight
      /\ \A h \in Handles : Open(h)' =>
            /\ Open(h) /\ entry'[h].mgr = entry[h].mgr /\ entry'[h].tokens = entry[h].tokens
            /\ entry'[h].binding \in Bindings /\ entry'[h].binding.token = entry[h].binding.token
            /\ IF entry[h].mgr = m THEN entry'[h].binding.gen = sweep.gen ELSE entry'[h].binding = entry[h].binding
  BY <1>1, <1>3, RebindKeeps DEF SignInInv
<1>5. \A h \in Handles : Live(h)' => Live(h)
  BY <1>1, <1>4 DEF Live
<1>6. ASSUME NEW h \in Handles, Live(h)', entry[h].mgr = m
      PROVE  /\ ~Held(h)
             /\ entry[h].binding.gen > sweep.gen => ops[h] = [entry[h].binding EXCEPT !.gen = sweep.gen]
  <2>1. h \in sessions[m] /\ h \notin InHand(m) /\ h \notin Overtaken(m)
    BY <1>1, <1>3, <1>5, <1>6 DEF Live, Open, SignInInv, FlowInv, OpenIsListed
  <2> QED
    BY <2>1 DEF InHand, Overtaken
<1>7. Doomed' = Doomed
  BY <1>1 DEF Doomed, ViewFree
<1>8. BeginsAlone' /\ Answers' /\ ConsumedIsGone'
  BY <1>1, <1>4, <1>7 DEF BeginsAlone, OwnSession, Answers, ConsumedIsGone
<1>9. OpsInPlace' /\ DoomedInPlace' /\ HandsInPlace'
  BY <1>1, <1>4, <1>7 DEF OpsInPlace, DoomedInPlace, HandsInPlace, Has
<1>10. HandsMatch'
  <2> SUFFICES ASSUME NEW c \in Calls, NEW h \in Handles, Has(c, h), Live(h)'
               PROVE  req[c].binding = entry'[h].binding
    BY <1>1 DEF HandsMatch, Has
  <2>1. entry[h].mgr # m
    BY <1>6 DEF Has, Held
  <2> QED
    BY <1>4, <1>5, <2>1 DEF HandsMatch, Live
<1>11. \A h \in Handles, b \in Bindings : [entry[h].binding EXCEPT !.gen = sweep.gen] = b => b.gen = sweep.gen \/ ~Open(h)
  BY DEF Bindings
<1>12. DoomedMatch'
  <2> SUFFICES ASSUME NEW h \in Doomed, Live(h)'
               PROVE  entry'[h].binding = ending.binding
    BY <1>1, <1>7 DEF DoomedMatch
  <2>1. h \in Handles /\ Live(h) /\ ops[h] = None /\ entry[h].binding = ending.binding /\ ending # None
    BY <1>5 DEF DoomedMatch, Doomed, ViewFree
  <2>2. entry[h].binding \in Bindings /\ entry[h].binding.gen \in Nat /\ [entry[h].binding EXCEPT !.gen = sweep.gen] \in Bindings
    BY <2>1 DEF Live, Bindings
  <2>3. CASE entry[h].mgr = m
    <3>1. ~(entry[h].binding.gen > sweep.gen)
      BY <1>6, <2>1, <2>2, <2>3
    <3>2. entry[h].binding.gen >= sweep.gen
      BY <1>1, <2>1 DEF SweepAges
    <3>3. entry[h].binding.gen = sweep.gen
      BY <2>2, <3>1, <3>2
    <3> QED
      BY <1>4, <2>1, <2>2, <2>3, <3>3, SameBindings DEF Live
  <2>4. CASE entry[h].mgr # m
    BY <1>4, <2>1, <2>4 DEF Live
  <2> QED
    BY <2>3, <2>4
<1>13. OpsMatch'
  <2> SUFFICES ASSUME NEW h \in Handles, Live(h)', ops[h] # None
               PROVE  ops[h].token = entry'[h].binding.token /\ ~Split(h)'
    BY <1>1 DEF OpsMatch
  <2>1. Live(h) /\ Open(h)' /\ ops[h] \in Bindings /\ entry[h].binding \in Bindings
    BY <1>4, <1>5 DEF Live
  <2>2. /\ ops[h].token = entry[h].binding.token /\ (Split(h) => AheadFits(h)) /\ Fresh(ops[h])
        /\ ops[h].gen \in Nat
    BY <2>1 DEF OpsMatch, OpsFresh, Bindings
  <2>3. CASE entry[h].mgr = m
    <3>1. entry'[h].binding.gen = sweep.gen
      BY <1>4, <2>1, <2>3
    <3>2. CASE Split(h)
      BY <1>1, <1>4, <2>1, <2>2, <3>1, <3>2 DEF AheadFits, Split
    <3>3. CASE ~Split(h)
      <4>1. ops[h].gen = entry[h].binding.gen /\ ops[h].gen >= sweep.gen
        BY <1>1, <2>2, <3>3 DEF Split, Fresh, Carrying
      <4>2. ops[h].gen = sweep.gen
        <5> SUFFICES ASSUME ops[h].gen > sweep.gen
                     PROVE  FALSE
          BY <2>2, <4>1
        <5>1. ops[h] = [entry[h].binding EXCEPT !.gen = sweep.gen]
          BY <1>6, <2>3, <4>1
        <5>2. ops[h].gen = sweep.gen
          BY <2>1, <5>1 DEF Bindings
        <5> QED
          BY <2>2, <5>2
      <4> QED
        BY <1>1, <1>4, <2>1, <2>2, <3>1, <4>2 DEF Split
    <3> QED
      BY <1>4, <2>1, <2>2, <3>2, <3>3
  <2>4. CASE entry[h].mgr # m
    <3>1. ~Split(h) /\ entry'[h].binding = entry[h].binding
      BY <1>3, <1>4, <2>1, <2>2, <2>4 DEF AheadFits
    <3> QED
      BY <1>1, <2>2, <3>1 DEF Split
  <2> QED
    BY <2>3, <2>4
<1>14. SweepAges'
  BY <1>1, <1>2 DEF SweepAges
<1>15. OpsFresh'
  <2> SUFFICES ASSUME NEW h \in Handles, Live(h), ops[h] # None
               PROVE  Fresh(ops[h])'
    BY <1>1, <1>5 DEF OpsFresh
  <2>1. Fresh(ops[h])
    BY DEF OpsFresh
  <2> QED
    BY <1>1, <1>2, <2>1 DEF Fresh, Carrying
<1>16. HandsFresh'
  <2> SUFFICES ASSUME NEW c \in Calls, NEW h \in Handles, req[c].pc = "checked", req[c].op = "begin",
                      req[c].handle = h, req[c].mgr = mgr, Live(h)
               PROVE  Fresh(req[c].binding)'
    BY <1>1, <1>5 DEF HandsFresh
  <2>1. Fresh(req[c].binding)
    BY DEF HandsFresh
  <2> QED
    BY <1>1, <1>2, <2>1 DEF Fresh, Carrying
<1>17. Tended'
  <2> SUFFICES ASSUME NEW h \in Handles, Live(h)'
               PROVE  IsTended(h)'
    BY DEF Tended
  <2>1. IsTended(h) /\ entry'[h].mgr = entry[h].mgr /\ entry'[h].tokens = entry[h].tokens
    BY <1>4, <1>5 DEF Tended, Live
  <2> QED
    BY <1>1, <1>7, <2>1 DEF IsTended, Wields
<1>18. Calling'
  BY <1>1, <1>4, CallingRests
<1> QED
  BY <1>8, <1>9, <1>10, <1>12, <1>13, <1>14, <1>15, <1>16, <1>17, <1>18

LEMMA FollowInitial == Init => FollowInv
<1> SUFFICES ASSUME Init
             PROVE  FollowInv
  OBVIOUS
<1>1. /\ \A h \in Handles : ~Open(h) /\ ops[h] = None
      /\ \A c \in Calls : req[c] = NoReq /\ flight[c] = NoFlight
      /\ view = None /\ ending = None /\ sweep.pc = "idle"
  BY DEF Init, FlowInit, Open, NoEntry, NoSweep
<1>2. NoReq.pc = "idle" /\ NoReq.handle = None /\ \A h \in Handles : NoReq.handle # h
  BY DEF NoReq
<1>3. Doomed = {}
  BY <1>1 DEF Doomed, ViewFree
<1>4. Calling
  BY <1>1, <1>2 DEF Calling, CallFits
<1>5. BeginsAlone /\ Answers /\ ConsumedIsGone
  BY <1>1, <1>2 DEF BeginsAlone, Answers, ConsumedIsGone
<1>6. PlacesInv /\ MatchInv
  BY <1>1, <1>3 DEF PlacesInv, MatchInv, OpsInPlace, DoomedInPlace, HandsInPlace, HandsMatch, DoomedMatch, OpsMatch, Live
<1>7. AgesInv
  BY <1>1, <1>2 DEF AgesInv, SweepAges, OpsFresh, HandsFresh, Live
<1>8. Tended
  BY <1>1 DEF Tended, Live
<1> QED
  BY <1>4, <1>5, <1>6, <1>7, <1>8 DEF FollowInv, SessionsInv

LEMMA FollowStep == SignInInv /\ SignInInv' /\ FollowInv /\ [Next]_vars => FollowInv'
<1> SUFFICES ASSUME SignInInv, SignInInv', FollowInv, [Next]_vars
             PROVE  FollowInv'
  OBVIOUS
<1>1. CASE UNCHANGED vars
  <2>1. UNCHANGED <<entry, flight, gen, view, mgr, ops, req, sweep, ending, lock, carried>>
    BY <1>1 DEF vars, flowVars, service
  <2>2. Keeps /\ Doomed' = Doomed /\ gen' >= gen
    BY <2>1, ServiceTyped DEF Keeps, Kept, Open, Doomed, ViewFree
  <2> QED
    BY <2>1, <2>2, LessFollows
<1>2. ASSUME NEW c \in Calls,
             \/ CallStep(c)
             \/ \E s \in Slots : BeginCall(c, s)
             \/ \E h \in Handles, kind \in {"operate", "cancel"} : HandleCall(c, h, kind)
      PROVE  FollowInv'
  BY <1>2, CallsFollow, AdmittedFollows
<1>3. CASE (\E t \in Tokens : OpenView(t)) \/ EndView \/ EndStep \/ Unlock
  BY <1>3, OpenViewFollows, EndViewFollows, EndCancelFollows, QuietFollow DEF EndStep
<1>4. CASE OtherWrite \/ StartLock \/ LockStep
  BY <1>4, QuietFollow, StartLockFollows, CloseManagerFollows DEF LockStep
<1>5. CASE (\E m \in Managers : Reap(m)) \/ \E h \in Handles : Expire(h)
  BY <1>5, QuietFollow
<1>6. CASE Renew \/ SweepStep
  BY <1>6, SweepsFollow, CarryOpsFollows, CarryManagerFollows DEF SweepStep
<1> QED
  BY <1>2, <1>3, <1>4, <1>5, <1>6, <1>1 DEF Next

LEMMA FollowAlways == Spec => []FollowInv
<1>1. SignInInv /\ SignInInv' /\ FollowInv /\ [Next]_vars => FollowInv'
  BY FollowStep
<1> QED
  BY <1>1, FollowInitial, SignInAlways, PTL DEF Spec

(* UnfollowedOnlyByRenewal: a sign-in that a manager keeps open always has   *)
(* somebody who goes on with it or closes it, and who can, knowing the       *)
(* manager's binding of it, whatever calls, windows, locks, other writes and *)
(* renewals do at the same time, for every number of them.  The exceptions   *)
(* are the ones named in carried, which a renewal makes.                     *)
THEOREM SignInsAreFollowed == Spec => []UnfollowedOnlyByRenewal
<1>1. ASSUME SignInInv, FollowInv
      PROVE  UnfollowedOnlyByRenewal
  <2> SUFFICES ASSUME NEW m \in Managers, NEW h \in Handles, h \notin carried, h \in sessions[m]
               PROVE  Followed(m, h)
    BY DEF UnfollowedOnlyByRenewal
  <2> USE <1>1, ServiceTyped DEF FollowInv, SessionsInv, PlacesInv, MatchInv
  <2>1. Live(h) /\ entry[h].mgr = m
    BY DEF Live, Open, SignInInv, FlowInv, ListedIsOpen
  <2>2. IsTended(h)
    BY <2>1 DEF Tended
  <2>3. CASE \E c \in Calls : Wields(c, h)
    BY <2>3 DEF Wields, Followed, Held
  <2>4. CASE h \in Doomed
    BY <2>1, <2>4 DEF Doomed, ViewFree, DoomedInPlace, Followed, Live
  <2>5. CASE lock.pc = "close" /\ lock.mgr = entry[h].mgr
    BY <2>1, <2>5 DEF Followed
  <2>6. CASE ops[h] # None /\ ~entry[h].tokens
    <3>1. /\ ops[h] \in Bindings /\ entry[h].binding \in Bindings
          /\ ops[h].token = entry[h].binding.token /\ (Split(h) => AheadFits(h))
      BY <2>1, <2>6 DEF OpsMatch, Live
    <3>2. CASE ~Split(h)
      <4>1. ops[h] = entry[h].binding
        BY <3>1, <3>2, SameBindings DEF Split
      <4> QED
        BY <2>6, <4>1 DEF Followed
    <3>3. CASE Split(h)
      <4>1. sweep.pc = "manager" /\ ops[h].gen = sweep.gen
        BY <3>1, <3>3 DEF AheadFits
      <4>2. ops[h] = [entry[h].binding EXCEPT !.gen = sweep.gen]
        BY <3>1, <4>1 DEF Bindings
      <4> QED
        BY <4>1, <4>2 DEF Followed
    <3> QED
      BY <3>2, <3>3
  <2> QED
    BY <2>2, <2>3, <2>4, <2>5, <2>6 DEF IsTended
<1> QED
  BY <1>1, SignInAlways, FollowAlways, PTL

===============================================================================
