--------------------------- MODULE PaymentProofs ---------------------------
(* Safety of Payment for every number of invoices, payments and handlers.  *)
EXTENDS Payment, TLAPS

(* The initial state satisfies the inductive invariant. *)
LEMMA InitIInv == Init => IInv
<1>1. Init => StraysTyped
    BY DEF Init, StraysTyped, Strays
<1> QED BY <1>1, NoneAssumption DEF Init, IInv, TypeOK, LockHeld, LockedUnpaid, AnnouncePending,
             AnnouncedOnce, SettledOnce, Statuses, PaymentStates, Places

(* A failing request of any kind stays well typed, and leaves the places *)
(* from which a step needs more than a request.                          *)
LEMMA FailTypes ==
    ASSUME TypeOK, NEW h \in Handlers, pc[h] # "idle",
           NEW why \in Reasons, Fail(h, why)
    PROVE  /\ pc' \in [Handlers -> Places]
           /\ req' \in [Handlers -> Requests \cup {None}]
           /\ pc'[h] \in {"idle", "record"}
           /\ pc'[h] # "idle" => req'[h] \in Requests
           /\ \A k \in Handlers \ {h} : pc'[k] = pc[k] /\ req'[k] = req[k]
BY DEF TypeOK, Fail, Finish, GoTo, Requests, Places, Reasons

(* Only a return writes down a stray; what was let in stays so, and no stray *)
(* is forgotten.                                                            *)
LEMMA StraysStay ==
    ASSUME StraysTyped, [Next]_vars
    PROVE  /\ StraysTyped'
           /\ \A p \in Payments : \A i \in Invoices :
                 /\ stray[p][i] # "none" => stray'[p][i] # "none"
                 /\ stray[p][i] = "let in" => stray'[p][i] = "let in"
<1> USE DEF StraysTyped, tellVars
<1>1. ASSUME NEW h \in Handlers, NEW i \in Invoices, Return(h, i)
      PROVE  \E p \in Payments : \E numbered \in BOOLEAN : NoteStray(p, i, numbered)
    BY <1>1 DEF Return, ReturnsTo
<1>2. ASSUME NEW i \in Invoices, NEW p \in Payments, NEW numbered \in BOOLEAN,
             NoteStray(p, i, numbered)
      PROVE  /\ StraysTyped'
             /\ \A q \in Payments : \A j \in Invoices :
                   /\ stray[q][j] # "none" => stray'[q][j] # "none"
                   /\ stray[q][j] = "let in" => stray'[q][j] = "let in"
    <2>1. CASE UNCHANGED stray
        BY <2>1
    <2>2. CASE stray' # stray
        <3>1. PICK v \in {"refused", "let in"} :
                  /\ stray' = [stray EXCEPT ![p][i] = v]
                  /\ stray[p][i] = "let in" => v = "let in"
            BY <1>2, <2>2 DEF NoteStray, Strays
        <3> QED BY <3>1 DEF Strays
    <2> QED BY <2>1, <2>2
<1>3. ASSUME NEW h \in Handlers, Arrive(h), ~\E i \in Invoices : Return(h, i) PROVE UNCHANGED stray
    BY <1>3 DEF Arrive, StartPay, ReturnWithoutRef, PortalVerify, RetryVerify, MarkPaid
<1>4. ASSUME NEW h \in Handlers, Proceed(h) PROVE UNCHANGED stray
    BY <1>4 DEF Proceed, CreatePayment, CreateRefused, SaveCode, Reread, Verify, LockRow, Commit,
                Announce, Record, Alert
<1>5. ASSUME NEW h \in Handlers, Disturb(h) PROVE UNCHANGED stray
    BY <1>5 DEF Disturb, VerifyTimeout, Rollback, RecordFails
<1>6. CASE (\E p \in Payments : Capture(p)) \/ (\E i \in Invoices : Cancel(i)) \/ Crash \/ UNCHANGED vars
    BY <1>6 DEF Capture, Cancel, Crash, vars
<1> QED BY <1>1, <1>2, <1>3, <1>4, <1>5, <1>6 DEF Next

(* Every step preserves the types. *)
LEMMA TypeStep == TypeOK /\ [Next]_vars => TypeOK'
<1> SUFFICES ASSUME TypeOK, [Next]_vars PROVE TypeOK'
    OBVIOUS
<1>0. StraysTyped'
    BY StraysStay DEF TypeOK
<1> USE NoneAssumption, <1>0
<1> USE DEF GoTo, Begin, Finish, Fault, Request, Coalesce, AllKinds
<1>1. ASSUME NEW h \in Handlers, NEW i \in Invoices, StartPay(h, i) PROVE TypeOK'
    BY <1>1 DEF TypeOK, StartPay, rowVars, tellVars, gatewayVars, boundVars,
                Requests, Places, Reasons
<1>2. ASSUME NEW h \in Handlers, CreatePayment(h) PROVE TypeOK'
    BY <1>2 DEF TypeOK, CreatePayment, rowVars, tellVars, boundVars,
                Requests, Places, PaymentStates
<1>3. ASSUME NEW h \in Handlers, CreateRefused(h) PROVE TypeOK'
    BY <1>3 DEF TypeOK, CreateRefused, rowVars, tellVars, gatewayVars, boundVars, Places
<1>4. ASSUME NEW h \in Handlers, SaveCode(h) PROVE TypeOK'
    <2>0. /\ req[h] \in Requests /\ req[h].inv \in Invoices /\ req[h].code \in Payments
        BY <1>4 DEF SaveCode, TypeOK, Requests
    <2>1. paymentCode' \in [Invoices -> Payments \cup {None}]
        BY <1>4, <2>0 DEF SaveCode, TypeOK
    <2>2. payment' \in [Payments -> PaymentStates]
        BY <1>4, <2>0 DEF SaveCode, TypeOK, PaymentStates
    <2> QED
        BY <1>4, <2>1, <2>2 DEF TypeOK, SaveCode, rowVars, tellVars, boundVars, Places
<1>5. ASSUME NEW p \in Payments, Capture(p) PROVE TypeOK'
    BY <1>5 DEF TypeOK, Capture, rowVars, tellVars, handlerVars, boundVars, PaymentStates
<1>6. ASSUME NEW h \in Handlers, NEW i \in Invoices, ReturnWithoutRef(h, i) PROVE TypeOK'
    BY <1>6 DEF TypeOK, ReturnWithoutRef, ReturnsTo, Codes, rowVars, tellVars, gatewayVars, boundVars,
                Requests, Places, Reasons
<1>7. ASSUME NEW h \in Handlers, NEW i \in Invoices, Return(h, i) PROVE TypeOK'
    BY <1>7 DEF TypeOK, Return, ReturnsTo, Codes, rowVars, tellVars, gatewayVars,
                boundVars, Requests, Places, Reasons
<1>8. ASSUME NEW h \in Handlers, NEW i \in Invoices, PortalVerify(h, i) PROVE TypeOK'
    BY <1>8 DEF TypeOK, PortalVerify, Codes, rowVars, tellVars, gatewayVars,
                boundVars, Requests, Places, Reasons
<1>9. ASSUME NEW h \in Handlers, NEW i \in Invoices, RetryVerify(h, i) PROVE TypeOK'
    BY <1>9 DEF TypeOK, RetryVerify, rowVars, tellVars, gatewayVars, boundVars,
                Requests, Places, Reasons
<1>10. ASSUME NEW h \in Handlers, NEW i \in Invoices, MarkPaid(h, i) PROVE TypeOK'
    BY <1>10 DEF TypeOK, MarkPaid, rowVars, tellVars, gatewayVars, boundVars,
                 Requests, Places, Reasons
<1>11. ASSUME NEW h \in Handlers, Reread(h) PROVE TypeOK'
    BY <1>11 DEF TypeOK, Reread, rowVars, tellVars, gatewayVars, boundVars,
                 Requests, Places
<1>12. ASSUME NEW h \in Handlers, Verify(h) PROVE TypeOK'
    <2>1. CASE Acceptable(h)
        BY <1>12, <2>1 DEF TypeOK, Verify, Accept, Acceptable, rowVars, tellVars,
                           boundVars, Requests, Places, PaymentStates
    <2>2. CASE ~Acceptable(h)
        <3>1. pc[h] # "idle" /\ "rejected" \in Reasons /\ Fail(h, "rejected")
            BY <1>12, <2>2 DEF Verify, Reasons
        <3> QED
            BY <1>12, <2>2, <3>1, FailTypes DEF TypeOK, Verify, rowVars, tellVars, boundVars
    <2> QED BY <2>1, <2>2
<1>13. ASSUME NEW h \in Handlers, VerifyTimeout(h) PROVE TypeOK'
    <2>1. pc[h] # "idle" /\ "lost" \in Reasons /\ Fail(h, "lost")
        BY <1>13 DEF VerifyTimeout, Reasons
    <2>2. payment' \in [Payments -> PaymentStates]
        BY <1>13 DEF TypeOK, VerifyTimeout, Accept, Acceptable, PaymentStates
    <2> QED
        BY <1>13, <2>1, <2>2, FailTypes DEF TypeOK, VerifyTimeout, rowVars, tellVars
<1>14. ASSUME NEW h \in Handlers, LockRow(h) PROVE TypeOK'
    <2>0. pc[h] = "settle" /\ req[h] \in Requests
          /\ status[req[h].inv] \in {"paid", "canceled", "unpaid"}
        BY <1>14 DEF LockRow, TypeOK, Requests, Statuses
    <2>1. CASE status[req[h].inv] = "paid"
        BY <1>14, <2>0, <2>1 DEF TypeOK, LockRow, rowVars, tellVars, gatewayVars,
                                 boundVars, Places
    <2>2. CASE status[req[h].inv] = "canceled"
        <3>1. Fail(h, "canceled") /\ UNCHANGED rowLock /\ "canceled" \in Reasons
            BY <1>14, <2>0, <2>2 DEF LockRow, Reasons
        <3> QED
            BY <1>14, <2>0, <3>1, FailTypes DEF TypeOK, LockRow, rowVars, tellVars,
                                                gatewayVars, boundVars
    <2>3. CASE status[req[h].inv] = "unpaid"
        BY <1>14, <2>0, <2>3 DEF TypeOK, LockRow, rowVars, tellVars, gatewayVars,
                                 boundVars, Places, Requests
    <2> QED BY <2>0, <2>1, <2>2, <2>3
<1>15. ASSUME NEW h \in Handlers, Commit(h) PROVE TypeOK'
    BY <1>15 DEF TypeOK, Commit, rowVars, tellVars, gatewayVars, boundVars,
                 Requests, Places, Statuses
<1>16. ASSUME NEW h \in Handlers, Rollback(h) PROVE TypeOK'
    <2>1. pc[h] # "idle" /\ "failed" \in Reasons /\ Fail(h, "failed")
        BY <1>16 DEF Rollback, Reasons
    <2> QED
        BY <1>16, <2>1, FailTypes DEF TypeOK, Rollback, rowVars, tellVars, gatewayVars
<1>17. ASSUME NEW h \in Handlers, Announce(h) PROVE TypeOK'
    BY <1>17 DEF TypeOK, Announce, rowVars, gatewayVars, boundVars, Requests, Places
<1>18. ASSUME NEW h \in Handlers, Record(h) PROVE TypeOK'
    <2>0. req[h] \in Requests /\ pc' = [pc EXCEPT ![h] = "alert"] /\ UNCHANGED req
        BY <1>18 DEF TypeOK, Record
    <2>1. paymentError' \in [Invoices -> BOOLEAN]
        BY <1>18 DEF TypeOK, Record
    <2>2. paymentRef' \in [Invoices -> Payments \cup {None}]
        BY <1>18, <2>0 DEF TypeOK, Record, Requests
    <2>3. paymentCode' \in [Invoices -> Payments \cup {None}]
        BY <1>18, <2>0 DEF TypeOK, Record, Requests
    <2> QED
        BY <1>18, <2>0, <2>1, <2>2, <2>3 DEF TypeOK, Record, rowVars, tellVars, gatewayVars,
                                 boundVars, Places
<1>19. ASSUME NEW h \in Handlers, RecordFails(h) PROVE TypeOK'
    BY <1>19 DEF TypeOK, RecordFails, rowVars, tellVars, gatewayVars, Places
<1>20. ASSUME NEW h \in Handlers, Alert(h) PROVE TypeOK'
    BY <1>20 DEF TypeOK, Alert, rowVars, gatewayVars, boundVars, Requests, Places
<1>21. ASSUME NEW i \in Invoices, Cancel(i) PROVE TypeOK'
    BY <1>21 DEF TypeOK, Cancel, rowVars, tellVars, gatewayVars, handlerVars,
                 boundVars, Statuses
<1>22. ASSUME Crash PROVE TypeOK'
    BY <1>22 DEF TypeOK, Crash, rowVars, tellVars, gatewayVars, Places
<1>23. ASSUME UNCHANGED vars PROVE TypeOK'
    BY <1>23 DEF TypeOK, vars, rowVars, tellVars, gatewayVars, handlerVars, boundVars
<1> QED
    BY <1>1, <1>2, <1>3, <1>4, <1>5, <1>6, <1>7, <1>8, <1>9, <1>10, <1>11, <1>12,
       <1>13, <1>14, <1>15, <1>16, <1>17, <1>18, <1>19, <1>20, <1>21, <1>22, <1>23
       DEF Next, Arrive, Proceed, Disturb

(***************************************************************************)
(* Most steps neither touch what SettledOnce speaks of, nor enter or leave *)
(* the transaction or the announcement: they are quiet.                    *)
(***************************************************************************)
Quiet(h) ==
    /\ UNCHANGED <<status, delivered, announced, rowLock>>
    /\ pc[h] \notin {"locked", "announce"}
    /\ pc'[h] \notin {"locked", "announce"}
    /\ \A k \in Handlers \ {h} : pc'[k] = pc[k] /\ req'[k] = req[k]

(* A quiet step preserves the inductive invariant. *)
LEMMA QuietStep ==
    ASSUME IInv, TypeOK', NEW h \in Handlers, Quiet(h) PROVE IInv'
<1>1. LockHeld'
    BY DEF IInv, LockHeld, Quiet
<1>2. LockedUnpaid'
    BY DEF IInv, LockedUnpaid, Quiet
<1>3. AnnouncePending'
    BY DEF IInv, AnnouncePending, Quiet
<1>4. AnnouncedOnce' /\ SettledOnce'
    BY DEF IInv, AnnouncedOnce, SettledOnce, Quiet
<1> QED BY <1>1, <1>2, <1>3, <1>4 DEF IInv

(* Failing is quiet, when nothing else that matters happens with it. *)
LEMMA QuietFail ==
    ASSUME TypeOK, NEW h \in Handlers, pc[h] \notin {"idle", "locked", "announce"},
           NEW why \in Reasons, Fail(h, why),
           UNCHANGED <<status, delivered, announced, rowLock>>
    PROVE  Quiet(h)
BY FailTypes DEF Quiet

(* The requests that arrive are quiet. *)
LEMMA QuietArrival ==
    ASSUME TypeOK, NEW h \in Handlers, Arrive(h) PROVE Quiet(h)
BY DEF Arrive, StartPay, ReturnWithoutRef, Return, PortalVerify, RetryVerify, MarkPaid,
       Begin, GoTo, Quiet, TypeOK, rowVars, tellVars

(* So is every step of a handler but those of the transaction and after it. *)
LEMMA QuietProgress ==
    ASSUME TypeOK, NEW h \in Handlers,
           \/ CreatePayment(h) \/ CreateRefused(h) \/ SaveCode(h) \/ Reread(h)
           \/ Verify(h) \/ VerifyTimeout(h) \/ Record(h) \/ RecordFails(h) \/ Alert(h)
    PROVE  Quiet(h)
<1> USE DEF GoTo, Finish, TypeOK, Quiet, rowVars, tellVars
<1>1. CASE CreatePayment(h)
    BY <1>1 DEF CreatePayment
<1>2. CASE CreateRefused(h)
    BY <1>2 DEF CreateRefused
<1>3. CASE SaveCode(h)
    BY <1>3 DEF SaveCode
<1>4. CASE Reread(h)
    BY <1>4 DEF Reread
<1>5. CASE Verify(h)
    <2>1. CASE Acceptable(h)
        BY <1>5, <2>1 DEF Verify
    <2>2. CASE ~Acceptable(h)
        BY <1>5, <2>2, QuietFail DEF Verify, Reasons
    <2> QED BY <2>1, <2>2
<1>6. CASE VerifyTimeout(h)
    BY <1>6, QuietFail DEF VerifyTimeout, Reasons
<1>7. CASE Record(h)
    BY <1>7 DEF Record
<1>8. CASE RecordFails(h)
    BY <1>8 DEF RecordFails
<1>9. CASE Alert(h)
    BY <1>9 DEF Alert
<1> QED BY <1>1, <1>2, <1>3, <1>4, <1>5, <1>6, <1>7, <1>8, <1>9

(* Taking the row lock: quiet on a row already settled. *)
LEMMA LockRowStep ==
    ASSUME IInv, TypeOK', NEW h \in Handlers, LockRow(h) PROVE IInv'
<1> DEFINE i == req[h].inv
<1>0. /\ pc[h] = "settle" /\ i \in Invoices /\ rowLock[i] = None
      /\ status[i] \in {"paid", "canceled", "unpaid"}
      /\ UNCHANGED <<status, delivered, announced>>
    BY DEF LockRow, RowFree, IInv, TypeOK, Requests, Statuses, rowVars, tellVars
<1>1. CASE status[i] = "paid"
    <2>1. Quiet(h)
        BY <1>0, <1>1 DEF LockRow, Finish, GoTo, Quiet, IInv, TypeOK
    <2> QED BY <2>1, QuietStep
<1>2. CASE status[i] = "canceled"
    <2>1. Quiet(h)
        BY <1>0, <1>2, QuietFail DEF LockRow, IInv, Reasons
    <2> QED BY <2>1, QuietStep
<1>3. CASE status[i] = "unpaid"
    <2>1. /\ rowLock' = [rowLock EXCEPT ![i] = h]
          /\ pc' = [pc EXCEPT ![h] = "locked"]
          /\ UNCHANGED req
        BY <1>0, <1>3 DEF LockRow, GoTo
    <2>2. LockHeld'
        BY <1>0, <2>1, NoneAssumption DEF IInv, LockHeld, TypeOK
    <2>3. LockedUnpaid'
        BY <1>0, <1>3, <2>1 DEF IInv, LockedUnpaid, TypeOK
    <2>4. AnnouncePending'
        BY <1>0, <2>1 DEF IInv, AnnouncePending, TypeOK
    <2>5. AnnouncedOnce' /\ SettledOnce'
        BY <1>0 DEF IInv, AnnouncedOnce, SettledOnce
    <2> QED BY <2>2, <2>3, <2>4, <2>5 DEF IInv
<1> QED BY <1>0, <1>1, <1>2, <1>3

(* The commit delivers once: the row it locked was unpaid. *)
LEMMA CommitStep ==
    ASSUME IInv, TypeOK', NEW h \in Handlers, Commit(h) PROVE IInv'
<1> DEFINE i == req[h].inv
<1>0. /\ pc[h] = "locked" /\ i \in Invoices /\ rowLock[i] = h /\ status[i] = "unpaid"
      /\ status' = [status EXCEPT ![i] = "paid"]
      /\ delivered' = [delivered EXCEPT ![i] = @ + 1]
      /\ rowLock' = [rowLock EXCEPT ![i] = None]
      /\ pc' = [pc EXCEPT ![h] = "announce"]
      /\ UNCHANGED <<req, announced>>
    BY DEF Commit, GoTo, IInv, TypeOK, Requests, LockHeld, LockedUnpaid, tellVars
<1>1. delivered[i] = 0 /\ announced[i] = 0
    BY <1>0 DEF IInv, SettledOnce, AnnouncedOnce, TypeOK
<1>2. LockHeld'
    BY <1>0, NoneAssumption DEF IInv, LockHeld, TypeOK
<1>3. LockedUnpaid'
    <2> SUFFICES ASSUME NEW k \in Handlers, pc'[k] = "locked"
                 PROVE  status'[req[k].inv] = "unpaid"
        BY <1>0 DEF LockedUnpaid
    <2>1. k # h /\ pc[k] = "locked" /\ rowLock[req[k].inv] = k
        BY <1>0 DEF IInv, LockHeld, TypeOK, Requests
    <2>2. req[k].inv # i
        BY <1>0, <2>1
    <2> QED BY <1>0, <2>1, <2>2 DEF IInv, LockedUnpaid, TypeOK
<1>4. AnnouncePending'
    BY <1>0, <1>1 DEF IInv, AnnouncePending, TypeOK, Requests
<1>5. AnnouncedOnce'
    BY <1>0, <1>1 DEF IInv, AnnouncedOnce, TypeOK
<1>6. SettledOnce'
    BY <1>0, <1>1 DEF IInv, SettledOnce, TypeOK
<1> QED BY <1>2, <1>3, <1>4, <1>5, <1>6 DEF IInv

(* A rollback gives up the lock, and with it the place in the transaction. *)
LEMMA RollbackStep ==
    ASSUME IInv, TypeOK', NEW h \in Handlers, Rollback(h) PROVE IInv'
<1>0. /\ pc[h] \in {"settle", "locked"}
      /\ rowLock' = [i \in Invoices |-> IF rowLock[i] = h THEN None ELSE rowLock[i]]
      /\ UNCHANGED <<status, delivered, announced>>
    BY DEF Rollback, rowVars, tellVars
<1>1. /\ pc'[h] \in {"idle", "record"}
      /\ \A k \in Handlers \ {h} : pc'[k] = pc[k] /\ req'[k] = req[k]
    BY <1>0, FailTypes DEF Rollback, IInv, Reasons
<1>2. LockHeld'
    BY <1>0, <1>1, NoneAssumption DEF IInv, LockHeld, TypeOK
<1>3. LockedUnpaid'
    BY <1>0, <1>1 DEF IInv, LockedUnpaid
<1>4. AnnouncePending'
    BY <1>0, <1>1 DEF IInv, AnnouncePending
<1>5. AnnouncedOnce' /\ SettledOnce'
    BY <1>0 DEF IInv, AnnouncedOnce, SettledOnce
<1> QED BY <1>2, <1>3, <1>4, <1>5 DEF IInv

(* Announcing: no other handler had an announcement of that invoice to make. *)
LEMMA AnnounceStep ==
    ASSUME IInv, TypeOK', NEW h \in Handlers, Announce(h) PROVE IInv'
<1> DEFINE i == req[h].inv
<1>0. /\ pc[h] = "announce" /\ i \in Invoices /\ status[i] = "paid" /\ announced[i] = 0
      /\ announced' = [announced EXCEPT ![i] = @ + 1]
      /\ pc' = [pc EXCEPT ![h] = "idle"]
      /\ req' = [req EXCEPT ![h] = None]
      /\ UNCHANGED <<status, delivered, rowLock>>
    BY DEF Announce, Finish, GoTo, IInv, TypeOK, Requests, AnnouncePending, rowVars
<1>1. delivered[i] = 1
    BY <1>0 DEF IInv, SettledOnce
<1>2. LockHeld'
    BY <1>0 DEF IInv, LockHeld, TypeOK
<1>3. LockedUnpaid'
    BY <1>0 DEF IInv, LockedUnpaid, TypeOK
<1>4. AnnouncePending'
    BY <1>0 DEF IInv, AnnouncePending, TypeOK, Requests
<1>5. AnnouncedOnce' /\ SettledOnce'
    BY <1>0, <1>1 DEF IInv, AnnouncedOnce, SettledOnce, TypeOK
<1> QED BY <1>2, <1>3, <1>4, <1>5 DEF IInv

(* Every step preserves the inductive invariant. *)
LEMMA StepIInv == IInv /\ [Next]_vars => IInv'
<1> SUFFICES ASSUME IInv, [Next]_vars PROVE IInv'
    OBVIOUS
<1>0. TypeOK /\ TypeOK'
    BY TypeStep DEF IInv
<1>1. ASSUME NEW h \in Handlers, Arrive(h) PROVE IInv'
    BY <1>0, <1>1, QuietArrival, QuietStep
<1>2. ASSUME NEW h \in Handlers, Proceed(h) PROVE IInv'
    BY <1>0, <1>2, QuietProgress, QuietStep, LockRowStep, CommitStep, AnnounceStep
       DEF Proceed
<1>3. ASSUME NEW h \in Handlers, Disturb(h) PROVE IInv'
    BY <1>0, <1>3, QuietProgress, QuietStep, RollbackStep DEF Disturb
<1>4. ASSUME NEW p \in Payments, Capture(p) PROVE IInv'
    BY <1>0, <1>4 DEF Capture, rowVars, tellVars, handlerVars, IInv, LockHeld,
       LockedUnpaid, AnnouncePending, AnnouncedOnce, SettledOnce
<1>5. ASSUME NEW i \in Invoices, Cancel(i) PROVE IInv'
    <2>0. /\ status[i] = "unpaid" /\ rowLock[i] = None
          /\ status' = [status EXCEPT ![i] = "canceled"]
          /\ UNCHANGED <<delivered, rowLock, announced, pc, req>>
        BY <1>5 DEF Cancel, RowFree, tellVars, handlerVars
    <2>1. LockHeld'
        BY <2>0 DEF IInv, LockHeld
    <2>2. LockedUnpaid'
        <3> SUFFICES ASSUME NEW k \in Handlers, pc[k] = "locked"
                     PROVE  status'[req[k].inv] = "unpaid"
            BY <2>0 DEF LockedUnpaid
        <3>1. rowLock[req[k].inv] = k /\ req[k].inv # i
            BY <2>0, NoneAssumption DEF IInv, LockHeld, TypeOK, Requests
        <3> QED BY <2>0, <3>1 DEF IInv, LockedUnpaid, TypeOK
    <2>3. AnnouncePending'
        BY <2>0 DEF IInv, AnnouncePending, TypeOK, Requests
    <2>4. AnnouncedOnce' /\ SettledOnce'
        BY <2>0 DEF IInv, AnnouncedOnce, SettledOnce, TypeOK
    <2> QED BY <1>0, <2>1, <2>2, <2>3, <2>4 DEF IInv
<1>6. ASSUME Crash PROVE IInv'
    BY <1>0, <1>6, NoneAssumption DEF Crash, rowVars, tellVars, IInv, LockHeld,
       LockedUnpaid, AnnouncePending, AnnouncedOnce, SettledOnce
<1>7. ASSUME UNCHANGED vars PROVE IInv'
    BY <1>0, <1>7 DEF vars, rowVars, tellVars, handlerVars, IInv, LockHeld,
       LockedUnpaid, AnnouncePending, AnnouncedOnce, SettledOnce
<1> QED BY <1>1, <1>2, <1>3, <1>4, <1>5, <1>6, <1>7 DEF Next

(* The types hold in every reachable state. *)
THEOREM TypesHold == Spec => []TypeOK
<1>1. Init => TypeOK
    BY InitIInv DEF IInv
<1> QED BY <1>1, TypeStep, PTL DEF Spec

(* The inductive invariant holds in every reachable state. *)
THEOREM Invariance == Spec => []IInv
BY InitIInv, StepIInv, PTL DEF Spec

(* Each invoice delivers its service exactly once, in the step that makes  *)
(* it paid, for any number of overlapping requests, faults and restarts.   *)
THEOREM DeliveredOnce == Spec => []SettledOnce
<1>1. IInv => SettledOnce
    BY DEF IInv
<1> QED BY <1>1, Invariance, PTL

(* The customer is told at most once, and only of an invoice that is paid. *)
THEOREM ToldOnce == Spec => []AnnouncedOnce
<1>1. IInv => AnnouncedOnce
    BY DEF IInv
<1> QED BY <1>1, Invariance, PTL

(* Every step but one that commits, cancels or announces leaves status,     *)
(* service and announcements alone.                                         *)
LEMMA OtherSteps ==
    ASSUME IInv, [Next]_vars
    PROVE  \/ \E h \in Handlers : Commit(h) \/ Announce(h)
           \/ \E i \in Invoices : Cancel(i)
           \/ UNCHANGED <<status, delivered, announced>>
<1>0. TypeOK
    BY DEF IInv
<1>1. ASSUME NEW h \in Handlers, Arrive(h) PROVE UNCHANGED <<status, delivered, announced>>
    BY <1>0, <1>1, QuietArrival DEF Quiet
<1>2. ASSUME NEW h \in Handlers, Proceed(h)
      PROVE  Commit(h) \/ Announce(h) \/ UNCHANGED <<status, delivered, announced>>
    BY <1>0, <1>2, QuietProgress DEF Proceed, Quiet, LockRow, rowVars, tellVars
<1>3. ASSUME NEW h \in Handlers, Disturb(h) PROVE UNCHANGED <<status, delivered, announced>>
    BY <1>0, <1>3, QuietProgress DEF Disturb, Quiet, Rollback, rowVars, tellVars
<1>4. ASSUME NEW p \in Payments, Capture(p) PROVE UNCHANGED <<status, delivered, announced>>
    BY <1>4 DEF Capture, rowVars, tellVars
<1>5. ASSUME Crash PROVE UNCHANGED <<status, delivered, announced>>
    BY <1>5 DEF Crash, rowVars, tellVars
<1>6. ASSUME UNCHANGED vars PROVE UNCHANGED <<status, delivered, announced>>
    BY <1>6 DEF vars, rowVars, tellVars
<1> QED BY <1>1, <1>2, <1>3, <1>4, <1>5, <1>6 DEF Next

(* The handlers, the lock and the gateway implement Settlement: each step   *)
(* is one of its steps, or changes nothing it sees.                         *)
THEOREM Implementation == Spec => ImplementsSettlement
<1>1. Init => S!Init
    BY DEF Init, S!Init
<1>2. IInv /\ [Next]_vars => [S!Next]_S!vars
    <2> SUFFICES ASSUME IInv, [Next]_vars PROVE [S!Next]_S!vars
        OBVIOUS
    <2>1. ASSUME NEW h \in Handlers, Commit(h) PROVE S!Next
        <3>1. req[h].inv \in Invoices /\ status[req[h].inv] = "unpaid"
            BY <2>1 DEF Commit, IInv, TypeOK, Requests, LockedUnpaid
        <3>2. S!Settle(req[h].inv)
            BY <2>1, <3>1 DEF Commit, S!Settle, tellVars
        <3> QED BY <3>1, <3>2 DEF S!Next
    <2>2. ASSUME NEW h \in Handlers, Announce(h) PROVE S!Next
        <3>1. /\ req[h].inv \in Invoices /\ status[req[h].inv] = "paid"
              /\ announced[req[h].inv] = 0
            BY <2>2 DEF Announce, IInv, TypeOK, Requests, AnnouncePending
        <3>2. S!Announce(req[h].inv)
            BY <2>2, <3>1 DEF Announce, S!Announce, rowVars, IInv, TypeOK
        <3> QED BY <3>1, <3>2 DEF S!Next
    <2>3. ASSUME NEW i \in Invoices, Cancel(i) PROVE S!Next
        <3>1. S!Cancel(i)
            BY <2>3 DEF Cancel, S!Cancel, tellVars
        <3> QED BY <3>1 DEF S!Next
    <2> QED BY <2>1, <2>2, <2>3, OtherSteps DEF S!vars
<1> QED BY <1>1, <1>2, Invariance, PTL DEF Spec, ImplementsSettlement, S!Spec

(* A settled invoice keeps its status and the reference it was paid with,   *)
(* whatever late failures, retries and cancellations still arrive.          *)
THEOREM Finality == Spec => PaidIsFinal
<1>1. ASSUME IInv, Next PROVE KeepsPaid
    <2> USE DEF KeepsPaid
    <2>0. TypeOK
        BY <1>1 DEF IInv
    <2>1. ASSUME NEW h \in Handlers, Arrive(h) PROVE KeepsPaid
        BY <2>1 DEF Arrive, StartPay, ReturnWithoutRef, Return, PortalVerify,
                    RetryVerify, MarkPaid, rowVars
    <2>2. ASSUME NEW h \in Handlers, Commit(h) PROVE KeepsPaid
        BY <1>1, <2>2 DEF Commit, IInv, LockedUnpaid, TypeOK
    <2>3. ASSUME NEW h \in Handlers, Record(h) PROVE KeepsPaid
        BY <2>0, <2>3 DEF Record, TypeOK
    <2>4. ASSUME NEW h \in Handlers, Proceed(h), ~Commit(h), ~Record(h) PROVE KeepsPaid
        BY <2>4 DEF Proceed, CreatePayment, CreateRefused, SaveCode, Reread, Verify,
                    LockRow, Announce, Alert, rowVars
    <2>5. ASSUME NEW h \in Handlers, Disturb(h) PROVE KeepsPaid
        BY <2>5 DEF Disturb, VerifyTimeout, Rollback, RecordFails, rowVars
    <2>6. ASSUME NEW p \in Payments, Capture(p) PROVE KeepsPaid
        BY <2>6 DEF Capture, rowVars
    <2>7. ASSUME NEW i \in Invoices, Cancel(i) PROVE KeepsPaid
        BY <2>0, <2>7 DEF Cancel, TypeOK
    <2>8. ASSUME Crash PROVE KeepsPaid
        BY <2>8 DEF Crash, rowVars
    <2> QED BY <1>1, <2>1, <2>2, <2>3, <2>4, <2>5, <2>6, <2>7, <2>8 DEF Next
<1>2. IInv /\ [Next]_vars => [KeepsPaid]_vars
    BY <1>1
<1> QED BY <1>2, Invariance, PTL DEF Spec, PaidIsFinal
-----------------------------------------------------------------------------
(* A payment that was opened stays opened, and for the same invoice.        *)
LEMMA GatewayKeeps ==
    ASSUME TypeOK, [Next]_vars, NEW p \in Payments, payment[p] # "none"
    PROVE  payment'[p] # "none" /\ madeFor'[p] = madeFor[p]
<1> USE DEF TypeOK
<1>1. ASSUME NEW h \in Handlers, Arrive(h) PROVE UNCHANGED gatewayVars
    BY <1>1 DEF Arrive, StartPay, ReturnWithoutRef, Return, PortalVerify, RetryVerify, MarkPaid
<1>2. ASSUME NEW h \in Handlers, Proceed(h), ~CreatePayment(h), ~SaveCode(h), ~Verify(h)
      PROVE  UNCHANGED gatewayVars
    BY <1>2 DEF Proceed, CreateRefused, Reread, LockRow, Commit, Announce, Record, Alert
<1>3. ASSUME NEW h \in Handlers, CreatePayment(h)
      PROVE  payment'[p] # "none" /\ madeFor'[p] = madeFor[p]
    BY <1>3 DEF CreatePayment
<1>4. ASSUME NEW h \in Handlers, SaveCode(h)
      PROVE  payment'[p] # "none" /\ madeFor'[p] = madeFor[p]
    BY <1>4 DEF SaveCode
<1>5. ASSUME NEW h \in Handlers, Verify(h) \/ VerifyTimeout(h)
      PROVE  payment'[p] # "none" /\ madeFor'[p] = madeFor[p]
    BY <1>5 DEF Verify, VerifyTimeout, Accept
<1>6. ASSUME NEW h \in Handlers, Rollback(h) \/ RecordFails(h) PROVE UNCHANGED gatewayVars
    BY <1>6 DEF Rollback, RecordFails
<1>7. ASSUME NEW q \in Payments, Capture(q)
      PROVE  payment'[p] # "none" /\ madeFor'[p] = madeFor[p]
    BY <1>7 DEF Capture
<1>8. ASSUME (\E i \in Invoices : Cancel(i)) \/ Crash \/ UNCHANGED vars PROVE UNCHANGED gatewayVars
    BY <1>8 DEF Cancel, Crash, vars
<1> QED BY <1>1, <1>2, <1>3, <1>4, <1>5, <1>6, <1>7, <1>8 DEF Next, Proceed, Disturb, gatewayVars

(* A handler leaves the others alone.                                       *)
LEMMA OthersAlone ==
    ASSUME TypeOK, NEW k \in Handlers, NEW h \in Handlers, k # h,
           Arrive(k) \/ Proceed(k) \/ Disturb(k)
    PROVE  pc'[h] = pc[h] /\ req'[h] = req[h]
<1> USE DEF TypeOK, GoTo, Finish, Fail
<1>1. CASE Arrive(k)
    BY <1>1 DEF Arrive, StartPay, ReturnWithoutRef, Return, PortalVerify, RetryVerify, MarkPaid, Begin
<1>2. CASE LockRow(k)
    <2>1. status[req[k].inv] \in {"paid", "canceled", "unpaid"}
        BY <1>2 DEF LockRow, Requests, Statuses
    <2> QED BY <1>2, <2>1 DEF LockRow
<1>3. CASE Commit(k) \/ Rollback(k) \/ Announce(k)
    BY <1>3 DEF Commit, Rollback, Announce
<1>4. CASE CreatePayment(k) \/ CreateRefused(k) \/ SaveCode(k) \/ Reread(k)
    BY <1>4 DEF CreatePayment, CreateRefused, SaveCode, Reread
<1>5. CASE Verify(k) \/ VerifyTimeout(k)
    BY <1>5 DEF Verify, VerifyTimeout
<1>6. CASE Record(k) \/ RecordFails(k) \/ Alert(k)
    BY <1>6 DEF Record, RecordFails, Alert
<1> QED BY <1>1, <1>2, <1>3, <1>4, <1>5, <1>6 DEF Proceed, Disturb

(* What a step may do with a handler.                                       *)
LEMMA HandlerMoves ==
    ASSUME TypeOK, [Next]_vars, NEW h \in Handlers
    PROVE  \/ pc'[h] = pc[h] /\ req'[h] = req[h]
           \/ Arrive(h) \/ Proceed(h) \/ Disturb(h)
           \/ Crash /\ pc'[h] = "idle"
BY OthersAlone DEF Next, Capture, Cancel, Crash, vars, handlerVars

(* A request keeps its kind, its invoice and its payment until it ends.     *)
KeepsRequest(h) ==
    /\ req'[h].ref = req[h].ref
    /\ req'[h].inv = req[h].inv /\ req'[h].kind = req[h].kind

(* Of a request that is not over after a step: it was there and is kept, or  *)
(* the step began it.                                                       *)
LEMMA RequestKept ==
    ASSUME TypeOK, [Next]_vars, NEW h \in Handlers, pc'[h] # "idle"
    PROVE  \/ KeepsRequest(h) /\ pc[h] # "idle"
           \/ pc[h] = "idle" /\ Arrive(h)
<1> USE DEF TypeOK, KeepsRequest, GoTo, Finish, Fail
<1>0. pc[h] # "idle" => /\ req[h] \in Requests /\ pc[h] \in Places
    OBVIOUS
<1>1. CASE Arrive(h)
    BY <1>1 DEF Arrive, StartPay, ReturnWithoutRef, Return, PortalVerify,
                RetryVerify, MarkPaid, Begin
<1>2. CASE pc'[h] = pc[h] /\ req'[h] = req[h]
    BY <1>2
<1>3. ASSUME Proceed(h) \/ Disturb(h)
      PROVE  KeepsRequest(h) /\ pc[h] # "idle"
    <2>0. pc[h] # "idle" /\ req[h] \in Requests
        BY <1>3, <1>0 DEF Proceed, Disturb, CreatePayment, CreateRefused, SaveCode, Reread, Verify,
                    VerifyTimeout, LockRow, Commit, Rollback, Announce, Record, RecordFails, Alert
    <2> USE DEF Requests
    <2>1. CASE LockRow(h)
        <3>1. status[req[h].inv] \in {"paid", "canceled", "unpaid"}
            BY <2>0 DEF Statuses
        <3>2. CASE status[req[h].inv] = "paid"
            BY <2>0, <2>1, <3>2 DEF LockRow
        <3>3. CASE status[req[h].inv] = "canceled"
            <4>1. Fail(h, "canceled")
                BY <2>1, <3>3 DEF LockRow
            <4> QED BY <2>0, <4>1
        <3>4. CASE status[req[h].inv] = "unpaid"
            BY <2>0, <2>1, <3>4 DEF LockRow
        <3> QED BY <3>1, <3>2, <3>3, <3>4
    <2>2. CASE Commit(h) \/ Rollback(h) \/ Announce(h)
        <3>1. CASE Commit(h)
            BY <2>0, <3>1 DEF Commit
        <3>2. CASE Rollback(h)
            BY <2>0, <3>2 DEF Rollback
        <3>3. CASE Announce(h)
            BY <2>0, <3>3 DEF Announce
        <3> QED BY <2>2, <3>1, <3>2, <3>3
    <2>3. CASE CreatePayment(h)
        <3>1. PICK p \in Payments : \/ GoTo(h, "save") /\ req' = [req EXCEPT ![h].code = p]
                                  \/ Finish(h)
            BY <2>3 DEF CreatePayment
        <3> QED BY <2>0, <3>1
    <2>7. CASE CreateRefused(h) \/ SaveCode(h)
        BY <2>0, <2>7 DEF CreateRefused, SaveCode
    <2>4. CASE Reread(h)
        BY <2>0, <2>4 DEF Reread
    <2>5. CASE Verify(h) \/ VerifyTimeout(h)
        BY <2>0, <2>5 DEF Verify, VerifyTimeout
    <2>6. CASE Record(h) \/ RecordFails(h) \/ Alert(h)
        BY <2>0, <2>6 DEF Record, RecordFails, Alert
    <2> QED BY <1>3, <2>1, <2>2, <2>3, <2>4, <2>5, <2>6, <2>7 DEF Proceed, Disturb
<1> QED BY <1>1, <1>2, <1>3, HandlerMoves
-----------------------------------------------------------------------------
(* A return that goes to the gateway or on to settle carries a payment that *)
(* was opened for the invoice it came back to.                              *)
OnItsWay == {"reread", "verify", "settle", "locked"}

(* A payment that a request or a row of invoice i may name: one opened for   *)
(* it, or one whose return has strayed to it.                               *)
FoundFor(p, i) ==
    p \in Payments /\ payment[p] # "none" /\ (madeFor[p] = i \/ stray[p][i] # "none")

ComesRight(h) ==
    /\ req[h].kind = "return" =>
          madeFor[req[h].ref] = req[h].inv \/ stray[req[h].ref][req[h].inv] = "let in"
    /\ req[h].kind \notin {"return", "retry", "mark"} => madeFor[req[h].ref] = req[h].inv

FoundInv ==
    /\ \A h \in Handlers : pc[h] # "idle" /\ req[h].ref # None => FoundFor(req[h].ref, req[h].inv)
    /\ \A h \in Handlers : pc[h] \in OnItsWay /\ req[h].kind # "mark" =>
          req[h].ref # None /\ ComesRight(h)
    /\ \A i \in Invoices : paymentRef[i] # None => FoundFor(paymentRef[i], i)

(* A handler is on its way only where it was before.                        *)
LEMMA StaysOnItsWay ==
    ASSUME TypeOK, [Next]_vars, NEW h \in Handlers, pc[h] # "idle", pc'[h] \in OnItsWay
    PROVE  pc[h] \in OnItsWay
<1> SUFFICES ASSUME pc[h] \in {"create", "save", "announce", "record", "alert"} PROVE FALSE
    BY DEF TypeOK, Places, OnItsWay
<1> USE DEF TypeOK, GoTo, Finish, OnItsWay
<1>1. pc'[h] = pc[h] \/ pc'[h] \in {"idle", "save", "alert"}
    <2>1. ~Arrive(h)
        BY DEF Arrive, StartPay, ReturnWithoutRef, Return, PortalVerify, RetryVerify, MarkPaid, Begin
    <2>2. ASSUME Proceed(h) \/ Disturb(h) PROVE pc'[h] \in {"idle", "save", "alert"}
        BY <2>2 DEF Proceed, Disturb, CreatePayment, CreateRefused, SaveCode, Reread,
                    Verify, VerifyTimeout, LockRow, Commit, Rollback, Announce, Record, RecordFails, Alert
    <2> QED BY <2>1, <2>2, HandlerMoves
<1> QED BY <1>1

(* What is found for an invoice stays so.                                   *)
LEMMA FoundStays ==
    ASSUME TypeOK, [Next]_vars, NEW p, NEW i \in Invoices, FoundFor(p, i)
    PROVE  FoundFor(p, i)'
BY GatewayKeeps, StraysStay DEF FoundFor, TypeOK

(* A request that arrives with a payment comes with one found for its        *)
(* invoice, and on its way as the route lets it.                            *)
LEMMA FoundArrives ==
    ASSUME TypeOK, [Next]_vars, FoundInv, NEW h \in Handlers, Arrive(h)
    PROVE  /\ req'[h].ref # None => FoundFor(req[h].ref, req[h].inv)'
           /\ pc'[h] \in OnItsWay /\ req'[h].kind # "mark" => req'[h].ref # None /\ ComesRight(h)'
<1> USE DEF Begin, GoTo, Request, ComesRight, OnItsWay
<1>1. PICK i \in Invoices :
          \/ StartPay(h, i) \/ ReturnWithoutRef(h, i) \/ Return(h, i)
          \/ PortalVerify(h, i) \/ RetryVerify(h, i) \/ MarkPaid(h, i)
    BY DEF Arrive
<1>2. CASE StartPay(h, i) \/ ReturnWithoutRef(h, i) \/ MarkPaid(h, i)
    <2>1. pc'[h] \in {"create", "record"} \/ (pc'[h] = "settle" /\ req'[h].kind = "mark")
        BY <1>2 DEF StartPay, ReturnWithoutRef, MarkPaid, TypeOK
    <2>2. req'[h].ref = None
        BY <1>2 DEF StartPay, ReturnWithoutRef, MarkPaid, TypeOK
    <2> QED BY <2>1, <2>2
<1>3. CASE Return(h, i)
    <2>1. PICK p \in ReturnsTo(i), numbered \in BOOLEAN : \E c \in Codes(p) :
              /\ Taken(p)
              /\ IF numbered /\ madeFor[p] # i
                 THEN Begin(h, "record", Request("return", i, p, c, "mismatch"))
                 ELSE Begin(h, "reread", Request("return", i, p, c, "none"))
              /\ NoteStray(p, i, numbered)
        BY <1>3 DEF Return
    <2>2. /\ req'[h].ref = p /\ req'[h].inv = i /\ req'[h].kind = "return"
          /\ pc'[h] = "record" \/ (pc'[h] = "reread" /\ (madeFor[p] = i \/ ~numbered))
        BY <2>1 DEF TypeOK
    <2>3. UNCHANGED <<payment, madeFor>> /\ p \in Payments /\ payment[p] # "none" /\ p # None
        BY <1>3, <2>1, NoneAssumption DEF Return, ReturnsTo, Taken, gatewayVars
    <2>4. madeFor[p] # i => stray'[p][i] # "none" /\ (~numbered => stray'[p][i] = "let in")
        <3> SUFFICES ASSUME madeFor[p] # i
                     PROVE  stray'[p][i] # "none" /\ (~numbered => stray'[p][i] = "let in")
            OBVIOUS
        <3>1. NoteStray(p, i, numbered) /\ stray \in [Payments -> [Invoices -> Strays]]
            BY <2>1 DEF TypeOK, StraysTyped
        <3>2. CASE numbered /\ stray[p][i] = "let in"
            BY <3>1, <3>2 DEF NoteStray
        <3>3. CASE ~(numbered /\ stray[p][i] = "let in")
            <4>1. stray' = [stray EXCEPT ![p][i] = IF numbered THEN "refused" ELSE "let in"]
                BY <3>1, <3>3 DEF NoteStray
            <4> QED BY <2>3, <3>1, <4>1
        <3> QED BY <3>2, <3>3
    <2> QED BY <2>2, <2>3, <2>4 DEF FoundFor
<1>4. CASE PortalVerify(h, i)
    <2>1. PICK p \in Payments : \E c \in Codes(p) :
              Taken(p) /\ madeFor[p] = i /\ Begin(h, "reread", Request("verify", i, p, c, "none"))
        BY <1>4 DEF PortalVerify
    <2>2. req'[h].ref = p /\ req'[h].inv = i /\ req'[h].kind = "verify"
        BY <2>1 DEF TypeOK
    <2>3. UNCHANGED <<payment, madeFor>> /\ payment[p] # "none" /\ p # None
        BY <1>4, <2>1, NoneAssumption DEF PortalVerify, Taken, gatewayVars
    <2> QED BY <2>1, <2>2, <2>3 DEF FoundFor
<1>5. CASE RetryVerify(h, i)
    <2>1. req'[h].kind = "retry" /\ req'[h].ref = paymentRef[i] /\ req'[h].inv = i
        BY <1>5 DEF RetryVerify, TypeOK
    <2>2. paymentRef[i] # None /\ FoundFor(paymentRef[i], i)
        BY <1>5 DEF RetryVerify, FoundInv
    <2> DEFINE p == paymentRef[i]
    <2>3. /\ p \in Payments /\ payment'[p] # "none"
          /\ madeFor'[p] = i \/ stray'[p][i] # "none"
        BY <2>2, FoundStays DEF FoundFor
    <2> QED BY <2>1, <2>2, <2>3 DEF FoundFor
<1> QED BY <1>1, <1>2, <1>3, <1>4, <1>5

(* The reference on a row stays, or becomes that of a request at work on it. *)
LEMMA ReferenceFrom ==
    ASSUME TypeOK, [Next]_vars, NEW i \in Invoices
    PROVE  \/ paymentRef'[i] = paymentRef[i]
           \/ \E h \in Handlers : /\ pc[h] # "idle" /\ req[h].inv = i /\ req[h].ref # None
                                  /\ paymentRef'[i] = req[h].ref
<1>1. ASSUME NEW h \in Handlers, Arrive(h) PROVE paymentRef' = paymentRef
    BY <1>1 DEF Arrive, StartPay, ReturnWithoutRef, Return, PortalVerify, RetryVerify, MarkPaid, rowVars
<1>2. ASSUME NEW h \in Handlers, Proceed(h), ~Commit(h), ~Record(h) PROVE paymentRef' = paymentRef
    BY <1>2 DEF Proceed, CreatePayment, CreateRefused, SaveCode, Reread, Verify, LockRow,
        Announce, Alert, rowVars
<1>3. ASSUME NEW h \in Handlers, Disturb(h) PROVE paymentRef' = paymentRef
    BY <1>3 DEF Disturb, VerifyTimeout, Rollback, RecordFails, rowVars
<1>4. ASSUME NEW h \in Handlers, Commit(h) \/ Record(h)
      PROVE  \/ paymentRef'[i] = paymentRef[i]
             \/ /\ pc[h] # "idle" /\ req[h].inv = i /\ req[h].ref # None
                /\ paymentRef'[i] = req[h].ref
    BY <1>4 DEF Commit, Record, Coalesce, TypeOK, Requests
<1>5. CASE (\E p \in Payments : Capture(p)) \/ (\E j \in Invoices : Cancel(j)) \/ Crash \/ UNCHANGED vars
    BY <1>5 DEF Capture, Cancel, Crash, rowVars, vars
<1> QED BY <1>1, <1>2, <1>3, <1>4, <1>5 DEF Next

(* Every step keeps requests and rows on payments found for the invoice.    *)
LEMMA FoundStep == TypeOK /\ TypeOK' /\ FoundInv /\ [Next]_vars => FoundInv'
<1> SUFFICES ASSUME TypeOK, TypeOK', FoundInv, [Next]_vars PROVE FoundInv'
    OBVIOUS
<1>1. ASSUME NEW h \in Handlers, pc'[h] # "idle"
      PROVE  /\ req'[h].ref # None => FoundFor(req[h].ref, req[h].inv)'
             /\ pc'[h] \in OnItsWay /\ req'[h].kind # "mark" => req'[h].ref # None /\ ComesRight(h)'
    <2>1. CASE KeepsRequest(h) /\ pc[h] # "idle"
        <3> DEFINE p == req[h].ref  i == req[h].inv
        <3>1. i \in Invoices
            BY <2>1 DEF TypeOK, Requests
        <3>2. ASSUME p # None
              PROVE  /\ p \in Payments /\ payment'[p] # "none" /\ madeFor'[p] = madeFor[p]
                     /\ madeFor'[p] = i \/ stray'[p][i] # "none"
                     /\ stray[p][i] = "let in" => stray'[p][i] = "let in"
            <4>1. FoundFor(p, i)
                BY <2>1, <3>2 DEF FoundInv
            <4> QED BY <3>1, <4>1, GatewayKeeps, StraysStay DEF FoundFor, TypeOK
        <3>3. pc'[h] \in OnItsWay /\ req[h].kind # "mark" => p # None /\ ComesRight(h)
            BY <1>1, <2>1, StaysOnItsWay DEF FoundInv
        <3> QED BY <2>1, <3>2, <3>3 DEF KeepsRequest, FoundFor, ComesRight
    <2>2. CASE Arrive(h)
        BY <2>2, FoundArrives
    <2> QED BY <1>1, <2>1, <2>2, RequestKept
<1>2. ASSUME NEW h \in Handlers, pc'[h] \in OnItsWay PROVE pc'[h] # "idle"
    BY <1>2 DEF OnItsWay
<1>3. ASSUME NEW i \in Invoices, paymentRef'[i] # None PROVE FoundFor(paymentRef[i], i)'
    <2>1. PICK p : p = paymentRef'[i] /\ FoundFor(p, i)
        BY <1>3, ReferenceFrom DEF FoundInv
    <2>2. /\ p \in Payments /\ payment'[p] # "none"
          /\ madeFor'[p] = i \/ stray'[p][i] # "none"
        BY <2>1, FoundStays DEF FoundFor
    <2> QED BY <2>1, <2>2 DEF FoundFor
<1> QED BY <1>1, <1>2, <1>3 DEF FoundInv

(* Another invoice's payment goes to the gateway and settles an invoice only *)
(* where a return brought it there, also when returns are late, repeated or  *)
(* next to requests of every other route.                                   *)
THEOREM OwnSettled == Spec => []ReturnSettlesOwn
<1>1. Init => FoundInv
    BY DEF Init, FoundInv, OnItsWay
<1>2. TypeOK /\ TypeOK' /\ FoundInv /\ [Next]_vars => FoundInv'
    BY FoundStep
<1>3. TypeOK /\ FoundInv => ReturnSettlesOwn
    <2> SUFFICES ASSUME TypeOK, FoundInv PROVE ReturnSettlesOwn
        OBVIOUS
    <2>1. ASSUME NEW h \in Handlers, pc[h] \in {"verify", "settle", "locked"}, req[h].kind # "mark"
          PROVE  \/ madeFor[req[h].ref] = req[h].inv
                 \/ req[h].kind = "return" /\ stray[req[h].ref][req[h].inv] = "let in"
                 \/ req[h].kind = "retry" /\ stray[req[h].ref][req[h].inv] # "none"
        <3>1. pc[h] \in OnItsWay /\ pc[h] # "idle"
            BY <2>1 DEF OnItsWay
        <3>2. req[h].ref # None /\ ComesRight(h) /\ FoundFor(req[h].ref, req[h].inv)
            BY <2>1, <3>1 DEF FoundInv
        <3> QED BY <2>1, <3>2 DEF ComesRight, FoundFor
    <2>2. ASSUME NEW i \in Invoices, paymentRef[i] # None
          PROVE  madeFor[paymentRef[i]] = i \/ stray[paymentRef[i]][i] # "none"
        BY <2>2 DEF FoundInv, FoundFor
    <2> QED BY <2>1, <2>2 DEF ReturnSettlesOwn
<1> QED BY <1>1, <1>2, <1>3, TypesHold, PTL DEF Spec
-----------------------------------------------------------------------------
(***************************************************************************)
(* The money, where the program promises it: the return route and the      *)
(* panel, no restart, and a gateway that sends the customer back to the    *)
(* invoice of the payment.                                                 *)
(***************************************************************************)
Promised == MaxCrashes = 0 /\ ~Misdirected /\ "verify" \notin RequestKinds

(* The admin knows of payment p of invoice i, or needs not, or is about to   *)
(* be told.                                                                 *)
Telling(h, p, i) == pc[h] = "alert" /\ req[h].ref = p /\ req[h].inv = i

Told(p, i) ==
    status[i] = "paid" \/ alerted[i] \/ \E h \in Handlers : Telling(h, p, i)

Opened(p, i) == p \in Payments /\ payment[p] # "none" /\ madeFor[p] = i

(* A request that carries a payment carries it to its own invoice; one of    *)
(* the panel's retries carries a payment that the admin was told of.        *)
RequestsOwn ==
    \A h \in Handlers : pc[h] # "idle" =>
        \/ req[h].ref = None /\ req[h].kind # "retry"
        \/ req[h].kind \in {"return", "retry"} /\ Opened(req[h].ref, req[h].inv)

RetriesTold ==
    \A h \in Handlers : pc[h] # "idle" /\ req[h].kind = "retry" => Told(req[h].ref, req[h].inv)

(* So does the reference on an invoice.                                     *)
ReferencesTold ==
    \A i \in Invoices : paymentRef[i] # None =>
        Opened(paymentRef[i], i) /\ Told(paymentRef[i], i)

(* A payment that was opened was opened for an invoice.                     *)
OpenedFor ==
    /\ \A p \in Payments : payment[p] # "none" => madeFor[p] \in Invoices
    /\ \A h \in Handlers : pc[h] = "save" => payment[req[h].code] # "none"

(* The inductive invariant of the accounting.                               *)
MInv ==
    /\ IInv /\ crashes = 0
    /\ OpenedFor /\ RequestsOwn /\ RetriesTold /\ ReferencesTold /\ MoneyAccounted

(* What is opened stays opened. *)
LEMMA OpenedStays ==
    ASSUME TypeOK, [Next]_vars, NEW p, NEW i, Opened(p, i)
    PROVE  Opened(p, i)'
BY GatewayKeeps DEF Opened

(* No step undoes a paid invoice, or takes a warning back.                  *)
LEMMA PaidStays ==
    ASSUME IInv, [Next]_vars, NEW i \in Invoices
    PROVE  /\ status[i] = "paid" => status'[i] = "paid"
           /\ alerted[i] => alerted'[i]
<1> USE DEF IInv, TypeOK
<1>1. status[i] = "paid" => status'[i] = "paid"
    <2>1. ASSUME NEW h \in Handlers, Commit(h) \/ Announce(h) PROVE status[i] = "paid" => status'[i] = "paid"
        BY <2>1 DEF Commit, Announce, rowVars
    <2>2. ASSUME NEW k \in Invoices, Cancel(k) PROVE status[i] = "paid" => status'[i] = "paid"
        BY <2>2 DEF Cancel
    <2> QED BY <2>1, <2>2, OtherSteps
<1>2. alerted' = alerted \/ \E k \in Invoices : alerted' = [alerted EXCEPT ![k] = TRUE]
    <2>1. ASSUME NEW h \in Handlers, Arrive(h) PROVE alerted' = alerted
        BY <2>1 DEF Arrive, StartPay, ReturnWithoutRef, Return, PortalVerify, RetryVerify, MarkPaid, tellVars
    <2>2. ASSUME NEW h \in Handlers, Proceed(h) \/ Disturb(h), ~Alert(h) PROVE alerted' = alerted
        BY <2>2 DEF Proceed, Disturb, CreatePayment, CreateRefused, SaveCode, Reread, Verify, VerifyTimeout,
                    LockRow, Commit, Rollback, Announce, Record, RecordFails, tellVars
    <2>3. ASSUME NEW h \in Handlers, Alert(h)
          PROVE  req[h].inv \in Invoices /\ alerted' = [alerted EXCEPT ![req[h].inv] = TRUE]
        BY <2>3 DEF Alert, Requests
    <2>4. ASSUME (\E p \in Payments : Capture(p)) \/ (\E k \in Invoices : Cancel(k)) \/ Crash \/ UNCHANGED vars
          PROVE  alerted' = alerted
        BY <2>4 DEF Capture, Cancel, Crash, vars, tellVars
    <2> QED BY <2>1, <2>2, <2>3, <2>4 DEF Next
<1>3. alerted[i] => alerted'[i]
    BY <1>2
<1> QED BY <1>1, <1>3

(* Without restarts, what is told stays told.                               *)
LEMMA ToldStays ==
    ASSUME IInv, [Next]_vars, ~Crash, NEW p, NEW i \in Invoices, Told(p, i)
    PROVE  Told(p, i)'
<1>1. CASE status[i] = "paid" \/ alerted[i]
    BY <1>1, PaidStays DEF Told
<1>2. ASSUME NEW h \in Handlers, Telling(h, p, i)
      PROVE  Telling(h, p, i)' \/ alerted'[i]
    <2>1. \/ pc'[h] = pc[h] /\ req'[h] = req[h]
          \/ Alert(h)
        BY <1>2, HandlerMoves
           DEF Telling, IInv, Proceed, Disturb, Arrive, StartPay, ReturnWithoutRef, Return, PortalVerify,
               RetryVerify, MarkPaid, Begin, CreatePayment, CreateRefused, SaveCode, Reread,
               Verify, VerifyTimeout, LockRow, Commit, Rollback, Announce, Record, RecordFails
    <2>2. Alert(h) => alerted'[i]
        BY <1>2 DEF Telling, Alert, IInv, TypeOK
    <2> QED BY <1>2, <2>1, <2>2 DEF Telling
<1> QED BY <1>1, <1>2 DEF Told

(* Where nothing is promised of restarts there are none.                    *)
LEMMA NoCrash == Promised /\ MInv => ~Crash
BY DEF Promised, MInv, Crash

(* Every request that arrives carries a payment of its own invoice, or none. *)
LEMMA ArrivesOwn ==
    ASSUME Promised, MInv, NEW h \in Handlers, Arrive(h)
    PROVE  /\ UNCHANGED gatewayVars
           /\ \/ req'[h].ref = None /\ req'[h].kind # "retry"
              \/ req'[h].kind = "return" /\ Opened(req'[h].ref, req'[h].inv)
              \/ /\ req'[h].kind = "retry" /\ Opened(req'[h].ref, req'[h].inv)
                 /\ Told(req'[h].ref, req'[h].inv) /\ req'[h].inv \in Invoices
<1> USE DEF Begin, Request
<1>0. TypeOK
    BY DEF MInv, IInv
<1>1. PICK i \in Invoices :
          \/ StartPay(h, i) \/ ReturnWithoutRef(h, i) \/ Return(h, i)
          \/ RetryVerify(h, i) \/ MarkPaid(h, i)
    BY DEF Arrive, PortalVerify, Promised
<1>2. CASE StartPay(h, i) \/ ReturnWithoutRef(h, i) \/ MarkPaid(h, i)
    BY <1>0, <1>2 DEF StartPay, ReturnWithoutRef, MarkPaid, TypeOK
<1>3. CASE Return(h, i)
    <2>1. PICK p \in ReturnsTo(i) : /\ Taken(p)
                                  /\ \E c \in Codes(p) :
                                        req' = [req EXCEPT ![h] = Request("return", i, p, c, "none")]
        BY <1>3 DEF Return, ReturnsTo, Promised
    <2>2. Opened(p, i)
        BY <1>0, <2>1 DEF ReturnsTo, Taken, Opened, Promised
    <2>3. req'[h].kind = "return" /\ req'[h].ref = p /\ req'[h].inv = i
        BY <1>0, <2>1 DEF TypeOK
    <2> QED BY <1>3, <2>2, <2>3 DEF Return
<1>4. CASE RetryVerify(h, i)
    <2>1. Opened(paymentRef[i], i) /\ Told(paymentRef[i], i)
        BY <1>4 DEF RetryVerify, MInv, ReferencesTold
    <2>2. req'[h].kind = "retry" /\ req'[h].ref = paymentRef[i] /\ req'[h].inv = i
        BY <1>0, <1>4 DEF RetryVerify, TypeOK
    <2> QED BY <1>4, <2>1, <2>2 DEF RetryVerify
<1> QED BY <1>1, <1>2, <1>3, <1>4

(* A step leaves every request with a payment of its own invoice, and the    *)
(* retries with payments that the admin was told of.                        *)
LEMMA RequestsStep ==
    ASSUME Promised, MInv, [Next]_vars PROVE RequestsOwn' /\ RetriesTold'
<1>0. IInv /\ TypeOK /\ ~Crash
    BY NoCrash DEF MInv, IInv
<1>1. SUFFICES ASSUME NEW h \in Handlers, pc'[h] # "idle"
      PROVE  /\ \/ req'[h].ref = None /\ req'[h].kind # "retry"
                \/ req'[h].kind \in {"return", "retry"} /\ Opened(req[h].ref, req[h].inv)'
             /\ req'[h].kind = "retry" => Told(req[h].ref, req[h].inv)'
    BY DEF RequestsOwn, RetriesTold, Opened, Told, Telling
<1>2. CASE pc[h] # "idle"
    <2>1. KeepsRequest(h) /\ req[h].inv \in Invoices
        BY <1>0, <1>1, <1>2, RequestKept DEF TypeOK, Requests
    <2>2. \/ req[h].ref = None /\ req[h].kind # "retry"
          \/ req[h].kind \in {"return", "retry"} /\ Opened(req[h].ref, req[h].inv)
        BY <1>2 DEF MInv, RequestsOwn
    <2>3. req[h].kind = "retry" => Told(req[h].ref, req[h].inv)
        BY <1>2 DEF MInv, RetriesTold
    <2> DEFINE p == req[h].ref  i == req[h].inv
    <2>4. Opened(p, i) => payment'[p] # "none" /\ madeFor'[p] = i /\ p \in Payments
        BY <1>0, OpenedStays DEF Opened
    <2>5. Told(p, i) => \/ status'[i] = "paid" \/ alerted'[i]
                       \/ \E k \in Handlers : pc'[k] = "alert" /\ req'[k].ref = p /\ req'[k].inv = i
        BY <1>0, <2>1, ToldStays DEF Told, Telling
    <2> QED BY <2>1, <2>2, <2>3, <2>4, <2>5 DEF KeepsRequest, Opened, Told, Telling
<1>3. CASE pc[h] = "idle"
    <2>1. Arrive(h)
        BY <1>0, <1>1, <1>3, RequestKept
    <2> DEFINE p == req'[h].ref  i == req'[h].inv
    <2>2. Opened(p, i) => payment'[p] # "none" /\ madeFor'[p] = i /\ p \in Payments
        BY <2>1, ArrivesOwn DEF Opened, gatewayVars
    <2>3. Told(p, i) /\ i \in Invoices =>
              \/ status'[i] = "paid" \/ alerted'[i]
              \/ \E k \in Handlers : pc'[k] = "alert" /\ req'[k].ref = p /\ req'[k].inv = i
        <3> SUFFICES ASSUME i \in Invoices, Told(p, i)
                     PROVE  \/ status'[i] = "paid" \/ alerted'[i]
                            \/ \E k \in Handlers : pc'[k] = "alert" /\ req'[k].ref = p /\ req'[k].inv = i
            OBVIOUS
        <3>1. UNCHANGED <<status, alerted>>
            BY <2>1 DEF Arrive, StartPay, ReturnWithoutRef, Return, PortalVerify, RetryVerify, MarkPaid,
                        rowVars, tellVars
        <3>2. \A k \in Handlers : Telling(k, p, i) => pc'[k] = "alert" /\ req'[k].ref = p /\ req'[k].inv = i
            BY <1>0, <1>3, <2>1, OthersAlone DEF Telling
        <3> QED BY <3>1, <3>2 DEF Told
    <2> QED BY <2>1, <2>2, <2>3, ArrivesOwn DEF Opened, Told, Telling
<1> QED BY <1>2, <1>3

(* A step opens a payment only for an invoice.                              *)
LEMMA OpenedForStep == ASSUME MInv, [Next]_vars PROVE OpenedFor'
<1> USE DEF MInv, IInv, TypeOK
<1>0. OpenedFor
    OBVIOUS
<1>1. ASSUME NEW p \in Payments, payment'[p] # "none" PROVE madeFor'[p] \in Invoices
    <2>1. CASE payment[p] # "none"
        BY <2>1, <1>0, GatewayKeeps DEF OpenedFor
    <2>2. CASE payment[p] = "none"
        <3>1. ASSUME NEW h \in Handlers, CreatePayment(h) PROVE madeFor'[p] \in Invoices
            <4>1. req[h].inv \in Invoices
                BY <3>1 DEF CreatePayment, Requests
            <4> QED BY <3>1, <4>1, <1>1, <2>2 DEF CreatePayment
        <3>2. ASSUME NEW h \in Handlers, SaveCode(h) PROVE FALSE
            BY <3>2, <1>0, <1>1, <2>2 DEF SaveCode, OpenedFor
        <3>3. ASSUME NEW h \in Handlers, Verify(h) \/ VerifyTimeout(h) PROVE FALSE
            BY <3>3, <1>1, <2>2 DEF Verify, VerifyTimeout, Accept, Acceptable
        <3>4. ASSUME NEW h \in Handlers, Arrive(h) \/ Proceed(h) \/ Disturb(h),
                     ~CreatePayment(h), ~SaveCode(h), ~Verify(h), ~VerifyTimeout(h)
              PROVE  FALSE
            BY <3>4, <1>1, <2>2
               DEF Arrive, StartPay, ReturnWithoutRef, Return, PortalVerify, RetryVerify, MarkPaid,
                   Proceed, CreateRefused, Reread, LockRow, Commit, Announce, Record, Alert,
                   Disturb, Rollback, RecordFails, gatewayVars
        <3>5. ASSUME NEW q \in Payments, Capture(q) PROVE FALSE
            BY <3>5, <1>1, <2>2 DEF Capture
        <3>6. ~(Crash \/ (\E i \in Invoices : Cancel(i)) \/ UNCHANGED vars)
            BY <1>1, <2>2 DEF Crash, Cancel, vars, gatewayVars
        <3> QED BY <3>1, <3>2, <3>3, <3>4, <3>5, <3>6 DEF Next
    <2> QED BY <2>1, <2>2
<1>2. ASSUME NEW h \in Handlers, pc'[h] = "save" PROVE payment'[req'[h].code] # "none"
    <2>1. CASE pc'[h] = pc[h] /\ req'[h] = req[h]
        BY <2>1, <1>0, <1>2, GatewayKeeps DEF OpenedFor
    <2>2. CASE CreatePayment(h)
        <3>1. PICK p \in Payments : /\ payment' = [payment EXCEPT ![p] = "created"]
                                  /\ req' = [req EXCEPT ![h].code = p]
            BY <2>2, <1>2, ZenonT(30) DEF CreatePayment, Finish, GoTo
        <3>2. req[h] \in Requests
            BY <2>2 DEF CreatePayment
        <3>3. req'[h].code = p
            BY <3>1, <3>2 DEF Requests
        <3> QED BY <3>1, <3>3
    <2>3. ~Arrive(h) /\ (Proceed(h) \/ Disturb(h) => CreatePayment(h))
        <3>1. ~Arrive(h)
            BY <1>2 DEF Arrive, StartPay, ReturnWithoutRef, Return, PortalVerify, RetryVerify, MarkPaid,
                        Begin, GoTo
        <3>2. ~LockRow(h)
            <4> SUFFICES ASSUME LockRow(h) PROVE pc'[h] \in {"idle", "record", "locked"}
                BY <1>2
            <4>1. pc[h] = "settle" /\ status[req[h].inv] \in {"paid", "canceled", "unpaid"}
                BY DEF LockRow, Requests, Statuses
            <4>2. CASE status[req[h].inv] = "paid"
                BY <4>1, <4>2 DEF LockRow, Finish, GoTo
            <4>3. CASE status[req[h].inv] = "canceled"
                <5>1. Fail(h, "canceled")
                    BY <4>3 DEF LockRow
                <5> QED BY <5>1 DEF Fail, Finish, GoTo
            <4>4. CASE status[req[h].inv] = "unpaid"
                BY <4>1, <4>4 DEF LockRow, GoTo
            <4> QED BY <4>1, <4>2, <4>3, <4>4
        <3>3. ~(CreateRefused(h) \/ SaveCode(h) \/ Reread(h) \/ Commit(h) \/ Announce(h) \/ Record(h) \/ Alert(h))
            BY <1>2 DEF CreateRefused, SaveCode, Reread, Commit, Announce, Record, Alert, GoTo, Finish
        <3>4. ~(Verify(h) \/ VerifyTimeout(h) \/ Rollback(h) \/ RecordFails(h))
            BY <1>2 DEF Verify, VerifyTimeout, Rollback, RecordFails, GoTo, Finish, Fail
        <3> QED BY <3>1, <3>2, <3>3, <3>4 DEF Proceed, Disturb
    <2> QED BY <1>2, <2>1, <2>2, <2>3, HandlerMoves
<1> QED BY <1>1, <1>2 DEF OpenedFor

(* The reference on an invoice is written by a commit, or by a note that     *)
(* goes on to warn the admin.                                               *)
LEMMA ReferencesStep == ASSUME Promised, MInv, [Next]_vars PROVE ReferencesTold'
<1>0. IInv /\ TypeOK /\ ~Crash
    BY NoCrash DEF MInv, IInv
<1>1. SUFFICES ASSUME NEW i \in Invoices, paymentRef'[i] # None
      PROVE  Opened(paymentRef[i], i)' /\ Told(paymentRef[i], i)'
    BY DEF ReferencesTold
<1>2. ASSUME NEW h \in Handlers, req[h].inv = i, req[h].ref # None, pc[h] # "idle",
             paymentRef'[i] = req[h].ref
      PROVE  Opened(paymentRef[i], i)'
    <2>1. Opened(req[h].ref, i)
        BY <1>2 DEF MInv, RequestsOwn
    <2> QED BY <1>0, <1>2, <2>1, OpenedStays DEF Opened
<1>3. CASE paymentRef'[i] = paymentRef[i]
    <2>1. Opened(paymentRef[i], i) /\ Told(paymentRef[i], i)
        BY <1>1, <1>3 DEF MInv, ReferencesTold
    <2> DEFINE p == paymentRef[i]
    <2>2. payment'[p] # "none" /\ madeFor'[p] = i /\ p \in Payments
        BY <1>0, <2>1, OpenedStays DEF Opened
    <2>3. \/ status'[i] = "paid" \/ alerted'[i]
          \/ \E k \in Handlers : pc'[k] = "alert" /\ req'[k].ref = p /\ req'[k].inv = i
        BY <1>0, <2>1, ToldStays DEF Told, Telling
    <2> QED BY <1>3, <2>2, <2>3 DEF Opened, Told, Telling
<1>4. ASSUME NEW h \in Handlers, Commit(h)
      PROVE  Opened(paymentRef[i], i)' /\ Told(paymentRef[i], i)'
    <2>1. CASE req[h].inv # i \/ req[h].ref = None
        BY <1>0, <1>3, <1>4, <2>1 DEF Commit, Coalesce, TypeOK, Requests
    <2>2. CASE req[h].inv = i /\ req[h].ref # None
        <3>1. paymentRef'[i] = req[h].ref /\ status'[i] = "paid" /\ pc[h] # "idle"
            BY <1>0, <1>4, <2>2 DEF Commit, Coalesce, TypeOK
        <3> QED BY <1>2, <2>2, <3>1 DEF Told
    <2> QED BY <2>1, <2>2
<1>5. ASSUME NEW h \in Handlers, Record(h)
      PROVE  Opened(paymentRef[i], i)' /\ Told(paymentRef[i], i)'
    <2>1. CASE req[h].inv # i \/ req[h].ref = None
        BY <1>0, <1>3, <1>5, <2>1 DEF Record, Coalesce, TypeOK, Requests
    <2>2. CASE req[h].inv = i /\ req[h].ref # None
        <3>1. pc[h] # "idle" /\ pc'[h] = "alert" /\ req' = req
            BY <1>0, <1>5 DEF Record, GoTo, TypeOK
        <3>2. paymentRef'[i] = paymentRef[i] \/ paymentRef'[i] = req[h].ref
            BY <1>0, <1>5, <2>2 DEF Record, Coalesce, TypeOK
        <3> QED BY <1>2, <1>3, <2>2, <3>1, <3>2 DEF Told, Telling
    <2> QED BY <2>1, <2>2
<1>6. ASSUME ~\E h \in Handlers : Commit(h) \/ Record(h) PROVE paymentRef' = paymentRef
    <2>1. ASSUME NEW h \in Handlers, Arrive(h) PROVE paymentRef' = paymentRef
        BY <2>1 DEF Arrive, StartPay, ReturnWithoutRef, Return, PortalVerify, RetryVerify,
            MarkPaid, rowVars
    <2>2. ASSUME NEW h \in Handlers, Proceed(h) PROVE paymentRef' = paymentRef
        BY <1>6, <2>2 DEF Proceed, CreatePayment, CreateRefused, SaveCode, Reread, Verify, LockRow,
            Announce, Alert, rowVars
    <2>3. ASSUME NEW h \in Handlers, Disturb(h) PROVE paymentRef' = paymentRef
        BY <2>3 DEF Disturb, VerifyTimeout, Rollback, RecordFails, rowVars
    <2>4. CASE (\E p \in Payments : Capture(p)) \/ (\E j \in Invoices : Cancel(j)) \/ Crash
        BY <2>4 DEF Capture, Cancel, Crash, rowVars
    <2>5. CASE UNCHANGED vars
        BY <2>5 DEF vars, rowVars
    <2> QED BY <1>0, <2>1, <2>2, <2>3, <2>4, <2>5 DEF Next
<1> QED BY <1>3, <1>4, <1>5, <1>6

(* Payment p has paid its invoice, or the admin was told, or a handler has   *)
(* it at hand.                                                              *)
Accounted(p) == status[madeFor[p]] = "paid" \/ alerted[madeFor[p]] \/ Carried(p)

(* What the admin was told of is accounted for.                             *)
LEMMA ToldAccounts ==
    ASSUME IInv, [Next]_vars, ~Crash, NEW p, NEW i \in Invoices, Told(p, i)
    PROVE  status'[i] = "paid" \/ alerted'[i] \/ Carried(p)'
<1>1. Told(p, i)'
    BY ToldStays
<1> QED BY <1>1 DEF Told, Telling, Carried

(* Whoever fails with a payment at hand goes on to warn the admin, who knows  *)
(* already if it is the panel's retry.                                      *)
LEMMA FailAccounts ==
    ASSUME Promised, MInv, [Next]_vars, NEW h \in Handlers, pc[h] # "idle", NEW p \in Payments,
           req[h].ref = p, NEW why \in Reasons, Fail(h, why)
    PROVE  Accounted(p)'
<1>0. IInv /\ TypeOK /\ ~Crash /\ req[h] \in Requests /\ p # None
    BY NoCrash, NoneAssumption DEF MInv, IInv, TypeOK
<1>1. req[h].kind \in {"return", "retry"} /\ Opened(p, req[h].inv)
    BY <1>0 DEF MInv, RequestsOwn
<1>2. madeFor'[p] = req[h].inv /\ req[h].inv \in Invoices
    BY <1>0, <1>1, GatewayKeeps DEF Opened, Requests
<1>3. CASE req[h].kind = "return"
    <2>1. pc' = [pc EXCEPT ![h] = "record"] /\ req' = [req EXCEPT ![h].why = why]
        BY <1>3 DEF Fail, GoTo
    <2>2. pc'[h] = "record" /\ req'[h].ref = p
        BY <1>0, <2>1 DEF TypeOK, Requests
    <2> QED BY <2>2 DEF Accounted, Carried
<1>4. CASE req[h].kind = "retry"
    <2>1. Told(p, req[h].inv)
        BY <1>4 DEF MInv, RetriesTold
    <2> QED BY <1>0, <1>2, <2>1, ToldAccounts DEF Accounted
<1> QED BY <1>1, <1>3, <1>4

(* No step leaves a verified payment with nobody.                           *)
LEMMA AccountedStep == ASSUME Promised, MInv, [Next]_vars PROVE MoneyAccounted'
<1>0. IInv /\ TypeOK /\ ~Crash
    BY NoCrash DEF MInv, IInv
<1>1. SUFFICES ASSUME NEW p \in Payments, payment'[p] = "verified" PROVE Accounted(p)'
    BY DEF MoneyAccounted, Accounted
(* Of a handler that carries the payment.                                   *)
<1>2. ASSUME NEW h \in Handlers, pc[h] \in {"settle", "locked", "record", "alert"}, req[h].ref = p
      PROVE  Accounted(p)'
    <2>0. req[h] \in Requests /\ pc[h] # "idle" /\ p # None
        BY <1>0, <1>2, NoneAssumption DEF TypeOK
    <2>1. Opened(p, req[h].inv)
        BY <1>2, <2>0 DEF MInv, RequestsOwn
    <2>2. madeFor'[p] = req[h].inv /\ req[h].inv \in Invoices
        BY <1>0, <2>0, <2>1, GatewayKeeps DEF Opened, Requests
    <2>3. CASE pc'[h] = pc[h] /\ req'[h] = req[h]
        BY <1>2, <2>3 DEF Accounted, Carried
    <2>4. CASE LockRow(h)
        <3>1. status[req[h].inv] \in {"paid", "canceled", "unpaid"} /\ UNCHANGED status
            BY <1>0, <2>2, <2>4 DEF LockRow, TypeOK, Statuses, rowVars
        <3>2. CASE status[req[h].inv] = "paid"
            BY <2>2, <3>1, <3>2 DEF Accounted
        <3>3. CASE status[req[h].inv] = "canceled"
            <4>1. Fail(h, "canceled") /\ "canceled" \in Reasons
                BY <2>4, <3>3 DEF LockRow, Reasons
            <4> QED BY <1>2, <2>0, <4>1, FailAccounts
        <3>4. CASE status[req[h].inv] = "unpaid"
            <4>1. pc'[h] = "locked" /\ req' = req
                BY <1>0, <2>4, <3>4 DEF LockRow, GoTo, TypeOK
            <4> QED BY <1>2, <4>1 DEF Accounted, Carried
        <3> QED BY <3>1, <3>2, <3>3, <3>4
    <2>5. CASE Commit(h)
        <3>1. status'[req[h].inv] = "paid"
            BY <1>0, <2>2, <2>5 DEF Commit, TypeOK
        <3> QED BY <2>2, <3>1 DEF Accounted
    <2>6. CASE Rollback(h)
        <3>1. Fail(h, "failed") /\ "failed" \in Reasons
            BY <2>6 DEF Rollback, Reasons
        <3> QED BY <1>2, <2>0, <3>1, FailAccounts
    <2>7. CASE Record(h) \/ RecordFails(h)
        <3>1. pc'[h] = "alert" /\ req' = req
            BY <1>0, <2>7 DEF Record, RecordFails, GoTo, TypeOK
        <3> QED BY <1>2, <3>1 DEF Accounted, Carried
    <2>8. CASE Alert(h)
        <3>1. alerted'[req[h].inv]
            BY <1>0, <2>2, <2>8 DEF Alert, TypeOK
        <3> QED BY <2>2, <3>1 DEF Accounted
    <2>9. ~Arrive(h)
        BY <1>2 DEF Arrive, StartPay, ReturnWithoutRef, Return, PortalVerify, RetryVerify, MarkPaid, Begin
    <2>10. ~(CreatePayment(h) \/ CreateRefused(h) \/ SaveCode(h) \/ Reread(h) \/ Verify(h)
             \/ VerifyTimeout(h) \/ Announce(h))
        BY <1>2 DEF CreatePayment, CreateRefused, SaveCode, Reread, Verify, VerifyTimeout, Announce
    <2> QED BY <1>0, <2>3, <2>4, <2>5, <2>6, <2>7, <2>8, <2>9, <2>10, HandlerMoves DEF Proceed, Disturb
<1>3. CASE payment[p] = "verified"
    <2>1. madeFor'[p] = madeFor[p] /\ madeFor[p] \in Invoices
        BY <1>0, <1>3, GatewayKeeps DEF MInv, OpenedFor
    <2>2. Accounted(p)
        BY <1>3 DEF MInv, MoneyAccounted, Accounted
    <2>3. CASE status[madeFor[p]] = "paid" \/ alerted[madeFor[p]]
        BY <1>0, <2>1, <2>3, PaidStays DEF Accounted
    <2> QED BY <1>2, <2>2, <2>3 DEF Accounted, Carried
<1>4. CASE payment[p] # "verified"
    <2>1. PICK h \in Handlers : (Verify(h) \/ VerifyTimeout(h)) /\ Acceptable(h) /\ req[h].ref = p
        <3>1. ASSUME NEW h \in Handlers, Arrive(h) \/ Proceed(h) \/ Disturb(h),
                     ~Verify(h), ~VerifyTimeout(h)
              PROVE  FALSE
            BY <1>0, <1>1, <1>4, <3>1
               DEF Arrive, StartPay, ReturnWithoutRef, Return, PortalVerify, RetryVerify, MarkPaid,
                   Proceed, CreatePayment, CreateRefused, SaveCode, Reread, LockRow, Commit, Announce,
                   Record, Alert, Disturb, Rollback, RecordFails, gatewayVars, TypeOK
        <3>2. ~\E q \in Payments : Capture(q)
            BY <1>0, <1>1, <1>4 DEF Capture, TypeOK
        <3>3. ~((\E i \in Invoices : Cancel(i)) \/ UNCHANGED vars)
            BY <1>1, <1>4 DEF Cancel, vars, gatewayVars
        <3>4. ASSUME NEW h \in Handlers, Verify(h) \/ VerifyTimeout(h)
              PROVE  Acceptable(h) /\ req[h].ref = p
            BY <1>0, <1>1, <1>4, <3>4 DEF Verify, VerifyTimeout, Accept, TypeOK
        <3> QED BY <1>0, <3>1, <3>2, <3>3, <3>4 DEF Next
    <2>2. CASE Verify(h)
        <3>1. pc'[h] = "settle" /\ req' = req
            BY <1>0, <2>1, <2>2 DEF Verify, GoTo, TypeOK
        <3> QED BY <2>1, <3>1 DEF Accounted, Carried
    <2>3. CASE VerifyTimeout(h)
        <3>1. Fail(h, "lost") /\ "lost" \in Reasons /\ pc[h] # "idle"
            BY <2>3 DEF VerifyTimeout, Reasons
        <3> QED BY <2>1, <3>1, FailAccounts
    <2> QED BY <2>1, <2>2, <2>3
<1> QED BY <1>3, <1>4

(* Where the program promises it, money that the gateway settled is always   *)
(* accounted for: by a paid invoice, by a warned admin, or by a request that *)
(* still carries it to one of them (pay/return, recordFailure).             *)
THEOREM MoneySafe ==
    ASSUME Promised PROVE Spec => []MoneyAccounted
<1>1. Init => MInv
    BY InitIInv DEF Init, MInv, OpenedFor, RequestsOwn, RetriesTold, ReferencesTold, MoneyAccounted
<1>2. MInv /\ [Next]_vars => MInv'
    <2> SUFFICES ASSUME MInv, [Next]_vars PROVE MInv'
        OBVIOUS
    <2>1. IInv' /\ ~Crash
        BY NoCrash, StepIInv DEF MInv
    <2>2. crashes' = crashes
        <3>1. ASSUME NEW h \in Handlers, Arrive(h) PROVE crashes' = crashes
            BY <3>1 DEF Arrive, StartPay, ReturnWithoutRef, Return, PortalVerify, RetryVerify,
                MarkPaid, boundVars
        <3>2. ASSUME NEW h \in Handlers, Proceed(h) PROVE crashes' = crashes
            BY <3>2 DEF Proceed, CreatePayment, CreateRefused, SaveCode, Reread, Verify, LockRow,
                Commit, Announce, Record, Alert, boundVars, Fault
        <3>3. ASSUME NEW h \in Handlers, Disturb(h) PROVE crashes' = crashes
            BY <3>3 DEF Disturb, VerifyTimeout, Rollback, RecordFails, Fault, boundVars
        <3>4. ASSUME NEW p \in Payments, Capture(p) PROVE crashes' = crashes
            BY <3>4 DEF Capture, boundVars
        <3>5. ASSUME NEW i \in Invoices, Cancel(i) PROVE crashes' = crashes
            BY <3>5 DEF Cancel, boundVars
        <3>6. CASE UNCHANGED vars
            BY <3>6 DEF vars, boundVars
        <3> QED BY <2>1, <3>1, <3>2, <3>3, <3>4, <3>5, <3>6 DEF Next
    <2> QED BY <2>1, <2>2, OpenedForStep, RequestsStep, ReferencesStep, AccountedStep DEF MInv
<1>3. MInv => MoneyAccounted
    BY DEF MInv
<1> QED BY <1>1, <1>2, <1>3, PTL DEF Spec
=============================================================================
