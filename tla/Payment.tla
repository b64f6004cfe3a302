------------------------------ MODULE Payment ------------------------------
(***************************************************************************)
(* The path of a payment: the request handlers of the web process (start,  *)
(* gateway return, portal verification, the panel's retry and manual       *)
(* registration), the row lock of settleInvoice, and the PayPing gateway   *)
(* as the handlers use it.  Requests interleave at every database          *)
(* statement and gateway call; answers get lost; the process restarts.     *)
(*                                                                         *)
(* Amounts are left out: the handlers always send the invoice's own.       *)
(***************************************************************************)
EXTENDS Naturals

CONSTANTS
    Invoices,       \* the rows of table invoices
    Payments,       \* payments the gateway can open: the code and the refId of one
    Handlers,       \* requests the web process serves at the same time
    None,           \* SQL NULL, and "nobody" for a lock
    RequestKinds,   \* the routes in use, a subset of AllKinds
    Misdirected,    \* may a return reach the address of another invoice?
    MaxFaults,      \* bound on lost gateway messages and failed statements
    MaxCrashes      \* bound on restarts of the web process

AllKinds == {"start", "return", "verify", "retry", "mark"}

ASSUME NoneAssumption == None \notin (Handlers \cup Payments \cup Invoices)
ASSUME KindsAssumption == RequestKinds \subseteq AllKinds
ASSUME MisdirectedAssumption == Misdirected \in BOOLEAN
ASSUME BoundsAssumption == MaxFaults \in Nat /\ MaxCrashes \in Nat

VARIABLES
    status,         \* invoices.status
    paymentRef,     \* invoices.payment_ref
    paymentCode,    \* invoices.payment_code
    paymentError,   \* is invoices.payment_error set?
    rowLock,        \* the transaction that holds the row: FOR UPDATE OF i
    delivered,      \* how often settleInvoice handed the service over
    announced,      \* how often announcePaid ran
    alerted,        \* was the admin told that a payment was not verified?
    stray,          \* history: what became of a payment's returns to an invoice not its own
    payment,        \* the gateway's view of each payment
    madeFor,        \* the invoice a payment was opened for (clientRefId)
    pc,             \* where each handler is
    req,            \* the request it serves
    faults,
    crashes

rowVars == <<status, paymentRef, paymentCode, paymentError, delivered>>
gatewayVars == <<payment, madeFor>>
tellVars == <<announced, alerted, stray>>
handlerVars == <<pc, req>>
boundVars == <<faults, crashes>>
vars == <<rowVars, rowLock, tellVars, gatewayVars, handlerVars, boundVars>>

Statuses == {"unpaid", "paid", "canceled"}

(* created: opened, but its link has not reached the customer; offered: the *)
(* customer has the link; captured: the money left the customer's account;  *)
(* verified: the gateway has accepted a verify call and settles the money.  *)
PaymentStates == {"none", "created", "offered", "captured", "verified"}

Places == {"idle", "create", "save", "reread", "verify", "settle", "locked",
           "announce", "record", "alert"}

Reasons == {"none", "noRefId", "mismatch", "rejected", "lost", "canceled", "failed"}

Requests == [kind : AllKinds, inv : Invoices, ref : Payments \cup {None},
             code : Payments \cup {None}, why : Reasons]

Request(k, i, r, c, w) == [kind |-> k, inv |-> i, ref |-> r, code |-> c, why |-> w]

(* SQL's COALESCE(x, y) and TypeScript's x || y on an absent value. *)
Coalesce(x, y) == IF x = None THEN y ELSE x

Init ==
    /\ status = [i \in Invoices |-> "unpaid"]
    /\ paymentRef = [i \in Invoices |-> None]
    /\ paymentCode = [i \in Invoices |-> None]
    /\ paymentError = [i \in Invoices |-> FALSE]
    /\ rowLock = [i \in Invoices |-> None]
    /\ delivered = [i \in Invoices |-> 0]
    /\ announced = [i \in Invoices |-> 0]
    /\ alerted = [i \in Invoices |-> FALSE]
    /\ stray = [p \in Payments |-> [i \in Invoices |-> "none"]]
    /\ payment = [p \in Payments |-> "none"]
    /\ madeFor = [p \in Payments |-> None]
    /\ pc = [h \in Handlers |-> "idle"]
    /\ req = [h \in Handlers |-> None]
    /\ faults = 0
    /\ crashes = 0

-----------------------------------------------------------------------------
(* The bookkeeping of a handler. *)

GoTo(h, place) == pc' = [pc EXCEPT ![h] = place]

Begin(h, place, r) ==
    /\ pc[h] = "idle"
    /\ GoTo(h, place)
    /\ req' = [req EXCEPT ![h] = r]

Finish(h) ==
    /\ GoTo(h, "idle")
    /\ req' = [req EXCEPT ![h] = None]

(* An error a handler raises, or a result that is not ok.  Only the return *)
(* route records it; the other routes answer with an HTTP error.           *)
Fail(h, why) ==
    IF req[h].kind = "return"
    THEN /\ GoTo(h, "record")
         /\ req' = [req EXCEPT ![h].why = why]
    ELSE Finish(h)

Fault ==
    /\ faults < MaxFaults
    /\ faults' = faults + 1
    /\ UNCHANGED crashes

(* A statement that writes the row waits while another transaction has it. *)
RowFree(i) == rowLock[i] = None

-----------------------------------------------------------------------------
(* POST /api/portal/invoices/[id]/pay: open a payment and store its code. *)

StartPay(h, i) ==
    /\ "start" \in RequestKinds
    /\ status[i] = "unpaid"
    /\ Begin(h, "create", Request("start", i, None, None, "none"))
    /\ UNCHANGED <<rowVars, rowLock, tellVars, gatewayVars, boundVars>>

CreatePayment(h) ==
    /\ pc[h] = "create"
    /\ \E p \in Payments :
         /\ payment[p] = "none"
         /\ payment' = [payment EXCEPT ![p] = "created"]
         /\ madeFor' = [madeFor EXCEPT ![p] = req[h].inv]
         /\ \/ /\ GoTo(h, "save")
               /\ req' = [req EXCEPT ![h].code = p]
               /\ UNCHANGED boundVars
            \/ Fault /\ Finish(h)
    /\ UNCHANGED <<rowVars, rowLock, tellVars>>

(* The gateway refuses or cannot be reached: the customer sees an error. *)
CreateRefused(h) ==
    /\ pc[h] = "create"
    /\ Finish(h)
    /\ UNCHANGED <<rowVars, rowLock, tellVars, gatewayVars, boundVars>>

(* The update has no condition on status, and drops the previous code. *)
SaveCode(h) ==
    /\ pc[h] = "save"
    /\ RowFree(req[h].inv)
    /\ paymentCode' = [paymentCode EXCEPT ![req[h].inv] = req[h].code]
    /\ payment' = [payment EXCEPT ![req[h].code] = "offered"]
    /\ Finish(h)
    /\ UNCHANGED <<status, paymentRef, paymentError, delivered, rowLock, tellVars,
                   madeFor, boundVars>>

(* The customer pays at the gateway, whatever became of the invoice since. *)
Capture(p) ==
    /\ payment[p] = "offered"
    /\ payment' = [payment EXCEPT ![p] = "captured"]
    /\ UNCHANGED <<rowVars, rowLock, tellVars, madeFor, handlerVars, boundVars>>

-----------------------------------------------------------------------------
(* The gateway sends the customer back, once or again (a refresh).  The    *)
(* callback carries the code or not; without a refId the customer gave up. *)

Taken(p) == payment[p] \in {"captured", "verified"}

(* Payments whose return may reach the address of invoice i. *)
ReturnsTo(i) == {p \in Payments : madeFor[p] = i \/ (Misdirected /\ madeFor[p] # None)}

Codes(p) == {p, None}

(* A return of p to an invoice it was not opened for is refused when the    *)
(* number came back with it (clientRefId), and let in once it has not.      *)
Strays == {"none", "refused", "let in"}

NoteStray(p, i, numbered) ==
    IF madeFor[p] = i \/ (numbered /\ stray[p][i] = "let in")
    THEN UNCHANGED stray
    ELSE stray' = [stray EXCEPT ![p][i] = IF numbered THEN "refused" ELSE "let in"]

ReturnWithoutRef(h, i) ==
    /\ "return" \in RequestKinds
    /\ status[i] # "paid"
    /\ \E p \in ReturnsTo(i) : \E c \in Codes(p) :
         /\ payment[p] = "offered"
         /\ Begin(h, "record", Request("return", i, None, c, "noRefId"))
    /\ UNCHANGED <<rowVars, rowLock, tellVars, gatewayVars, boundVars>>

(* Mutated form: the number that comes back is not compared. *)
ReturnUnchecked(h, i) ==
    /\ "return" \in RequestKinds
    /\ status[i] # "paid"
    /\ \E p \in ReturnsTo(i) : \E c \in Codes(p) : \E numbered \in BOOLEAN :
         /\ Taken(p)
         /\ Begin(h, "reread", Request("return", i, p, c, "none"))
         /\ NoteStray(p, i, numbered)
    /\ UNCHANGED <<rowVars, rowLock, announced, alerted, gatewayVars, boundVars>>

(* The number is compared if it came back; without one the return goes on.  *)
Return(h, i) ==
    /\ "return" \in RequestKinds
    /\ status[i] # "paid"
    /\ \E p \in ReturnsTo(i) : \E c \in Codes(p) : \E numbered \in BOOLEAN :
         /\ Taken(p)
         /\ IF numbered /\ madeFor[p] # i
            THEN Begin(h, "record", Request("return", i, p, c, "mismatch"))
            ELSE Begin(h, "reread", Request("return", i, p, c, "none"))
         /\ NoteStray(p, i, numbered)
    /\ UNCHANGED <<rowVars, rowLock, announced, alerted, gatewayVars, boundVars>>

(* The portal's own verification: no check of the number, no first read. *)
PortalVerify(h, i) ==
    /\ "verify" \in RequestKinds
    /\ \E p \in Payments : \E c \in Codes(p) :
         /\ Taken(p) /\ madeFor[p] = i
         /\ Begin(h, "reread", Request("verify", i, p, c, "none"))
    /\ UNCHANGED <<rowVars, rowLock, tellVars, gatewayVars, boundVars>>

(* The panel's "retry_verify", from what an earlier failure left behind. *)
RetryVerify(h, i) ==
    /\ "retry" \in RequestKinds
    /\ status[i] # "paid"
    /\ paymentRef[i] # None
    /\ Begin(h, "reread", Request("retry", i, paymentRef[i], paymentCode[i], "none"))
    /\ UNCHANGED <<rowVars, rowLock, tellVars, gatewayVars, boundVars>>

(* The panel's "mark_paid", for cash and card transfers. *)
MarkPaid(h, i) ==
    /\ "mark" \in RequestKinds
    /\ Begin(h, "settle", Request("mark", i, None, None, "none"))
    /\ UNCHANGED <<rowVars, rowLock, tellVars, gatewayVars, boundVars>>

-----------------------------------------------------------------------------
(* verifyAndSettle: an unlocked read, the gateway, then settleInvoice. *)

Reread(h) ==
    LET i == req[h].inv IN
    /\ pc[h] = "reread"
    /\ IF status[i] = "paid"
       THEN Finish(h)
       ELSE /\ GoTo(h, "verify")
            /\ req' = [req EXCEPT ![h].code = Coalesce(@, paymentCode[i])]
    /\ UNCHANGED <<rowVars, rowLock, tellVars, gatewayVars, boundVars>>

(* The gateway accepts a verify call once, and only with the right code. *)
Acceptable(h) == payment[req[h].ref] = "captured" /\ req[h].code = req[h].ref

Accept(h) == payment' = [payment EXCEPT ![req[h].ref] = "verified"]

Verify(h) ==
    /\ pc[h] = "verify"
    /\ IF Acceptable(h)
       THEN Accept(h) /\ GoTo(h, "settle") /\ UNCHANGED req
       ELSE Fail(h, "rejected") /\ UNCHANGED payment
    /\ UNCHANGED <<rowVars, rowLock, tellVars, madeFor, boundVars>>

(* Twenty seconds pass: the call, or only its answer, was lost. *)
VerifyTimeout(h) ==
    /\ pc[h] = "verify"
    /\ Fault
    /\ \/ UNCHANGED payment
       \/ Acceptable(h) /\ Accept(h)
    /\ Fail(h, "lost")
    /\ UNCHANGED <<rowVars, rowLock, tellVars, madeFor>>

(* Mutated form: a refresh of the return page announces again. *)
LockRowRepeats(h) ==
    LET i == req[h].inv IN
    /\ pc[h] = "settle"
    /\ RowFree(i)
    /\ CASE status[i] = "paid"     -> GoTo(h, "announce") /\ UNCHANGED <<req, rowLock>>
         [] status[i] = "canceled" -> Fail(h, "canceled") /\ UNCHANGED rowLock
         [] status[i] = "unpaid"   -> /\ rowLock' = [rowLock EXCEPT ![i] = h]
                                      /\ GoTo(h, "locked")
                                      /\ UNCHANGED req
    /\ UNCHANGED <<rowVars, tellVars, gatewayVars, boundVars>>

(* SELECT ... FOR UPDATE: waits for the row, then reads its last version. *)
LockRow(h) ==
    LET i == req[h].inv IN
    /\ pc[h] = "settle"
    /\ RowFree(i)
    /\ CASE status[i] = "paid"     -> Finish(h) /\ UNCHANGED rowLock
         [] status[i] = "canceled" -> Fail(h, "canceled") /\ UNCHANGED rowLock
         [] status[i] = "unpaid"   -> /\ rowLock' = [rowLock EXCEPT ![i] = h]
                                      /\ GoTo(h, "locked")
                                      /\ UNCHANGED req
    /\ UNCHANGED <<rowVars, tellVars, gatewayVars, boundVars>>

(* The updates of the transaction and its COMMIT.  What is delivered for  *)
(* each kind of invoice is detailed in Shop.tla and Renewal.tla.           *)
Commit(h) ==
    LET i == req[h].inv IN
    /\ pc[h] = "locked"
    /\ status' = [status EXCEPT ![i] = "paid"]
    /\ paymentRef' = [paymentRef EXCEPT ![i] = Coalesce(req[h].ref, @)]
    /\ paymentCode' = [paymentCode EXCEPT ![i] = Coalesce(req[h].code, @)]
    /\ delivered' = [delivered EXCEPT ![i] = @ + 1]
    /\ rowLock' = [rowLock EXCEPT ![i] = None]
    /\ GoTo(h, "announce")
    /\ UNCHANGED <<paymentError, req, tellVars, gatewayVars, boundVars>>

(* Mutated form: the connection is released without a ROLLBACK. *)
RollbackForgotten(h) ==
    /\ pc[h] \in {"settle", "locked"}
    /\ Fault
    /\ Fail(h, "failed")
    /\ UNCHANGED <<rowVars, rowLock, tellVars, gatewayVars>>

(* A statement of the transaction fails: ROLLBACK, and the error goes up. *)
Rollback(h) ==
    /\ pc[h] \in {"settle", "locked"}
    /\ Fault
    /\ rowLock' = [i \in Invoices |-> IF rowLock[i] = h THEN None ELSE rowLock[i]]
    /\ Fail(h, "failed")
    /\ UNCHANGED <<rowVars, tellVars, gatewayVars>>

Announce(h) ==
    /\ pc[h] = "announce"
    /\ announced' = [announced EXCEPT ![req[h].inv] = @ + 1]
    /\ Finish(h)
    /\ UNCHANGED <<rowVars, rowLock, alerted, stray, gatewayVars, boundVars>>

-----------------------------------------------------------------------------
(* Mutated form: the note is written whatever the status. *)
RecordAlways(h) ==
    LET i == req[h].inv IN
    /\ pc[h] = "record"
    /\ RowFree(i)
    /\ paymentError' = [paymentError EXCEPT ![i] = TRUE]
    /\ paymentRef' = [paymentRef EXCEPT ![i] = Coalesce(req[h].ref, @)]
    /\ paymentCode' = [paymentCode EXCEPT ![i] = Coalesce(req[h].code, @)]
    /\ GoTo(h, "alert")
    /\ UNCHANGED <<status, delivered, rowLock, req, tellVars, gatewayVars, boundVars>>

(* Mutated form: the admin is only told when a row was updated. *)
RecordOrForget(h) ==
    LET i == req[h].inv IN
    /\ pc[h] = "record"
    /\ RowFree(i)
    /\ IF status[i] = "unpaid"
       THEN /\ paymentError' = [paymentError EXCEPT ![i] = TRUE]
            /\ paymentRef' = [paymentRef EXCEPT ![i] = Coalesce(req[h].ref, @)]
            /\ paymentCode' = [paymentCode EXCEPT ![i] = Coalesce(req[h].code, @)]
            /\ GoTo(h, "alert") /\ UNCHANGED req
       ELSE Finish(h) /\ UNCHANGED <<paymentError, paymentRef, paymentCode>>
    /\ UNCHANGED <<status, delivered, rowLock, tellVars, gatewayVars, boundVars>>

(* recordFailure: a note on the invoice, then a message to the admin.  The *)
(* note is only written on an unpaid invoice, and its failure is swallowed. *)

Record(h) ==
    LET i == req[h].inv IN
    /\ pc[h] = "record"
    /\ RowFree(i)
    /\ IF status[i] = "unpaid"
       THEN /\ paymentError' = [paymentError EXCEPT ![i] = TRUE]
            /\ paymentRef' = [paymentRef EXCEPT ![i] = Coalesce(req[h].ref, @)]
            /\ paymentCode' = [paymentCode EXCEPT ![i] = Coalesce(req[h].code, @)]
       ELSE UNCHANGED <<paymentError, paymentRef, paymentCode>>
    /\ GoTo(h, "alert")
    /\ UNCHANGED <<status, delivered, rowLock, req, tellVars, gatewayVars, boundVars>>

RecordFails(h) ==
    /\ pc[h] = "record"
    /\ Fault
    /\ GoTo(h, "alert")
    /\ UNCHANGED <<rowVars, rowLock, req, tellVars, gatewayVars>>

Alert(h) ==
    /\ pc[h] = "alert"
    /\ alerted' = [alerted EXCEPT ![req[h].inv] = TRUE]
    /\ Finish(h)
    /\ UNCHANGED <<rowVars, rowLock, announced, stray, gatewayVars, boundVars>>

-----------------------------------------------------------------------------
(* The panel's "cancel": one conditional UPDATE. *)
Cancel(i) ==
    /\ status[i] = "unpaid"
    /\ RowFree(i)
    /\ status' = [status EXCEPT ![i] = "canceled"]
    /\ UNCHANGED <<paymentRef, paymentCode, paymentError, delivered, rowLock,
                   tellVars, gatewayVars, handlerVars, boundVars>>

(* The web process restarts: requests are gone, PostgreSQL rolls back. *)
Crash ==
    /\ crashes < MaxCrashes
    /\ \E h \in Handlers : pc[h] # "idle"
    /\ crashes' = crashes + 1
    /\ pc' = [h \in Handlers |-> "idle"]
    /\ req' = [h \in Handlers |-> None]
    /\ rowLock' = [i \in Invoices |-> None]
    /\ UNCHANGED <<rowVars, tellVars, gatewayVars, faults>>

-----------------------------------------------------------------------------
Arrive(h) ==
    \E i \in Invoices :
        StartPay(h, i) \/ ReturnWithoutRef(h, i) \/ Return(h, i)
          \/ PortalVerify(h, i) \/ RetryVerify(h, i) \/ MarkPaid(h, i)

(* What a request that has arrived does next, when nothing fails. *)
Proceed(h) ==
    CreatePayment(h) \/ CreateRefused(h) \/ SaveCode(h) \/ Reread(h) \/ Verify(h)
      \/ LockRow(h) \/ Commit(h) \/ Announce(h) \/ Record(h) \/ Alert(h)

Disturb(h) == VerifyTimeout(h) \/ Rollback(h) \/ RecordFails(h)

Next ==
    \/ \E h \in Handlers : Arrive(h) \/ Proceed(h) \/ Disturb(h)
    \/ \E p \in Payments : Capture(p)
    \/ \E i \in Invoices : Cancel(i)
    \/ Crash

Spec == Init /\ [][Next]_vars
-----------------------------------------------------------------------------
StraysTyped == stray \in [Payments -> [Invoices -> Strays]]

(* Every variable has its type, and a busy handler the parts of a request *)
(* that its next step reads.                                              *)
TypeOK ==
    /\ status \in [Invoices -> Statuses]
    /\ paymentRef \in [Invoices -> Payments \cup {None}]
    /\ paymentCode \in [Invoices -> Payments \cup {None}]
    /\ paymentError \in [Invoices -> BOOLEAN]
    /\ rowLock \in [Invoices -> Handlers \cup {None}]
    /\ delivered \in [Invoices -> Nat]
    /\ announced \in [Invoices -> Nat]
    /\ alerted \in [Invoices -> BOOLEAN]
    /\ StraysTyped
    /\ payment \in [Payments -> PaymentStates]
    /\ madeFor \in [Payments -> Invoices \cup {None}]
    /\ pc \in [Handlers -> Places]
    /\ req \in [Handlers -> Requests \cup {None}]
    /\ \A h \in Handlers : pc[h] # "idle" => req[h] \in Requests
    /\ \A h \in Handlers : pc[h] = "save" => req[h].code \in Payments
    /\ \A h \in Handlers : pc[h] \in {"reread", "verify"} => req[h].ref \in Payments
    /\ faults \in Nat /\ crashes \in Nat

(* Whatever returns, retries and manual registrations overlap, and wherever *)
(* they fail, a paid invoice has handed its service over exactly once and   *)
(* an unpaid or canceled one never has (lib/invoices.ts, rule 2).           *)
SettledOnce ==
    \A i \in Invoices : delivered[i] = IF status[i] = "paid" THEN 1 ELSE 0

(* The message of thanks goes out at most once, and only for a paid invoice. *)
AnnouncedOnce ==
    \A i \in Invoices : announced[i] <= delivered[i]

(* The row lock is held exactly by the transaction that is about to commit, *)
(* on a row still unpaid; and an announcement to come is the first one.     *)
LockHeld ==
    \A h \in Handlers : \A i \in Invoices :
        rowLock[i] = h <=> pc[h] = "locked" /\ req[h].inv = i

LockedUnpaid ==
    \A h \in Handlers : pc[h] = "locked" => status[req[h].inv] = "unpaid"

AnnouncePending ==
    \A h \in Handlers : pc[h] = "announce" =>
        /\ status[req[h].inv] = "paid"
        /\ announced[req[h].inv] = 0
        /\ \A k \in Handlers \ {h} :
              pc[k] = "announce" => req[k].inv # req[h].inv

(* The strengthening of SettledOnce that every step preserves. *)
IInv ==
    /\ TypeOK
    /\ LockHeld
    /\ LockedUnpaid
    /\ AnnouncePending
    /\ AnnouncedOnce
    /\ SettledOnce

(* Another invoice's payment goes to the gateway and settles an invoice     *)
(* only where a return brought it there: a return only if one came without  *)
(* the number, the panel's retry what any such return has left on the row,  *)
(* the portal's verification never (pay/return, recordFailure, retry).      *)
ReturnSettlesOwn ==
    /\ \A h \in Handlers :
        pc[h] \in {"verify", "settle", "locked"} /\ req[h].kind # "mark" =>
            \/ madeFor[req[h].ref] = req[h].inv
            \/ req[h].kind = "return" /\ stray[req[h].ref][req[h].inv] = "let in"
            \/ req[h].kind = "retry" /\ stray[req[h].ref][req[h].inv] # "none"
    /\ \A i \in Invoices : paymentRef[i] # None =>
        madeFor[paymentRef[i]] = i \/ stray[paymentRef[i]][i] # "none"

(* A request carries the payment on to its invoice, or to the admin.       *)
Carried(p) ==
    \E h \in Handlers : pc[h] \in {"settle", "locked", "record", "alert"} /\ req[h].ref = p

(* Money the gateway settles with us is never forgotten: its invoice is     *)
(* paid, or the admin has been told, or a request is still carrying it      *)
(* there.  (The return route and the panel, without restarts.)              *)
MoneyAccounted ==
    \A p \in Payments : payment[p] = "verified" =>
        \/ status[madeFor[p]] = "paid"
        \/ alerted[madeFor[p]]
        \/ Carried(p)

(* A settled invoice never changes status again, and keeps the reference of *)
(* the payment it was settled with, though late failures still arrive.      *)
KeepsPaid ==
    \A i \in Invoices : status[i] # "unpaid" =>
        status'[i] = status[i] /\ paymentRef'[i] = paymentRef[i]

PaidIsFinal == [][KeepsPaid]_vars

S == INSTANCE Settlement WITH
        Invoices <- Invoices, status <- status, delivered <- delivered, announced <- announced

(* Handlers, row lock and gateway together implement the promise of         *)
(* Settlement: one settling step, at most one message after it.             *)
ImplementsSettlement == S!Spec

-----------------------------------------------------------------------------
(* A request that has arrived is served: Node runs every continuation and   *)
(* PostgreSQL queues those who wait for a row, so none is overtaken forever. *)
Waiting(h) == SaveCode(h) \/ LockRow(h) \/ Record(h)

Fairness == \A h \in Handlers : WF_vars(Proceed(h)) /\ SF_vars(Waiting(h))

FairSpec == Spec /\ Fairness

(* Money the gateway settles leads to a paid invoice or a warned admin.     *)
MoneyResolved ==
    \A p \in Payments : payment[p] = "verified" ~>
        \E i \in Invoices : madeFor[p] = i /\ (status[i] = "paid" \/ alerted[i])

(* No step loses sight of money the gateway took, and it ends with a paid   *)
(* invoice or a warned admin (pay/return, recordFailure).                   *)
MoneyKept == [][MoneyAccounted']_vars /\ MoneyResolved
=============================================================================
