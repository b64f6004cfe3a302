------------------------------ MODULE Renewal ------------------------------
(***************************************************************************)
(* The renewals of one server over the days: the worker issues an invoice  *)
(* before each renewal date and reminds of it, invoices are paid early,    *)
(* late or canceled, and an admin may move the date.  Both cycles act on   *)
(* a date they read earlier: between their read and this server they send  *)
(* the messages of other servers.                                          *)
(***************************************************************************)
EXTENDS Naturals

CONSTANTS
    FirstRenewal,   \* servers.renews_at on the first day
    Period,         \* days a paid renewal adds (renewal_months)
    DaysBefore,     \* setting invoice_days_before
    NoticeDays,     \* servers.renew_notice_days
    LastDay,        \* bound on the days that pass
    MaxInvoices,    \* bound on the renewal invoices
    MaxEvents       \* bound on what admins and faults do

ASSUME DatesAssumption ==
    /\ FirstRenewal \in Nat /\ Period \in Nat \ {0}
    /\ DaysBefore \in Nat /\ NoticeDays \in Nat
ASSUME BoundsAssumption == LastDay \in Nat /\ MaxInvoices \in Nat /\ MaxEvents \in Nat

VARIABLES
    today,
    renewsAt,       \* servers.renews_at
    moved,          \* did an admin ever move it?
    last,           \* the renewal invoices issued so far are 1 .. last
    state, from,    \* of an invoice: its status, its period_from
    told,           \* of an invoice: messages that it was issued
    issuing,        \* the issuing cycle: its place, the date it read
    notices,        \* customer_notices of kind renewal, by their date
    alerting,       \* the alert cycle: its place, the date it read
    reminded,       \* messages about a renewal date
    events          \* uses of the bound

invoiceVars == <<last, state, from>>
issueVars == <<invoiceVars, told, issuing>>
alertVars == <<alerting, notices, reminded>>
vars == <<today, renewsAt, moved, issueVars, alertVars, events>>

Ids == 1 .. MaxInvoices
States == {"none", "unpaid", "paid", "canceled"}
Dates == 0 .. LastDay + NoticeDays      \* the dates a reminder can be about

Idle == [at |-> "idle", date |-> 0]

(* The rows of the unique index invoices_renewal_once. *)
Live(i) == state[i] \in {"unpaid", "paid"}

(* Mutated form: the index holds only the unpaid rows. *)
TakenUnpaid(date) == \E i \in Ids : state[i] = "unpaid" /\ from[i] = date

(* Does an insert for this period collide with a row? *)
Taken(date) == \E i \in Ids : Live(i) /\ from[i] = date

Init ==
    /\ today = 0 /\ renewsAt = FirstRenewal /\ moved = FALSE
    /\ last = 0
    /\ state = [i \in Ids |-> "none"]
    /\ from = [i \in Ids |-> 0]
    /\ told = [i \in Ids |-> 0]
    /\ issuing = Idle
    /\ notices = {}
    /\ alerting = Idle
    /\ reminded = [d \in Dates |-> 0]
    /\ events = 0

-----------------------------------------------------------------------------
(* issueRenewalInvoices *)

Due == renewsAt <= today + DaysBefore

IssueRead ==
    /\ issuing.at = "idle"
    /\ Due
    /\ issuing' = [at |-> "insert", date |-> renewsAt]
    /\ UNCHANGED <<today, renewsAt, moved, invoiceVars, told, alertVars, events>>

(* ON CONFLICT DO NOTHING: a period that has its invoice is passed over. *)
PassOver ==
    /\ issuing.at = "insert"
    /\ Taken(issuing.date)
    /\ issuing' = Idle
    /\ UNCHANGED <<today, renewsAt, moved, invoiceVars, told, alertVars, events>>

Insert ==
    /\ issuing.at = "insert"
    /\ ~Taken(issuing.date)
    /\ last < MaxInvoices
    /\ last' = last + 1
    /\ state' = [state EXCEPT ![last + 1] = "unpaid"]
    /\ from' = [from EXCEPT ![last + 1] = issuing.date]
    /\ issuing' = [issuing EXCEPT !.at = "tell"]
    /\ UNCHANGED <<today, renewsAt, moved, told, alertVars, events>>

(* Customer and admin hear of the row that was returned. *)
TellIssued ==
    /\ issuing.at = "tell"
    /\ told' = [told EXCEPT ![last] = @ + 1]
    /\ issuing' = Idle
    /\ UNCHANGED <<today, renewsAt, moved, invoiceVars, alertVars, events>>

IssueStep == IssueRead \/ PassOver \/ Insert \/ TellIssued

-----------------------------------------------------------------------------
(* Payments: the transaction of settleInvoice is one step. *)

Larger(a, b) == IF a > b THEN a ELSE b

(* The period is added to the date, or to today if the payment is late. *)
Extended == Larger(renewsAt, today) + Period

Settle(i) ==
    /\ state[i] = "unpaid"
    /\ state' = [state EXCEPT ![i] = "paid"]
    /\ renewsAt' = Extended
    /\ notices' = {}
    /\ UNCHANGED <<today, moved, last, from, told, issuing, alerting, reminded, events>>

Event == events < MaxEvents /\ events' = events + 1

Cancel(i) ==
    /\ Event
    /\ state[i] = "unpaid"
    /\ state' = [state EXCEPT ![i] = "canceled"]
    /\ UNCHANGED <<today, renewsAt, moved, last, from, told, issuing, alertVars>>

-----------------------------------------------------------------------------
(* checkCustomerAlerts, the part about renewals *)

AlertRead ==
    /\ alerting.at = "idle"
    /\ alerting' = [at |-> "claim", date |-> renewsAt]
    /\ UNCHANGED <<today, renewsAt, moved, issueVars, notices, reminded, events>>

(* From NoticeDays before the date to the date itself, by today's clock. *)
InNotice(date) == today <= date /\ date <= today + NoticeDays

(* Mutated form: the reminder is for one day, and a missed day is missed. *)
ClaimsOnTheDay == alerting.date = today + NoticeDays /\ alerting.date \notin notices

(* Mutated form: nothing is found in the table of notices. *)
ClaimsAgain == InNotice(alerting.date)

Claims == InNotice(alerting.date) /\ alerting.date \notin notices

(* The row is written before the message goes out. *)
Claim ==
    /\ alerting.at = "claim"
    /\ Claims
    /\ notices' = notices \union {alerting.date}
    /\ alerting' = [alerting EXCEPT !.at = "send"]
    /\ UNCHANGED <<today, renewsAt, moved, issueVars, reminded, events>>

NothingToSay ==
    /\ alerting.at = "claim"
    /\ ~Claims
    /\ alerting' = Idle
    /\ UNCHANGED <<today, renewsAt, moved, issueVars, notices, reminded, events>>

Remind ==
    /\ alerting.at = "send"
    /\ reminded' = [reminded EXCEPT ![alerting.date] = @ + 1]
    /\ alerting' = Idle
    /\ UNCHANGED <<today, renewsAt, moved, issueVars, notices, events>>

AlertStep == AlertRead \/ Claim \/ NothingToSay \/ Remind

-----------------------------------------------------------------------------
NewDay ==
    /\ today < LastDay
    /\ today' = today + 1
    /\ UNCHANGED <<renewsAt, moved, issueVars, alertVars, events>>

(* PATCH /api/servers/[id] takes any date.  Little is promised afterwards,  *)
(* so that a move uses up the bound.                                       *)
Reschedule(date) ==
    /\ events = 0 /\ events' = MaxEvents
    /\ renewsAt' = date
    /\ moved' = TRUE
    /\ UNCHANGED <<today, issueVars, alertVars>>

(* The worker restarts and forgets its cycles. *)
Crash ==
    /\ Event
    /\ issuing' = Idle
    /\ alerting' = Idle
    /\ UNCHANGED <<today, renewsAt, moved, invoiceVars, told, notices, reminded>>

Next ==
    \/ IssueStep
    \/ AlertStep
    \/ \E i \in Ids : Settle(i) \/ Cancel(i)
    \/ NewDay
    \/ \E date \in 0 .. LastDay : Reschedule(date)
    \/ Crash

Spec == Init /\ [][Next]_vars

(* Each cycle schedules its next run when one ends: schedule in index.mjs. *)
Fairness == WF_vars(IssueStep) /\ WF_vars(AlertStep)

FairSpec == Spec /\ Fairness

-----------------------------------------------------------------------------
TypeOK ==
    /\ today \in 0 .. LastDay /\ renewsAt \in Nat /\ moved \in BOOLEAN
    /\ last \in 0 .. MaxInvoices
    /\ state \in [Ids -> States]
    /\ \A i \in Ids : state[i] = "none" <=> i > last
    /\ from \in [Ids -> Nat] /\ told \in [Ids -> Nat]
    /\ issuing \in [at : {"idle", "insert", "tell"}, date : Nat]
    /\ issuing.at = "tell" => last > 0
    /\ notices \subseteq Dates
    /\ alerting \in [at : {"idle", "claim", "send"}, date : Nat]
    /\ alerting.at = "send" => alerting.date \in Dates
    /\ reminded \in [Dates -> Nat]
    /\ events \in 0 .. MaxEvents

(* As long as no admin moves the date, the customer is never billed twice   *)
(* for a day: the periods of invoices that were paid do not overlap, however *)
(* late they are paid and however old the date the worker issues for.      *)
PaidPeriodsDisjoint ==
    ~moved =>
        \A i, j \in Ids :
            i # j /\ state[i] = "paid" /\ state[j] = "paid" =>
                from[i] + Period <= from[j] \/ from[j] + Period <= from[i]

(* What was paid is delivered: the server runs to the end of every period   *)
(* that was paid.                                                          *)
PaidIsCovered ==
    ~moved => \A i \in Ids : state[i] = "paid" => from[i] + Period <= renewsAt

(* The invoice a customer can pay is the one of the current date, and there *)
(* is only one: two open renewals would extend the server twice.           *)
OneUnpaid ==
    ~moved =>
        \A i, j \in Ids :
            state[i] = "unpaid" =>
                from[i] = renewsAt /\ (state[j] = "unpaid" => i = j)

(* A date a cycle has read is still the current one, or its period was paid *)
(* and the insert will collide.                                            *)
ReadIsCurrentOrTaken ==
    ~moved /\ issuing.at = "insert" => issuing.date = renewsAt \/ Taken(issuing.date)

(* The inductive invariant of the invoices. *)
IInv ==
    /\ TypeOK
    /\ PaidPeriodsDisjoint
    /\ PaidIsCovered
    /\ OneUnpaid
    /\ ReadIsCurrentOrTaken

(* The customer hears of an invoice at most once, whatever cycles and       *)
(* restarts do (worker/invoices.mjs, the comment on RETURNING).            *)
ToldOnce == \A i \in Ids : told[i] <= 1

(* "Every alert once" (worker/customer-alerts.mjs): of the date that is due *)
(* the customer is reminded once.  Only of a date that was paid meanwhile   *)
(* can a cycle that read it before remind, one more time.                  *)
RemindedOnce ==
    ~moved => \A d \in Dates : reminded[d] <= IF d < renewsAt THEN 2 ELSE 1

(* No cycle tells a customer twice what was said already.                   *)
NoticedOnce == ToldOnce /\ RemindedOnce

(* A server that is due gets an invoice for its date, also after an admin   *)
(* canceled the first, unless the date moves.                              *)
Uninvoiced ==
    ~moved /\ Due /\ \A i \in Ids : Live(i) => from[i] # renewsAt

DueIsInvoiced == Uninvoiced ~> ~Uninvoiced

(* A customer whose date is near is reminded, if the days leave the cycle   *)
(* the time and no restart comes between the row and the message.          *)
Unreminded == ~moved /\ InNotice(renewsAt) /\ renewsAt \notin notices

NearIsNoticed == Unreminded ~> ~Unreminded

(* Neither the invoice of a date nor the reminder of it is forgotten.       *)
DateIsServed == DueIsInvoiced /\ NearIsNoticed
=============================================================================
