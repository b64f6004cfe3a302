----------------------------- MODULE Settlement -----------------------------
(***************************************************************************)
(* What lib/invoices.ts promises of an invoice, whatever path the payment  *)
(* takes: it leaves "unpaid" once, for "paid" or for "canceled"; the       *)
(* service it sells is delivered in the very step that makes it paid, and  *)
(* the customer is told at most once, afterwards.  Payment.tla shows the   *)
(* request handlers, the row lock and the gateway to implement it.         *)
(***************************************************************************)
EXTENDS Naturals

CONSTANT Invoices      \* the rows of table invoices

VARIABLES
    status,            \* invoices.status
    delivered,         \* how often the service an invoice sells was handed over
    announced          \* how often the customer was told the payment is in

vars == <<status, delivered, announced>>

Statuses == {"unpaid", "paid", "canceled"}

Init ==
    /\ status = [i \in Invoices |-> "unpaid"]
    /\ delivered = [i \in Invoices |-> 0]
    /\ announced = [i \in Invoices |-> 0]

(* The payment is registered and the service delivered, in one step. *)
Settle(i) ==
    /\ status[i] = "unpaid"
    /\ status' = [status EXCEPT ![i] = "paid"]
    /\ delivered' = [delivered EXCEPT ![i] = @ + 1]
    /\ UNCHANGED announced

Cancel(i) ==
    /\ status[i] = "unpaid"
    /\ status' = [status EXCEPT ![i] = "canceled"]
    /\ UNCHANGED <<delivered, announced>>

(* The message of thanks; a crash may lose it, nothing may repeat it. *)
Announce(i) ==
    /\ status[i] = "paid"
    /\ announced[i] = 0
    /\ announced' = [announced EXCEPT ![i] = 1]
    /\ UNCHANGED <<status, delivered>>

Next == \E i \in Invoices : Settle(i) \/ Cancel(i) \/ Announce(i)

Spec == Init /\ [][Next]_vars
=============================================================================
