-------------------------------- MODULE Shop --------------------------------
(***************************************************************************)
(* The shop: a customer buys a product (an order, perhaps with traffic as   *)
(* an add-on) or a traffic package, perhaps with the discount code; the     *)
(* settlement of the invoice delivers; an admin hands the order over.       *)
(* Purchases and hand-overs are sequences of separate SQL statements and    *)
(* interleave; a settlement is one step, as Payment.tla shows.              *)
(*                                                                         *)
(* One product and one code are for sale, and a customer has one server.   *)
(***************************************************************************)
EXTENDS Naturals, FiniteSets

CONSTANTS
    Customers,
    Purchases,      \* the requests of customers to buy something
    Owner,          \* the customer of each purchase
    Products,       \* purchases of the product; the others buy traffic
    WithAddon,      \* product purchases that add a traffic package
    WithCode,       \* purchases that enter the discount code
    Free,           \* those whose amount the code covers completely
    Admins,         \* hand-over requests the panel serves at the same time
    ServerInputs,   \* what the hand-over form may send as server_id
    None,
    InitialStock,   \* products.stock
    MaxUses,        \* discount_codes.max_uses
    MaxCrashes      \* bound on restarts of the web process

(* server: one of the customer's own; foreign: of somebody else; null: the *)
(* panel's form when no server is chosen; absent: the field is missing.    *)
AllServerInputs == {"server", "foreign", "null", "absent"}

ASSUME PurchasesAssumption ==
    /\ IsFiniteSet(Purchases)
    /\ Owner \in [Purchases -> Customers]
    /\ Products \subseteq Purchases
    /\ WithAddon \subseteq Products
    /\ Free \subseteq WithCode /\ WithCode \subseteq Purchases
ASSUME InputsAssumption == ServerInputs \subseteq AllServerInputs
ASSUME NoneAssumption == None \notin (Purchases \cup Admins)
ASSUME BoundsAssumption ==
    InitialStock \in Nat /\ MaxUses \in Nat /\ MaxCrashes \in Nat

VARIABLES
    pc,             \* where the request of each purchase is
    order,          \* orders.status, or "none"
    orderServer,    \* is orders.server_id set?
    addon,          \* the order_addons row: none, waiting, or applied (applied_at)
    invoice,        \* invoices.status, or "none"
    stock,          \* products.stock
    uses,           \* purchases whose invoice has a row in discount_uses
    usedCount,      \* discount_codes.used_count
    topups,         \* traffic_topups rows of a traffic invoice
    addonTopups,    \* traffic_topups rows of an order's add-on
    counted,        \* is servers.traffic_counted_from set, per customer?
    apc,            \* where each hand-over request is
    job,            \* the order it hands over and the server_id it was sent
    crashes

orderVars == <<order, orderServer, addon>>
codeVars == <<uses, usedCount>>
trafficVars == <<topups, addonTopups, counted>>
adminVars == <<apc, job>>
vars == <<pc, orderVars, invoice, stock, codeVars, trafficVars, adminVars, crashes>>

RequestPlaces == {"start", "code", "once", "order", "addon", "invoice", "link",
                  "free", "end"}
OrderStatuses == {"none", "pending", "paid", "provisioned", "canceled"}
AddonStates == {"none", "waiting", "applied"}
InvoiceStatuses == {"none", "unpaid", "paid", "canceled"}
AdminPlaces == {"idle", "check", "update", "claim", "topup", "count"}
Jobs == [order : Purchases, server : AllServerInputs]

Init ==
    /\ pc = [q \in Purchases |-> "start"]
    /\ order = [q \in Purchases |-> "none"]
    /\ orderServer = [q \in Purchases |-> FALSE]
    /\ addon = [q \in Purchases |-> "none"]
    /\ invoice = [q \in Purchases |-> "none"]
    /\ stock = InitialStock
    /\ uses = {}
    /\ usedCount = 0
    /\ topups = [q \in Purchases |-> 0]
    /\ addonTopups = [q \in Purchases |-> 0]
    /\ counted = [c \in Customers |-> FALSE]
    /\ apc = [a \in Admins |-> "idle"]
    /\ job = [a \in Admins |-> None]
    /\ crashes = 0

-----------------------------------------------------------------------------
(* The settlement of an invoice, under the lock of its row. *)

GoTo(q, place) == pc' = [pc EXCEPT ![q] = place]

(* Only a pending order becomes paid, yet the stock falls in any case. *)
PayOrder(q) ==
    IF q \in Products
    THEN /\ order' = [order EXCEPT ![q] = IF @ = "pending" THEN "paid" ELSE @]
         /\ stock' = IF stock = 0 THEN 0 ELSE stock - 1
    ELSE UNCHANGED <<order, stock>>

AddTraffic(q) ==
    IF q \notin Products
    THEN /\ topups' = [topups EXCEPT ![q] = @ + 1]
         /\ counted' = [counted EXCEPT ![Owner[q]] = TRUE]
    ELSE UNCHANGED <<topups, counted>>

(* INSERT ... ON CONFLICT (invoice_id) DO NOTHING; the counter moves only  *)
(* with a row that is new.                                                 *)
UseCode(q) ==
    IF q \in WithCode /\ q \notin uses
    THEN uses' = uses \cup {q} /\ usedCount' = usedCount + 1
    ELSE UNCHANGED codeVars

Settle(q) ==
    /\ invoice[q] = "unpaid"
    /\ invoice' = [invoice EXCEPT ![q] = "paid"]
    /\ PayOrder(q)
    /\ AddTraffic(q)
    /\ UseCode(q)

(* The customer pays at the gateway, or an admin registers a payment. *)
Pay(q) ==
    /\ Settle(q)
    /\ UNCHANGED <<pc, orderServer, addon, addonTopups, adminVars, crashes>>

CancelInvoice(q) ==
    /\ invoice[q] = "unpaid"
    /\ invoice' = [invoice EXCEPT ![q] = "canceled"]
    /\ UNCHANGED <<pc, orderVars, stock, codeVars, trafficVars, adminVars, crashes>>

-----------------------------------------------------------------------------
(* A purchase, statement by statement: createProductOrder for a product,    *)
(* the traffic branch of the portal's buy route for a package.              *)

(* The stock is looked at, not reserved. *)
CheckStock(q) ==
    /\ pc[q] = "start"
    /\ GoTo(q, IF q \in Products /\ stock = 0 THEN "end" ELSE "code")
    /\ UNCHANGED <<orderVars, invoice, stock, codeVars, trafficVars, adminVars, crashes>>

AfterCode(q) == IF q \in Products THEN "order" ELSE "invoice"

(* Mutated form: the cap admits one use too many. *)
CheckCapLoose(q) ==
    /\ pc[q] = "code"
    /\ \/ q \notin WithCode /\ GoTo(q, AfterCode(q))
       \/ q \in WithCode /\ usedCount > MaxUses /\ GoTo(q, "end")
       \/ q \in WithCode /\ usedCount <= MaxUses /\ GoTo(q, "once")
    /\ UNCHANGED <<orderVars, invoice, stock, codeVars, trafficVars, adminVars, crashes>>

(* validateDiscount reads the row of the code: an exhausted one stops the *)
(* purchase.                                                              *)
CheckCap(q) ==
    /\ pc[q] = "code"
    /\ \/ q \notin WithCode /\ GoTo(q, AfterCode(q))
       \/ q \in WithCode /\ usedCount >= MaxUses /\ GoTo(q, "end")
       \/ q \in WithCode /\ usedCount < MaxUses /\ GoTo(q, "once")
    /\ UNCHANGED <<orderVars, invoice, stock, codeVars, trafficVars, adminVars, crashes>>

UsedBy(c) == {q \in uses : Owner[q] = c}

(* ... and in a second query whether this customer has used it. *)
CheckOnce(q) ==
    /\ pc[q] = "once"
    /\ GoTo(q, IF UsedBy(Owner[q]) = {} THEN AfterCode(q) ELSE "end")
    /\ UNCHANGED <<orderVars, invoice, stock, codeVars, trafficVars, adminVars, crashes>>

CreateOrder(q) ==
    /\ pc[q] = "order"
    /\ order' = [order EXCEPT ![q] = "pending"]
    /\ GoTo(q, "addon")
    /\ UNCHANGED <<orderServer, addon, invoice, stock, codeVars, trafficVars,
                   adminVars, crashes>>

CreateAddon(q) ==
    /\ pc[q] = "addon"
    /\ addon' = [addon EXCEPT ![q] = IF q \in WithAddon THEN "waiting" ELSE "none"]
    /\ GoTo(q, "invoice")
    /\ UNCHANGED <<order, orderServer, invoice, stock, codeVars, trafficVars,
                   adminVars, crashes>>

(* Mutated form: the code is used up when the invoice is issued. *)
CreateInvoiceUsing(q) ==
    /\ pc[q] = "invoice"
    /\ invoice' = [invoice EXCEPT ![q] = "unpaid"]
    /\ UseCode(q)
    /\ GoTo(q, IF q \in Products THEN "link" ELSE "free")
    /\ UNCHANGED <<orderVars, stock, trafficVars, adminVars, crashes>>

(* From here on the invoice can be paid and canceled by others. *)
CreateInvoice(q) ==
    /\ pc[q] = "invoice"
    /\ invoice' = [invoice EXCEPT ![q] = "unpaid"]
    /\ GoTo(q, IF q \in Products THEN "link" ELSE "free")
    /\ UNCHANGED <<orderVars, stock, codeVars, trafficVars, adminVars, crashes>>

(* orders.invoice_id, which only listings read. *)
LinkInvoice(q) ==
    /\ pc[q] = "link"
    /\ GoTo(q, "free")
    /\ UNCHANGED <<orderVars, invoice, stock, codeVars, trafficVars, adminVars, crashes>>

(* settleIfFree: nothing to pay, so the request itself settles. *)
SettleIfFree(q) ==
    /\ pc[q] = "free"
    /\ GoTo(q, "end")
    /\ IF q \in Free /\ invoice[q] = "unpaid"
       THEN Settle(q) /\ UNCHANGED <<orderServer, addon, addonTopups>>
       ELSE UNCHANGED <<orderVars, invoice, stock, codeVars, trafficVars>>
    /\ UNCHANGED <<adminVars, crashes>>

-----------------------------------------------------------------------------
(* The panel: PATCH /api/orders. *)

(* The invoice is left as it is. *)
CancelOrder(q) ==
    /\ order[q] \in {"pending", "paid"}
    /\ order' = [order EXCEPT ![q] = "canceled"]
    /\ UNCHANGED <<pc, orderServer, addon, invoice, stock, codeVars, trafficVars,
                   adminVars, crashes>>

AdminGoTo(a, place) == apc' = [apc EXCEPT ![a] = place]

AdminEnd(a) ==
    /\ AdminGoTo(a, "idle")
    /\ job' = [job EXCEPT ![a] = None]

(* The hand-over starts: the order is read and must be paid. *)
Open(a, q, s) ==
    /\ apc[a] = "idle"
    /\ order[q] = "paid"
    /\ AdminGoTo(a, "check")
    /\ job' = [job EXCEPT ![a] = [order |-> q, server |-> s]]
    /\ UNCHANGED <<pc, orderVars, invoice, stock, codeVars, trafficVars, crashes>>

(* Number.isInteger(Number(x)): Number(null) is 0, Number(undefined) NaN. *)
IsInteger(s) == s # "absent"

(* An add-on that waits needs a server_id; a server must be the customer's. *)
CheckHandOver(a) ==
    LET q == job[a].order  s == job[a].server IN
    /\ apc[a] = "check"
    /\ IF \/ addon[q] = "waiting" /\ ~IsInteger(s)
          \/ s = "foreign"
       THEN AdminEnd(a)
       ELSE AdminGoTo(a, "update") /\ UNCHANGED job
    /\ UNCHANGED <<pc, orderVars, invoice, stock, codeVars, trafficVars, crashes>>

(* UPDATE orders ... WHERE id: the status is not looked at again. *)
MarkProvisioned(a) ==
    LET q == job[a].order  s == job[a].server IN
    /\ apc[a] = "update"
    /\ order' = [order EXCEPT ![q] = "provisioned"]
    /\ orderServer' = [orderServer EXCEPT ![q] = s = "server"]
    /\ IF s = "server"
       THEN AdminGoTo(a, "claim") /\ UNCHANGED job
       ELSE AdminEnd(a)
    /\ UNCHANGED <<pc, addon, invoice, stock, codeVars, trafficVars, crashes>>

(* Mutated form: the row is claimed without the condition on applied_at. *)
ClaimAgain(a) ==
    LET q == job[a].order IN
    /\ apc[a] = "claim"
    /\ IF addon[q] # "none"
       THEN /\ addon' = [addon EXCEPT ![q] = "applied"]
            /\ AdminGoTo(a, "topup") /\ UNCHANGED job
       ELSE AdminEnd(a) /\ UNCHANGED addon
    /\ UNCHANGED <<pc, order, orderServer, invoice, stock, codeVars, trafficVars, crashes>>

(* UPDATE order_addons ... WHERE applied_at IS NULL RETURNING: one request *)
(* gets the row.                                                           *)
Claim(a) ==
    LET q == job[a].order IN
    /\ apc[a] = "claim"
    /\ IF addon[q] = "waiting"
       THEN /\ addon' = [addon EXCEPT ![q] = "applied"]
            /\ AdminGoTo(a, "topup") /\ UNCHANGED job
       ELSE AdminEnd(a) /\ UNCHANGED addon
    /\ UNCHANGED <<pc, order, orderServer, invoice, stock, codeVars, trafficVars, crashes>>

(* Mutated form: the claimed rows are not put on the server. *)
TopUpForgotten(a) ==
    /\ apc[a] = "topup"
    /\ AdminGoTo(a, "count")
    /\ UNCHANGED <<pc, orderVars, invoice, stock, codeVars, trafficVars, job, crashes>>

TopUp(a) ==
    /\ apc[a] = "topup"
    /\ addonTopups' = [addonTopups EXCEPT ![job[a].order] = @ + 1]
    /\ AdminGoTo(a, "count")
    /\ UNCHANGED <<pc, orderVars, invoice, stock, codeVars, topups, counted, job, crashes>>

StartCounting(a) ==
    /\ apc[a] = "count"
    /\ counted' = [counted EXCEPT ![Owner[job[a].order]] = TRUE]
    /\ AdminEnd(a)
    /\ UNCHANGED <<pc, orderVars, invoice, stock, codeVars, topups, addonTopups, crashes>>

(* The web process restarts: its requests are gone, the rows stay. *)
Crash ==
    /\ crashes < MaxCrashes
    /\ crashes' = crashes + 1
    /\ pc' = [q \in Purchases |-> IF pc[q] = "start" THEN "start" ELSE "end"]
    /\ apc' = [a \in Admins |-> "idle"]
    /\ job' = [a \in Admins |-> None]
    /\ UNCHANGED <<orderVars, invoice, stock, codeVars, trafficVars>>

-----------------------------------------------------------------------------
PurchaseStep(q) ==
    \/ CheckStock(q) \/ CheckCap(q) \/ CheckOnce(q) \/ CreateOrder(q)
    \/ CreateAddon(q) \/ CreateInvoice(q) \/ LinkInvoice(q) \/ SettleIfFree(q)

HandOverStep(a) ==
    \/ CheckHandOver(a) \/ MarkProvisioned(a) \/ Claim(a) \/ TopUp(a)
    \/ StartCounting(a)

Next ==
    \/ \E q \in Purchases :
          PurchaseStep(q) \/ Pay(q) \/ CancelInvoice(q) \/ CancelOrder(q)
    \/ \E a \in Admins : \/ HandOverStep(a)
                         \/ \E q \in Purchases, s \in ServerInputs : Open(a, q, s)
    \/ Crash

Spec == Init /\ [][Next]_vars

-----------------------------------------------------------------------------
TypeOK ==
    /\ pc \in [Purchases -> RequestPlaces]
    /\ order \in [Purchases -> OrderStatuses]
    /\ orderServer \in [Purchases -> BOOLEAN]
    /\ addon \in [Purchases -> AddonStates]
    /\ invoice \in [Purchases -> InvoiceStatuses]
    /\ stock \in Nat
    /\ uses \subseteq Purchases
    /\ usedCount \in Nat
    /\ topups \in [Purchases -> Nat]
    /\ addonTopups \in [Purchases -> Nat]
    /\ counted \in [Customers -> BOOLEAN]
    /\ apc \in [Admins -> AdminPlaces]
    /\ job \in [Admins -> Jobs \cup {None}]
    /\ \A a \in Admins : apc[a] # "idle" => job[a] \in Jobs
    /\ crashes \in 0 .. MaxCrashes

Paid == {q \in Purchases : invoice[q] = "paid"}

(* The code is used up by payments and by nothing else: the counter is the *)
(* number of its rows, and those are the paid invoices that carry it       *)
(* (invoices.ts, the discount part of settleInvoice).                      *)
CodeCountsPaid ==
    /\ usedCount = Cardinality(uses)
    /\ uses = Paid \cap WithCode

(* What was sold has left the stock, and abandoned invoices hold nothing   *)
(* back; the stock stops at zero when more is sold than there is.          *)
StockCountsPaid ==
    LET sold == Cardinality(Paid \cap Products) IN
    stock = IF sold >= InitialStock THEN 0 ELSE InitialStock - sold

(* The counters of the shop are what was paid for, neither more nor less.   *)
CountsPaid == TypeOK /\ CodeCountsPaid /\ StockCountsPaid

(* An add-on is on a server only if it was ordered and its invoice paid,   *)
(* whatever was canceled in between, and overlapping hand-overs of one     *)
(* order do not double it: the claim of orders/route.ts lets one through.  *)
AddonPaid ==
    \A q \in Purchases :
        addonTopups[q] > 0 =>
            addonTopups[q] = 1 /\ q \in Paid \cap WithAddon /\ addon[q] = "applied"

InFlight == {q \in WithCode : pc[q] \in {"once", "order", "addon", "invoice"}}

Exhausted ==
    /\ usedCount >= MaxUses
    /\ InFlight = {}
    /\ \A q \in WithCode : invoice[q] # "unpaid"

(* Once the cap of the code is reached, nobody is between its check and an *)
(* invoice and no invoice that carries it is open, it is over for good:    *)
(* validateDiscount lets no later purchase through.                        *)
ExhaustedStays == [][Exhausted => Exhausted']_vars

(* Traffic that was taken from an order is on the server or on its way      *)
(* there, and is counted from then on: only a restart between the claim and *)
(* the insert loses it.                                                     *)
Carries(a, q, place) == apc[a] = place /\ job[a].order = q

ClaimCarried ==
    crashes = 0 =>
        \A q \in Purchases :
            /\ addon[q] = "applied" =>
                  addonTopups[q] = 1 \/ \E a \in Admins : Carries(a, q, "topup")
            /\ addonTopups[q] = 1 =>
                  counted[Owner[q]] \/ \E a \in Admins : Carries(a, q, "count")

(* Paid traffic is delivered once, none that was not paid, and none lost.   *)
AddonsKept == AddonPaid /\ ClaimCarried
=============================================================================
