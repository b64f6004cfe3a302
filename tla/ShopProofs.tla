----------------------------- MODULE ShopProofs -----------------------------
(***************************************************************************)
(* Safety of the customers' side for every value of the bounds.  The shop: *)
(* for every number of purchases, customers and overlapping hand-overs its *)
(* counters are what was paid for, an add-on is delivered once, and a code *)
(* that is used up stays so.  Then, of the parts MCShop puts beside it,    *)
(* the notices of traffic, sent once in a purchase; the accounts, whose    *)
(* numbers and logins stay apart whoever registers or is deleted; and the  *)
(* shop window, where old pages and old forms meet rows that change.       *)
(***************************************************************************)
EXTENDS MCShop, FiniteSetTheorems, SequenceTheorems, TLAPS

(* A purchase has its rows only from the statement on that inserts them.   *)
RowsFollowPlaces ==
    \A q \in Purchases :
        /\ pc[q] \in {"start", "code", "once", "order"} => order[q] = "none"
        /\ pc[q] \in {"start", "code", "once", "order", "addon"} => addon[q] = "none"
        /\ pc[q] \in {"start", "code", "once", "order", "addon", "invoice"} => invoice[q] = "none"

(* What a hand-over relies on, though it looks at the order only once.      *)
HandedOverIsPaid ==
    /\ \A q \in Purchases : order[q] \in {"paid", "provisioned"} => invoice[q] = "paid"
    /\ \A a \in Admins : apc[a] # "idle" => invoice[job[a].order] = "paid"

(* An add-on row is claimed by one hand-over, before it is put on a server. *)
ClaimedOnce ==
    /\ \A q \in Purchases :
          /\ addon[q] # "none" => q \in WithAddon
          /\ addon[q] = "applied" => invoice[q] = "paid"
          /\ addonTopups[q] # 0 => addonTopups[q] = 1 /\ addon[q] = "applied"
    /\ \A a \in Admins : apc[a] = "topup" =>
          /\ addon[job[a].order] = "applied" /\ addonTopups[job[a].order] = 0
          /\ \A b \in Admins : apc[b] = "topup" /\ job[b].order = job[a].order => b = a

(* The inductive invariant. *)
IInv ==
    /\ TypeOK /\ RowsFollowPlaces
    /\ CodeCountsPaid /\ StockCountsPaid
    /\ HandedOverIsPaid /\ ClaimedOnce /\ ClaimCarried
-----------------------------------------------------------------------------
(* Types *)

LEMMA InitIInv == Init => IInv
<1> SUFFICES ASSUME Init PROVE IInv
    OBVIOUS
<1> USE DEF Init
<1>1. TypeOK
    BY BoundsAssumption DEF TypeOK, RequestPlaces, OrderStatuses, AddonStates,
       InvoiceStatuses, AdminPlaces, BoundsAssumption
<1>2. Paid = {}
    BY DEF Paid
<1>3. CodeCountsPaid /\ StockCountsPaid
    <2>1. Cardinality({}) = 0
        BY FS_EmptySet
    <2> QED BY <1>2, <2>1, BoundsAssumption DEF CodeCountsPaid, StockCountsPaid, BoundsAssumption
<1>4. RowsFollowPlaces /\ HandedOverIsPaid /\ ClaimedOnce /\ ClaimCarried
    BY DEF RowsFollowPlaces, HandedOverIsPaid, ClaimedOnce, ClaimCarried
<1> QED BY <1>1, <1>3, <1>4 DEF IInv

(* A settlement, by the gateway or by the request itself, stays well typed. *)
LEMMA SettleTypes ==
    ASSUME TypeOK, NEW q \in Purchases, Settle(q)
    PROVE  /\ order' \in [Purchases -> OrderStatuses]
           /\ invoice' \in [Purchases -> InvoiceStatuses]
           /\ stock' \in Nat
           /\ uses' \subseteq Purchases /\ usedCount' \in Nat
           /\ topups' \in [Purchases -> Nat] /\ counted' \in [Customers -> BOOLEAN]
<1> USE PurchasesAssumption DEF TypeOK, PurchasesAssumption
<1>1. order' \in [Purchases -> OrderStatuses] /\ stock' \in Nat
    BY DEF Settle, PayOrder, OrderStatuses
<1>2. invoice' \in [Purchases -> InvoiceStatuses]
    BY DEF Settle, InvoiceStatuses
<1>3. uses' \subseteq Purchases /\ usedCount' \in Nat
    BY DEF Settle, UseCode, codeVars
<1>4. topups' \in [Purchases -> Nat]
    BY DEF Settle, AddTraffic
<1>5. counted' \in [Customers -> BOOLEAN]
    <2>1. counted' = [counted EXCEPT ![Owner[q]] = TRUE] \/ counted' = counted
        BY DEF Settle, AddTraffic
    <2> QED BY <2>1
<1> QED BY <1>1, <1>2, <1>3, <1>4, <1>5

(* Every step keeps the types.                                              *)
LEMMA TypeStep == TypeOK /\ [Next]_vars => TypeOK'
<1> SUFFICES ASSUME TypeOK, [Next]_vars PROVE TypeOK'
    OBVIOUS
<1> USE PurchasesAssumption, InputsAssumption, BoundsAssumption
        DEF PurchasesAssumption, InputsAssumption, BoundsAssumption
<1> USE DEF orderVars, codeVars, trafficVars, adminVars, GoTo, AdminGoTo, AdminEnd
<1>1. ASSUME NEW q \in Purchases, PurchaseStep(q), ~SettleIfFree(q) PROVE TypeOK'
    <2> USE DEF TypeOK, RequestPlaces
    <2>1. CASE CheckStock(q)    BY <2>1 DEF CheckStock
    <2>2. CASE CheckCap(q)      BY <2>2 DEF CheckCap, AfterCode
    <2>3. CASE CheckOnce(q)     BY <2>3 DEF CheckOnce, AfterCode
    <2>4. CASE CreateOrder(q)   BY <2>4 DEF CreateOrder, OrderStatuses
    <2>5. CASE CreateAddon(q)   BY <2>5 DEF CreateAddon, AddonStates
    <2>6. CASE CreateInvoice(q) BY <2>6 DEF CreateInvoice, InvoiceStatuses
    <2>7. CASE LinkInvoice(q)   BY <2>7 DEF LinkInvoice
    <2> QED BY <1>1, <2>1, <2>2, <2>3, <2>4, <2>5, <2>6, <2>7 DEF PurchaseStep
<1>2. ASSUME NEW q \in Purchases, SettleIfFree(q) PROVE TypeOK'
    <2>1. CASE q \in Free /\ invoice[q] = "unpaid"
        BY <1>2, <2>1, SettleTypes DEF SettleIfFree, TypeOK, RequestPlaces
    <2>2. CASE ~(q \in Free /\ invoice[q] = "unpaid")
        BY <1>2, <2>2 DEF SettleIfFree, TypeOK, RequestPlaces
    <2> QED BY <2>1, <2>2
<1>3. ASSUME NEW q \in Purchases, Pay(q) PROVE TypeOK'
    BY <1>3, SettleTypes DEF Pay, TypeOK
<1>4. ASSUME NEW q \in Purchases, CancelInvoice(q) \/ CancelOrder(q) PROVE TypeOK'
    BY <1>4 DEF CancelInvoice, CancelOrder, TypeOK, InvoiceStatuses, OrderStatuses
<1>5. ASSUME NEW a \in Admins, NEW q \in Purchases, NEW s \in ServerInputs, Open(a, q, s)
      PROVE  TypeOK'
    BY <1>5 DEF Open, TypeOK, Jobs, AdminPlaces
<1>6. ASSUME NEW a \in Admins, HandOverStep(a) PROVE TypeOK'
    <2>0. job[a] \in Jobs /\ job[a].order \in Purchases
        BY <1>6 DEF HandOverStep, CheckHandOver, MarkProvisioned, Claim, TopUp, StartCounting,
                    TypeOK, Jobs
    <2> USE <2>0 DEF TypeOK, AdminPlaces
    <2>1. CASE CheckHandOver(a)   BY <2>1 DEF CheckHandOver
    <2>2. CASE MarkProvisioned(a) BY <2>2 DEF MarkProvisioned, OrderStatuses
    <2>3. CASE Claim(a)           BY <2>3 DEF Claim, AddonStates
    <2>4. CASE TopUp(a)           BY <2>4 DEF TopUp
    <2>5. CASE StartCounting(a)   BY <2>5 DEF StartCounting
    <2> QED BY <1>6, <2>1, <2>2, <2>3, <2>4, <2>5 DEF HandOverStep
<1>7. CASE Crash
    BY <1>7 DEF Crash, TypeOK, RequestPlaces, AdminPlaces
<1>8. CASE UNCHANGED vars
    BY <1>8 DEF vars, TypeOK
<1> QED BY <1>1, <1>2, <1>3, <1>4, <1>5, <1>6, <1>7, <1>8 DEF Next
-----------------------------------------------------------------------------
(* The counters *)

(* What a settlement does to the set of paid invoices.                      *)
LEMMA PaidGrows ==
    ASSUME TypeOK, NEW q \in Purchases, invoice[q] = "unpaid",
           invoice' = [invoice EXCEPT ![q] = "paid"]
    PROVE  Paid' = Paid \cup {q} /\ q \notin Paid
BY DEF Paid, TypeOK, InvoiceStatuses

(* A settlement counts its code and its item once: the paid purchases and    *)
(* the counters grow by the same purchase.                                  *)
LEMMA SettleCounts ==
    ASSUME TypeOK, CodeCountsPaid, StockCountsPaid, NEW q \in Purchases, Settle(q)
    PROVE  CodeCountsPaid' /\ StockCountsPaid'
<1>0. /\ Paid' = Paid \cup {q} /\ q \notin Paid
      /\ IsFiniteSet(Paid) /\ IsFiniteSet(uses) /\ IsFiniteSet(Paid \cap Products)
    <2>1. Paid' = Paid \cup {q} /\ q \notin Paid
        BY PaidGrows DEF Settle
    <2>2. \A S \in SUBSET Purchases : IsFiniteSet(S)
        BY PurchasesAssumption, FS_Subset DEF PurchasesAssumption
    <2> QED BY <2>1, <2>2 DEF Paid, TypeOK
<1>1. CodeCountsPaid'
    <2>1. CASE q \in WithCode
        <3>1. q \notin uses
            BY <1>0 DEF CodeCountsPaid
        <3>2. uses' = uses \cup {q} /\ usedCount' = usedCount + 1
            BY <2>1, <3>1 DEF Settle, UseCode
        <3>3. Cardinality(uses \cup {q}) = Cardinality(uses) + 1
            BY <1>0, <3>1, FS_AddElement
        <3> QED BY <1>0, <2>1, <3>2, <3>3 DEF CodeCountsPaid
    <2>2. CASE q \notin WithCode
        BY <1>0, <2>2 DEF CodeCountsPaid, Settle, UseCode, codeVars
    <2> QED BY <2>1, <2>2
<1>2. StockCountsPaid'
    <2> DEFINE sold == Cardinality(Paid \cap Products)
    <2>0. sold \in Nat /\ stock = IF sold >= InitialStock THEN 0 ELSE InitialStock - sold
        BY <1>0, FS_CardinalityType DEF StockCountsPaid
    <2>1. CASE q \in Products
        <3>1. Paid' \cap Products = (Paid \cap Products) \cup {q}
            BY <1>0, <2>1
        <3>2. Cardinality((Paid \cap Products) \cup {q}) = sold + 1
            BY <1>0, FS_AddElement
        <3>3. stock' = IF stock = 0 THEN 0 ELSE stock - 1
            BY <2>1 DEF Settle, PayOrder
        <3>4. stock' = IF sold + 1 >= InitialStock THEN 0 ELSE InitialStock - (sold + 1)
            BY <2>0, <3>3, BoundsAssumption DEF BoundsAssumption
        <3> QED BY <3>1, <3>2, <3>4 DEF StockCountsPaid
    <2>2. CASE q \notin Products
        BY <1>0, <2>2 DEF StockCountsPaid, Settle, PayOrder
    <2> QED BY <2>1, <2>2
<1> QED BY <1>1, <1>2

(* Only a settlement changes what is counted: other steps neither pay an    *)
(* invoice, nor take a payment back.                                        *)
LEMMA OtherStepsCount ==
    ASSUME IInv, [Next]_vars
    PROVE  \/ \E q \in Purchases : Settle(q)
           \/ Paid' = Paid /\ UNCHANGED <<stock, uses, usedCount>>
<1> USE DEF orderVars, codeVars, trafficVars, adminVars
<1>1. ASSUME NEW q \in Purchases, PurchaseStep(q), ~CreateInvoice(q), ~SettleIfFree(q)
      PROVE  UNCHANGED <<invoice, stock, uses, usedCount>>
    BY <1>1 DEF PurchaseStep, CheckStock, CheckCap, CheckOnce, CreateOrder, CreateAddon, LinkInvoice
<1>2. ASSUME NEW q \in Purchases, CreateInvoice(q) \/ CancelInvoice(q)
      PROVE  Paid' = Paid /\ UNCHANGED <<stock, uses, usedCount>>
    <2>1. invoice[q] # "paid"
        BY <1>2 DEF CreateInvoice, CancelInvoice, IInv, RowsFollowPlaces
    <2>2. \E s \in {"unpaid", "canceled"} : invoice' = [invoice EXCEPT ![q] = s]
        BY <1>2 DEF CreateInvoice, CancelInvoice
    <2>3. Paid' = Paid
        BY <2>1, <2>2 DEF Paid, IInv, TypeOK
    <2> QED BY <1>2, <2>3 DEF CreateInvoice, CancelInvoice
<1>3. ASSUME NEW q \in Purchases, SettleIfFree(q)
      PROVE  Settle(q) \/ UNCHANGED <<invoice, stock, uses, usedCount>>
    BY <1>3 DEF SettleIfFree
<1>4. ASSUME NEW q \in Purchases, CancelOrder(q) PROVE UNCHANGED <<invoice, stock, uses, usedCount>>
    BY <1>4 DEF CancelOrder
<1>5. ASSUME NEW a \in Admins, HandOverStep(a) \/ \E q \in Purchases, s \in ServerInputs : Open(a, q, s)
      PROVE  UNCHANGED <<invoice, stock, uses, usedCount>>
    BY <1>5 DEF HandOverStep, CheckHandOver, MarkProvisioned, Claim, TopUp, StartCounting, Open
<1>6. CASE Crash \/ UNCHANGED vars
    BY <1>6 DEF Crash, vars, Paid
<1>7. UNCHANGED invoice => Paid' = Paid
    BY DEF Paid
<1> QED BY <1>1, <1>2, <1>3, <1>4, <1>5, <1>6, <1>7 DEF Next, Pay
-----------------------------------------------------------------------------
(* Rows and hand-overs *)

LEMMA RowsStep == IInv /\ TypeOK' /\ [Next]_vars => RowsFollowPlaces'
<1> SUFFICES ASSUME IInv, TypeOK', [Next]_vars PROVE RowsFollowPlaces'
    OBVIOUS
<1> USE DEF IInv, TypeOK, RowsFollowPlaces, orderVars, codeVars, trafficVars, adminVars, GoTo
<1>1. ASSUME NEW q \in Purchases, PurchaseStep(q), ~SettleIfFree(q) PROVE RowsFollowPlaces'
    <2>1. CASE CheckStock(q)    BY <2>1 DEF CheckStock
    <2>2. CASE CheckCap(q)      BY <2>2 DEF CheckCap, AfterCode
    <2>3. CASE CheckOnce(q)     BY <2>3 DEF CheckOnce, AfterCode
    <2>4. CASE CreateOrder(q)   BY <2>4 DEF CreateOrder
    <2>5. CASE CreateAddon(q)   BY <2>5 DEF CreateAddon
    <2>6. CASE CreateInvoice(q) BY <2>6 DEF CreateInvoice
    <2>7. CASE LinkInvoice(q)   BY <2>7 DEF LinkInvoice
    <2> QED BY <1>1, <2>1, <2>2, <2>3, <2>4, <2>5, <2>6, <2>7 DEF PurchaseStep
<1>2. ASSUME NEW q \in Purchases, Settle(q), UNCHANGED addon, pc' = pc \/ pc' = [pc EXCEPT ![q] = "end"]
      PROVE  RowsFollowPlaces'
    BY <1>2 DEF Settle, PayOrder
<1>3. ASSUME NEW q \in Purchases, SettleIfFree(q) PROVE RowsFollowPlaces'
    BY <1>2, <1>3 DEF SettleIfFree
<1>4. ASSUME NEW q \in Purchases, Pay(q) PROVE RowsFollowPlaces'
    BY <1>2, <1>4 DEF Pay
<1>5. ASSUME NEW q \in Purchases, CancelInvoice(q) \/ CancelOrder(q) PROVE RowsFollowPlaces'
    BY <1>5 DEF CancelInvoice, CancelOrder
<1>6. ASSUME NEW a \in Admins, HandOverStep(a) PROVE RowsFollowPlaces'
    <2>0. job[a].order \in Purchases /\ invoice[job[a].order] = "paid"
        BY <1>6 DEF HandOverStep, CheckHandOver, MarkProvisioned, Claim, TopUp, StartCounting,
                    Jobs, HandedOverIsPaid
    <2>1. pc[job[a].order] \notin {"start", "code", "once", "order", "addon", "invoice"}
        BY <2>0
    <2> QED BY <1>6, <2>0, <2>1 DEF HandOverStep, CheckHandOver, MarkProvisioned, Claim, TopUp, StartCounting
<1>7. ASSUME NEW a \in Admins, NEW q \in Purchases, NEW s \in ServerInputs, Open(a, q, s)
      PROVE  RowsFollowPlaces'
    BY <1>7 DEF Open
<1>8. CASE Crash \/ UNCHANGED vars
    BY <1>8 DEF Crash, vars
<1> QED BY <1>1, <1>3, <1>4, <1>5, <1>6, <1>7, <1>8 DEF Next

(* Neither a settlement nor anything else takes a payment back, so what was *)
(* handed over stays paid.                                                  *)
LEMMA HandedOverStep == IInv /\ TypeOK' /\ [Next]_vars => HandedOverIsPaid'
<1> SUFFICES ASSUME IInv, TypeOK', [Next]_vars PROVE HandedOverIsPaid'
    OBVIOUS
<1> USE DEF IInv, TypeOK, HandedOverIsPaid, orderVars, codeVars, trafficVars, adminVars,
            GoTo, AdminGoTo, AdminEnd, Jobs
<1>1. ASSUME NEW q \in Purchases, PurchaseStep(q), ~SettleIfFree(q) PROVE HandedOverIsPaid'
    <2>1. CASE CreateOrder(q)
        BY <2>1 DEF CreateOrder
    <2>2. CASE CreateInvoice(q)
        BY <2>2 DEF CreateInvoice, RowsFollowPlaces
    <2>3. CASE ~CreateOrder(q) /\ ~CreateInvoice(q)
        BY <1>1, <2>3 DEF PurchaseStep, CheckStock, CheckCap, CheckOnce, CreateAddon, LinkInvoice
    <2> QED BY <2>1, <2>2, <2>3
<1>2. ASSUME NEW q \in Purchases, Settle(q), UNCHANGED adminVars PROVE HandedOverIsPaid'
    BY <1>2 DEF Settle, PayOrder
<1>3. ASSUME NEW q \in Purchases, SettleIfFree(q) PROVE HandedOverIsPaid'
    BY <1>2, <1>3 DEF SettleIfFree
<1>4. ASSUME NEW q \in Purchases, Pay(q) PROVE HandedOverIsPaid'
    BY <1>2, <1>4 DEF Pay
<1>5. ASSUME NEW q \in Purchases, CancelInvoice(q) \/ CancelOrder(q) PROVE HandedOverIsPaid'
    BY <1>5 DEF CancelInvoice, CancelOrder
<1>6. ASSUME NEW a \in Admins, HandOverStep(a) PROVE HandedOverIsPaid'
    BY <1>6 DEF HandOverStep, CheckHandOver, MarkProvisioned, Claim, TopUp, StartCounting
<1>7. ASSUME NEW a \in Admins, NEW q \in Purchases, NEW s \in ServerInputs, Open(a, q, s)
      PROVE  HandedOverIsPaid'
    BY <1>7 DEF Open
<1>8. CASE Crash \/ UNCHANGED vars
    BY <1>8 DEF Crash, vars
<1> QED BY <1>1, <1>3, <1>4, <1>5, <1>6, <1>7, <1>8 DEF Next

(* A claim takes a row that waits, so nobody else is between its claim and  *)
(* its insert for the same order.                                           *)
LEMMA ClaimedStep == IInv /\ TypeOK' /\ [Next]_vars => ClaimedOnce'
<1> SUFFICES ASSUME IInv, TypeOK', [Next]_vars PROVE ClaimedOnce'
    OBVIOUS
<1> USE DEF IInv, TypeOK, ClaimedOnce, orderVars, codeVars, trafficVars, adminVars,
            GoTo, AdminGoTo, AdminEnd, Jobs
<1>1. ASSUME NEW q \in Purchases, PurchaseStep(q), ~SettleIfFree(q) PROVE ClaimedOnce'
    <2>1. CASE CreateAddon(q)
        BY <2>1 DEF CreateAddon, RowsFollowPlaces
    <2>2. CASE CreateInvoice(q)
        BY <2>2 DEF CreateInvoice, RowsFollowPlaces
    <2>3. CASE ~CreateAddon(q) /\ ~CreateInvoice(q)
        BY <1>1, <2>3 DEF PurchaseStep, CheckStock, CheckCap, CheckOnce, CreateOrder, LinkInvoice
    <2> QED BY <2>1, <2>2, <2>3
<1>2. ASSUME NEW q \in Purchases, Settle(q), UNCHANGED <<addon, addonTopups, adminVars>>
      PROVE  ClaimedOnce'
    BY <1>2 DEF Settle
<1>3. ASSUME NEW q \in Purchases, SettleIfFree(q) PROVE ClaimedOnce'
    BY <1>2, <1>3 DEF SettleIfFree
<1>4. ASSUME NEW q \in Purchases, Pay(q) PROVE ClaimedOnce'
    BY <1>2, <1>4 DEF Pay
<1>5. ASSUME NEW q \in Purchases, CancelInvoice(q) \/ CancelOrder(q) PROVE ClaimedOnce'
    BY <1>5 DEF CancelInvoice, CancelOrder
<1>6. ASSUME NEW a \in Admins, HandOverStep(a) PROVE ClaimedOnce'
    <2>0. job[a].order \in Purchases /\ invoice[job[a].order] = "paid"
        BY <1>6 DEF HandOverStep, CheckHandOver, MarkProvisioned, Claim, TopUp, StartCounting,
                    HandedOverIsPaid
    <2>1. CASE Claim(a)
        BY <2>0, <2>1 DEF Claim
    <2>2. CASE TopUp(a)
        BY <2>0, <2>2 DEF TopUp
    <2>3. CASE ~Claim(a) /\ ~TopUp(a)
        BY <1>6, <2>3 DEF HandOverStep, CheckHandOver, MarkProvisioned, StartCounting
    <2> QED BY <2>1, <2>2, <2>3
<1>7. ASSUME NEW a \in Admins, NEW q \in Purchases, NEW s \in ServerInputs, Open(a, q, s)
      PROVE  ClaimedOnce'
    BY <1>7 DEF Open
<1>8. CASE Crash \/ UNCHANGED vars
    BY <1>8 DEF Crash, vars
<1> QED BY <1>1, <1>3, <1>4, <1>5, <1>6, <1>7, <1>8 DEF Next

(* What was claimed is on its way or there: the only step that takes a      *)
(* hand-over from its place is its own, unless the process restarts.        *)
LEMMA CarriedStep == IInv /\ TypeOK' /\ [Next]_vars => ClaimCarried'
<1> SUFFICES ASSUME IInv, TypeOK', [Next]_vars, crashes' = 0, NEW q \in Purchases
             PROVE  /\ addon'[q] = "applied" =>
                          addonTopups'[q] = 1 \/ \E a \in Admins : Carries(a, q, "topup")'
                    /\ addonTopups'[q] = 1 =>
                          counted'[Owner[q]] \/ \E a \in Admins : Carries(a, q, "count")'
    BY DEF ClaimCarried
<1> DEFINE Kept == /\ addon'[q] = "applied" =>
                          addonTopups'[q] = 1 \/ \E a \in Admins : Carries(a, q, "topup")'
                   /\ addonTopups'[q] = 1 =>
                          counted'[Owner[q]] \/ \E a \in Admins : Carries(a, q, "count")'
<1> USE DEF IInv, TypeOK, Carries, orderVars, codeVars, trafficVars, adminVars,
            GoTo, AdminGoTo, AdminEnd, Jobs
<1>0. ASSUME crashes = 0
      PROVE  /\ addon[q] = "applied" =>
                   addonTopups[q] = 1 \/ \E a \in Admins : apc[a] = "topup" /\ job[a].order = q
             /\ addonTopups[q] = 1 =>
                   counted[Owner[q]] \/ \E a \in Admins : apc[a] = "count" /\ job[a].order = q
    BY <1>0 DEF ClaimCarried
<1>1. ASSUME NEW p \in Purchases, PurchaseStep(p), ~SettleIfFree(p) PROVE Kept
    <2>1. CASE CreateAddon(p)
        BY <1>0, <2>1 DEF CreateAddon, ClaimedOnce, RowsFollowPlaces
    <2>2. CASE ~CreateAddon(p)
        BY <1>0, <1>1, <2>2 DEF PurchaseStep, CheckStock, CheckCap, CheckOnce, CreateOrder,
                                CreateInvoice, LinkInvoice
    <2> QED BY <2>1, <2>2
<1>2. ASSUME NEW p \in Purchases, Settle(p), UNCHANGED <<addon, addonTopups, adminVars, crashes>>
      PROVE  Kept
    <2>1. counted[Owner[q]] => counted'[Owner[q]]
        <3>1. counted' = [counted EXCEPT ![Owner[p]] = TRUE] \/ counted' = counted
            BY <1>2 DEF Settle, AddTraffic
        <3>2. Owner[p] \in Customers /\ Owner[q] \in Customers
            BY PurchasesAssumption DEF PurchasesAssumption
        <3> QED BY <3>1, <3>2
    <2> QED BY <1>0, <1>2, <2>1
<1>3. ASSUME NEW p \in Purchases, SettleIfFree(p) PROVE Kept
    BY <1>0, <1>2, <1>3 DEF SettleIfFree
<1>4. ASSUME NEW p \in Purchases, Pay(p) PROVE Kept
    BY <1>2, <1>4 DEF Pay
<1>5. ASSUME NEW p \in Purchases, CancelInvoice(p) \/ CancelOrder(p) PROVE Kept
    BY <1>0, <1>5 DEF CancelInvoice, CancelOrder
<1>6. ASSUME NEW b \in Admins, HandOverStep(b) PROVE Kept
    <2>0. job[b] \in Jobs /\ job[b].order \in Purchases
        BY <1>6 DEF HandOverStep, CheckHandOver, MarkProvisioned, Claim, TopUp, StartCounting
    <2>1. CASE CheckHandOver(b) \/ MarkProvisioned(b)
        BY <1>0, <2>1 DEF CheckHandOver, MarkProvisioned
    <2>2. CASE Claim(b)
        BY <1>0, <2>0, <2>2 DEF Claim
    <2>3. CASE TopUp(b)
        BY <1>0, <2>0, <2>3 DEF TopUp, ClaimedOnce
    <2>4. CASE StartCounting(b)
        <3>1. Owner[q] \in Customers
            BY PurchasesAssumption DEF PurchasesAssumption
        <3>2. job[b].order = q => counted'[Owner[q]]
            BY <2>4, <3>1 DEF StartCounting
        <3>3. counted[Owner[q]] => counted'[Owner[q]]
            BY <2>0, <2>4, <3>1, PurchasesAssumption DEF StartCounting, PurchasesAssumption
        <3> QED BY <1>0, <2>0, <2>4, <3>2, <3>3 DEF StartCounting
    <2> QED BY <1>6, <2>1, <2>2, <2>3, <2>4 DEF HandOverStep
<1>7. ASSUME NEW b \in Admins, NEW p \in Purchases, NEW s \in ServerInputs, Open(b, p, s) PROVE Kept
    BY <1>0, <1>7 DEF Open
<1>8. CASE Crash
    BY <1>8 DEF Crash
<1>9. CASE UNCHANGED vars
    BY <1>0, <1>9 DEF vars
<1> QED BY <1>1, <1>3, <1>4, <1>5, <1>6, <1>7, <1>8, <1>9 DEF Next

(* Every step keeps the inductive invariant.                                *)
LEMMA StepIInv == IInv /\ [Next]_vars => IInv'
<1> SUFFICES ASSUME IInv, [Next]_vars PROVE IInv'
    OBVIOUS
<1>1. TypeOK'
    BY TypeStep DEF IInv
<1>2. CodeCountsPaid' /\ StockCountsPaid'
    <2>1. ASSUME Paid' = Paid, UNCHANGED <<stock, uses, usedCount>>
          PROVE  CodeCountsPaid' /\ StockCountsPaid'
        BY <2>1 DEF IInv, CodeCountsPaid, StockCountsPaid
    <2> QED BY <2>1, OtherStepsCount, SettleCounts DEF IInv
<1> QED BY <1>1, <1>2, RowsStep, HandedOverStep, ClaimedStep, CarriedStep DEF IInv

(* The inductive invariant holds in every reachable state.                  *)
LEMMA Invariance == Spec => []IInv
BY InitIInv, StepIInv, PTL DEF Spec
-----------------------------------------------------------------------------
(* The stock and the counter of the code are what was paid, for any number  *)
(* of purchases that interleave, are given up, canceled or cut off.         *)
THEOREM CountsHold == Spec => []CountsPaid
<1>1. IInv => CountsPaid
    BY DEF IInv, CountsPaid
<1> QED BY <1>1, Invariance, PTL

(* An add-on is on a server only once, and only if it was paid; and it is   *)
(* there, or on its way, once it was claimed and no restart came between.   *)
THEOREM AddonsHold == Spec => []AddonsKept
<1>1. IInv => AddonsKept
    BY DEF IInv, AddonsKept, AddonPaid, ClaimedOnce, Paid, TypeOK, HandedOverIsPaid
<1> QED BY <1>1, Invariance, PTL

(* A code that is used up, with nothing under way, is used up for good.     *)
THEOREM ExhaustedForever == Spec => ExhaustedStays
<1> DEFINE Over == Exhausted => Exhausted'
<1>1. ASSUME IInv, Exhausted, [Next]_vars PROVE Exhausted'
    <2> USE <1>1 DEF IInv, TypeOK, Exhausted, InFlight, orderVars, codeVars, trafficVars, adminVars, GoTo
    <2>0. MaxUses \in Nat /\ WithCode \subseteq Purchases
        BY BoundsAssumption, PurchasesAssumption DEF BoundsAssumption, PurchasesAssumption
    <2>1. ASSUME NEW q \in Purchases, PurchaseStep(q), ~SettleIfFree(q) PROVE Exhausted'
        BY <2>0, <2>1 DEF PurchaseStep, CheckStock, CheckCap, CheckOnce, CreateOrder,
           CreateAddon, CreateInvoice, LinkInvoice, AfterCode
    <2>2. ASSUME NEW q \in Purchases, Settle(q), pc' = pc \/ pc' = [pc EXCEPT ![q] = "end"]
          PROVE  Exhausted'
        BY <2>0, <2>2 DEF Settle, UseCode
    <2>3. ASSUME NEW q \in Purchases, SettleIfFree(q) PROVE Exhausted'
        BY <2>0, <2>2, <2>3 DEF SettleIfFree
    <2>4. ASSUME NEW q \in Purchases, Pay(q) PROVE Exhausted'
        BY <2>2, <2>4 DEF Pay
    <2>5. ASSUME NEW q \in Purchases, CancelInvoice(q) \/ CancelOrder(q) PROVE Exhausted'
        BY <2>0, <2>5 DEF CancelInvoice, CancelOrder
    <2>6. ASSUME NEW a \in Admins,
                 HandOverStep(a) \/ \E q \in Purchases, s \in ServerInputs : Open(a, q, s)
          PROVE  Exhausted'
        BY <2>6 DEF HandOverStep, CheckHandOver, MarkProvisioned, Claim, TopUp, StartCounting, Open
    <2>7. CASE Crash \/ UNCHANGED vars
        BY <2>0, <2>7 DEF Crash, vars
    <2> QED BY <2>1, <2>3, <2>4, <2>5, <2>6, <2>7 DEF Next
<1>2. IInv /\ [Next]_vars => [Over]_vars
    BY <1>1
<1> QED BY <1>2, Invariance, PTL DEF Spec, ExhaustedStays
-----------------------------------------------------------------------------
(* Notices of traffic (Quota).                                             *)

(* The notices sent of a kind, the one about to go out included, are the     *)
(* claims that have been cleared and the one that stands.                   *)
OnItsWay(k) == IF round.pc = "send" /\ round.kind = k THEN 1 ELSE 0
Standing(k) == IF k \in notices THEN 1 ELSE 0

NoticesInv ==
    /\ sent \in [Q!Kinds -> Nat] /\ cleared \in Nat
    /\ round = [pc |-> round.pc, purchased |-> round.purchased, used |-> round.used, kind |-> round.kind]
    /\ round.pc = "send" => round.kind \in Q!Kinds
    /\ \A k \in Q!Kinds : sent[k] + OnItsWay(k) <= cleared + Standing(k)

(* Claiming a row and sending its notice are two steps, between which a      *)
(* payment may clear the row or the worker stop: neither lets a second       *)
(* notice out.                                                              *)
LEMMA NoticesStep == ASSUME NoticesInv, Q!Next PROVE NoticesInv'
<1>1. CASE Q!Use \/ (Q!Office /\ ~Q!PayPackage)
    <2>1. UNCHANGED <<notices, round, sent, cleared>>
        BY <1>1 DEF Q!Use, Q!Office, Q!ClaimAddon, Q!AddAddon, Q!CountAddon, Q!DeleteTopup,
            Q!SendForm, Q!SendOpening, Q!Answer, Q!AnswerOpening
    <2> QED BY <2>1 DEF NoticesInv, OnItsWay, Standing
<1>2. CASE Q!PayPackage
    <2>1. notices' = {} /\ cleared' = cleared + 1 /\ UNCHANGED <<round, sent>>
        BY <1>2 DEF Q!PayPackage
    <2>2. \A k \in Q!Kinds : sent'[k] + OnItsWay(k)' <= cleared' + Standing(k)'
        BY <2>1 DEF NoticesInv, OnItsWay, Standing
    <2> QED BY <2>1, <2>2 DEF NoticesInv
<1>3. CASE Q!Read
    BY <1>3 DEF Q!Read, Q!Resting, NoticesInv, OnItsWay, Standing
<1>4. CASE Q!Look
    <2>1. Q!Due \in Q!Kinds \cup {"none"}
        BY DEF Q!Due, Q!Kinds
    <2>2. CASE Q!Fresh(Q!Due)
        <3> DEFINE k == Q!Due
        <3> HIDE DEF k
        <3>1. k \in Q!Kinds /\ k \notin notices
            BY <2>1, <2>2 DEF Q!Fresh, k
        <3>2. /\ notices' = notices \union {k}
              /\ round' = [round EXCEPT !.pc = "send", !.kind = k]
              /\ sent' = sent /\ cleared' = cleared
            BY <1>4, <2>2 DEF Q!Look, k
        <3>3. round'.pc = "send" /\ round'.kind = k /\ round.pc = "look"
            BY <1>4, <3>2 DEF Q!Look, NoticesInv
        <3>4. round' = [pc |-> round'.pc, purchased |-> round'.purchased, used |-> round'.used, kind |-> round'.kind]
            BY <3>2 DEF NoticesInv
        <3>5. ASSUME NEW j \in Q!Kinds PROVE sent[j] + OnItsWay(j)' <= cleared + Standing(j)'
            <4>1. CASE j = k
                BY <3>1, <3>2, <3>3, <4>1 DEF NoticesInv, OnItsWay, Standing
            <4>2. CASE j # k
                BY <3>1, <3>2, <3>3, <4>2 DEF NoticesInv, OnItsWay, Standing
            <4> QED BY <4>1, <4>2
        <3> QED BY <3>1, <3>2, <3>3, <3>4, <3>5 DEF NoticesInv
    <2>3. CASE ~Q!Fresh(Q!Due)
        <3>1. UNCHANGED <<notices, sent, cleared>> /\ round' = Q!Resting /\ round.pc = "look"
            BY <1>4, <2>3 DEF Q!Look
        <3> QED BY <3>1 DEF NoticesInv, OnItsWay, Standing, Q!Resting
    <2> QED BY <2>2, <2>3
<1>5. CASE Q!Send
    BY <1>5 DEF Q!Send, Q!Resting, NoticesInv, OnItsWay, Standing
<1>6. CASE Q!Crash
    BY <1>6 DEF Q!Crash, Q!Resting, NoticesInv, OnItsWay, Standing
<1> QED BY <1>1, <1>2, <1>3, <1>4, <1>5, <1>6 DEF Q!Next, Q!Office, Q!Round

(* A notice of traffic goes out once per purchase (customer_notices is       *)
(* claimed before the message, cleared by a payment), for every package,     *)
(* usage, number of purchases and of restarts of the worker.                *)
THEOREM NoticeOnce == FrontSpec => []OncePerPurchase
<1>1. FrontInit => NoticesInv
    BY DEF FrontInit, Q!Init, Q!Resting, NoticesInv, OnItsWay, Standing, Q!Kinds
<1>2. NoticesInv /\ [FrontNext]_<<focus, vars, qvars, avars, fvars>> => NoticesInv'
    <2> SUFFICES ASSUME NoticesInv, [FrontNext]_<<focus, vars, qvars, avars, fvars>> PROVE NoticesInv'
        OBVIOUS
    <2>1. CASE UNCHANGED qvars
        BY <2>1 DEF qvars, NoticesInv, OnItsWay, Standing
    <2>2. CASE Q!Next
        BY <2>2, NoticesStep
    <2> QED BY <2>1, <2>2 DEF FrontNext, OnlyShop, OnlyAccounts, OnlyStorefront, OnlyQuota
<1>3. NoticesInv => OncePerPurchase
    BY DEF NoticesInv, OncePerPurchase, Q!OncePerPurchase, OnItsWay, Standing
<1> QED BY <1>1, <1>2, <1>3, PTL DEF FrontSpec

-----------------------------------------------------------------------------
(* Customers and their logins (Accounts).                                  *)

(* The rows, the requests of visitors and of the admin.                      *)
Customer == [phone : Phones \cup {NoPhone}, store : BOOLEAN, active : BOOLEAN, deleted : BOOLEAN]
User == [name : Phones \cup Names, customer : Nat, active : BOOLEAN]
Visit == [pc : {"idle", "session", "login", "register", "insert", "order"},
          mode : {"session", "login", "register"},
          name : Phones \cup Names \cup {NoPhone}, customer : Nat]
Change == [pc : {"idle", "deactivate", "insert"}, id : Nat, name : Phones \cup Names \cup {NoPhone}]

AccountsTyped ==
    /\ customers \in Seq(Customer) /\ users \in SUBSET User
    /\ session \in [Visitors -> Nat]
    /\ req \in [Visitors -> Visit]
    /\ \A v \in Visitors : req[v].pc \in {"register", "insert"} => req[v].name \in Phones
    /\ put \in Change /\ (put.pc = "insert" => put.name \in Phones \cup Names)

(* A number belongs to one customer at most.                                *)
NumbersApart ==
    \A i, j \in A!Alive : customers[i].phone = customers[j].phone /\ customers[i].phone # NoPhone => i = j

(* Each login has a name and a customer of its own, who is there; and a      *)
(* customer the shop has made has one.                                      *)
LoginsApart == \A u, w \in users : u.name = w.name \/ u.customer = w.customer => u = w
LoginsOwned == \A u \in users : u.customer \in A!Alive
StoreSignsIn == \A i \in A!Alive : customers[i].store => \E u \in users : u.customer = i

AccountsInv == AccountsTyped /\ NumbersApart /\ LoginsApart /\ LoginsOwned /\ StoreSignsIn

(* A step that leaves the rows alone.                                       *)
LEMMA RowsAlone == ASSUME AccountsInv, AccountsTyped', UNCHANGED <<customers, users>> PROVE AccountsInv'
BY DEF AccountsInv, NumbersApart, LoginsApart, LoginsOwned, StoreSignsIn, A!Alive

(* A step of a visitor that leaves them alone.                              *)
LEMMA VisitAlone ==
    ASSUME AccountsInv, A!AccountsAssumption, NEW v \in Visitors,
           A!Begin(v) \/ A!Session(v) \/ A!Login(v) \/ A!LookUp(v) \/ A!Order(v)
    PROVE  AccountsInv'
<1>0. /\ AccountsTyped /\ UNCHANGED <<customers, users, put>>
      /\ A!Idle \in Visit
    BY DEF AccountsInv, A!Begin, A!Session, A!Login, A!LookUp, A!Order, A!Idle, Visit
<1>1. SUFFICES /\ session' \in [Visitors -> Nat]
               /\ req' \in [Visitors -> Visit]
               /\ \A w \in Visitors : req'[w].pc \in {"register", "insert"} => req'[w].name \in Phones
    BY <1>0, RowsAlone DEF AccountsTyped
<1>2. CASE A!Begin(v)
    <2>1. session' = session
        BY <1>2 DEF A!Begin
    <2>2. CASE req' = [req EXCEPT ![v] = [A!Idle EXCEPT !.pc = "session"]]
        BY <1>0, <2>1, <2>2 DEF A!Idle, Visit, AccountsTyped
    <2>3. ASSUME NEW n \in Phones \cup Names,
                 req' = [req EXCEPT ![v] = [A!Idle EXCEPT !.pc = "login", !.mode = "login", !.name = n]]
          PROVE  req' \in [Visitors -> Visit] /\ \A w \in Visitors : req'[w].pc \in {"register", "insert"} => req'[w].name \in Phones
        BY <1>0, <2>3 DEF A!Idle, Visit, AccountsTyped
    <2>4. ASSUME NEW n \in Phones,
                 req' = [req EXCEPT ![v] = [A!Idle EXCEPT !.pc = "register", !.mode = "register", !.name = n]]
          PROVE  req' \in [Visitors -> Visit] /\ \A w \in Visitors : req'[w].pc \in {"register", "insert"} => req'[w].name \in Phones
        BY <1>0, <2>4 DEF A!Idle, Visit, AccountsTyped
    <2> QED BY <1>0, <1>2, <2>1, <2>2, <2>3, <2>4 DEF A!Begin, AccountsTyped
<1>3. CASE A!Session(v)
    <2> DEFINE r == IF session[v] = 0 THEN A!Idle ELSE [req[v] EXCEPT !.pc = "order", !.customer = session[v]]
    <2>1. r \in Visit /\ r.pc \in {"idle", "order"}
        BY <1>0 DEF A!Idle, Visit, AccountsTyped
    <2>2. session' = session /\ req' = [req EXCEPT ![v] = r]
        BY <1>0, <1>3 DEF A!Session, AccountsTyped
    <2> QED BY <1>0, <2>1, <2>2 DEF AccountsTyped
<1>4. CASE A!Login(v)
    <2>1. CASE req' = [req EXCEPT ![v] = A!Idle] /\ session' = session
        BY <1>0, <2>1 DEF AccountsTyped, A!Idle
    <2>2. CASE \E u \in A!Logins(req[v].name) :
             /\ u.active
             /\ session' = [session EXCEPT ![v] = u.customer]
             /\ req' = [req EXCEPT ![v] = [@ EXCEPT !.pc = "order", !.customer = u.customer]]
        <3>1. PICK u \in users : /\ session' = [session EXCEPT ![v] = u.customer]
                                 /\ req' = [req EXCEPT ![v] = [@ EXCEPT !.pc = "order", !.customer = u.customer]]
            BY <2>2 DEF A!Logins
        <3>2. u.customer \in Nat
            BY <1>0 DEF AccountsTyped, User
        <3> DEFINE r == [req[v] EXCEPT !.pc = "order", !.customer = u.customer]
        <3>3. r \in Visit /\ r.pc = "order"
            BY <1>0, <3>2 DEF AccountsTyped, Visit
        <3>4. req' = [req EXCEPT ![v] = r]
            BY <1>0, <3>1 DEF AccountsTyped
        <3> QED BY <1>0, <3>1, <3>2, <3>3, <3>4 DEF AccountsTyped
    <2> QED BY <1>4, <2>1, <2>2 DEF A!Login
<1>5. CASE A!LookUp(v)
    <2> DEFINE r == IF A!Known(req[v].name) THEN A!Idle ELSE [req[v] EXCEPT !.pc = "insert"]
    <2>1. r \in Visit /\ (r.pc = "insert" => r.name \in Phones) /\ r.pc # "register"
        BY <1>0, <1>5 DEF A!LookUp, A!Idle, Visit, AccountsTyped
    <2>2. session' = session /\ req' = [req EXCEPT ![v] = r]
        BY <1>0, <1>5 DEF A!LookUp, AccountsTyped
    <2> QED BY <1>0, <2>1, <2>2 DEF AccountsTyped
<1>6. CASE A!Order(v)
    BY <1>0, <1>6 DEF A!Order, AccountsTyped, A!Idle
<1> QED BY <1>2, <1>3, <1>4, <1>5, <1>6

(* A row that is added.                                                     *)
LEMMA Added ==
    ASSUME customers \in Seq(Customer), NEW c \in Customer, ~c.deleted, customers' = Append(customers, c)
    PROVE  /\ customers' \in Seq(Customer)
           /\ Len(customers) \in Nat /\ Len(customers) + 1 \notin A!Alive
           /\ A!Alive' = A!Alive \cup {Len(customers) + 1}
           /\ customers'[Len(customers) + 1] = c
           /\ \A i \in A!Alive : customers'[i] = customers[i]
<1>1. /\ customers' \in Seq(Customer) /\ Len(customers') = Len(customers) + 1 /\ Len(customers) \in Nat
      /\ customers'[Len(customers) + 1] = c
      /\ \A i \in 1 .. Len(customers) : customers'[i] = customers[i]
    BY AppendProperties
<1>2. DOMAIN customers = 1 .. Len(customers) /\ DOMAIN customers' = 1 .. Len(customers')
    BY <1>1
<1> QED BY <1>1, <1>2 DEF A!Alive

(* A visitor registers.                                                     *)
LEMMA InsertStep ==
    ASSUME AccountsInv, A!AccountsAssumption, NEW v \in Visitors, A!Insert(v) PROVE AccountsInv'
<1>0. AccountsTyped /\ UNCHANGED <<put, orders, events>> /\ req[v].pc = "insert" /\ req[v].name \in Phones
    BY DEF AccountsInv, AccountsTyped, A!Insert
<1>1. CASE A!Taken(req[v].name)
    <2>1. UNCHANGED <<customers, users, session>> /\ req' = [req EXCEPT ![v] = A!Idle]
        BY <1>1 DEF A!Insert
    <2>2. AccountsTyped'
        BY <1>0, <2>1 DEF AccountsTyped, A!Idle, Visit
    <2> QED BY <2>1, <2>2, RowsAlone
<1>2. CASE ~A!Taken(req[v].name)
    <2> DEFINE id == Len(customers) + 1
               c == [phone |-> req[v].name, store |-> TRUE, active |-> TRUE, deleted |-> FALSE]
               u == [name |-> req[v].name, customer |-> id, active |-> TRUE]
    <2>1. /\ customers' = Append(customers, c) /\ users' = users \cup {u}
          /\ session' = [session EXCEPT ![v] = id]
          /\ req' = [req EXCEPT ![v] = [@ EXCEPT !.pc = "order", !.customer = id]]
        BY <1>2 DEF A!Insert
    <2>2. c \in Customer /\ ~c.deleted
        BY <1>0 DEF Customer
    <2>3. c.phone = req[v].name /\ u.name = req[v].name /\ u.customer = id
        OBVIOUS
    <2>4. id \in Nat /\ u \in User
        BY <1>0 DEF AccountsTyped, User
    <2> HIDE DEF c, u, id
    <2>5. /\ customers' \in Seq(Customer)
          /\ id \notin A!Alive
          /\ A!Alive' = A!Alive \cup {id}
          /\ customers'[id] = c
          /\ \A i \in A!Alive : customers'[i] = customers[i]
        BY <1>0, <2>1, <2>2, Added DEF AccountsTyped, id
    <2>6. (\A i \in A!Alive : customers[i].phone # req[v].name) /\ (\A w \in users : w.name # req[v].name)
        BY <1>2 DEF A!Taken, A!Ours, A!Logins
    <2>7. AccountsTyped'
        <3> DEFINE r == [req[v] EXCEPT !.pc = "order", !.customer = id]
        <3>1. r \in Visit /\ r.pc = "order"
            BY <1>0, <2>4 DEF AccountsTyped, Visit
        <3>2. req' = [req EXCEPT ![v] = r]
            BY <1>0, <2>1 DEF AccountsTyped
        <3> QED BY <1>0, <2>1, <2>4, <2>5, <3>1, <3>2 DEF AccountsTyped
    <2>8. NumbersApart'
        BY <2>3, <2>5, <2>6 DEF AccountsInv, NumbersApart
    <2>9. LoginsApart' /\ LoginsOwned'
        BY <2>1, <2>3, <2>5, <2>6 DEF AccountsInv, LoginsApart, LoginsOwned
    <2>10. StoreSignsIn'
        BY <2>1, <2>3, <2>5 DEF AccountsInv, StoreSignsIn
    <2> QED BY <2>7, <2>8, <2>9, <2>10 DEF AccountsInv
<1> QED BY <1>1, <1>2

(* The acts of an admin that leave the rows alone, and a restart.           *)
LEMMA RestartStep == ASSUME AccountsInv, A!Restart PROVE AccountsInv'
<1>1. UNCHANGED <<customers, users, session>> /\ req' = [v \in Visitors |-> A!Idle] /\ put' = A!NoPut
    BY DEF A!Restart
<1>2. AccountsTyped'
    BY <1>1 DEF AccountsInv, AccountsTyped, A!Idle, A!NoPut, Visit, Change
<1> QED BY <1>1, <1>2, RowsAlone

(* An admin adds a customer. *)
LEMMA AddStep ==
    ASSUME AccountsInv, NEW ph \in Phones \cup {NoPhone}, A!AddCustomer(ph) PROVE AccountsInv'
<1> DEFINE c == [phone |-> ph, store |-> FALSE, active |-> TRUE, deleted |-> FALSE]
<1>1. /\ AccountsTyped /\ UNCHANGED <<users, session, req, put>>
      /\ customers' = Append(customers, c)
      /\ ph = NoPhone \/ A!Ours(ph) = {}
    BY DEF AccountsInv, A!AddCustomer
<1>2. c \in Customer /\ ~c.deleted /\ ~c.store /\ c.phone = ph
    BY DEF Customer
<1> HIDE DEF c
<1> DEFINE id == Len(customers) + 1
<1>3. /\ customers' \in Seq(Customer)
      /\ id \notin A!Alive
      /\ A!Alive' = A!Alive \cup {id}
      /\ customers'[id] = c
      /\ \A i \in A!Alive : customers'[i] = customers[i]
    BY <1>1, <1>2, Added DEF AccountsTyped
<1> HIDE DEF id
<1>4. AccountsTyped'
    BY <1>1, <1>3 DEF AccountsTyped
<1>5. NumbersApart'
    <2>1. \A i \in A!Alive : ph # NoPhone => customers[i].phone # ph
        BY <1>1 DEF A!Ours
    <2> QED BY <1>2, <1>3, <2>1 DEF AccountsInv, NumbersApart
<1>6. LoginsApart' /\ LoginsOwned' /\ StoreSignsIn'
    BY <1>1, <1>2, <1>3 DEF AccountsInv, LoginsApart, LoginsOwned, StoreSignsIn
<1> QED BY <1>4, <1>5, <1>6 DEF AccountsInv

(* Logins that keep their names and customers are still apart and owned.    *)
LEMMA Switched ==
    ASSUME AccountsInv, NEW S, NEW f, users' = {IF u.customer = S THEN [u EXCEPT !.active = f] ELSE u : u \in users},
           f \in BOOLEAN
    PROVE  /\ users' \in SUBSET User /\ LoginsApart'
           /\ \A w \in users' : \E u \in users : u.customer = w.customer
           /\ \A u \in users : \E w \in users' : u.customer = w.customer
<1> DEFINE Turned(u) == IF u.customer = S THEN [u EXCEPT !.active = f] ELSE u
<1>1. \A u \in users : Turned(u) \in User /\ Turned(u).name = u.name /\ Turned(u).customer = u.customer
    BY DEF AccountsInv, AccountsTyped, User
<1>2. users' = {Turned(u) : u \in users}
    OBVIOUS
<1> HIDE DEF Turned
<1> QED BY <1>1, <1>2 DEF AccountsInv, LoginsApart

(* An admin changes a customer. *)
LEMMA EditStep ==
    ASSUME AccountsInv, A!AccountsAssumption, NEW i \in A!Alive, NEW ph \in Phones \cup {NoPhone}, NEW active \in BOOLEAN,
           A!EditCustomer(i, ph, active)
    PROVE  AccountsInv'
<1>1. /\ AccountsTyped /\ UNCHANGED <<users, session, req>>
      /\ customers' = [customers EXCEPT ![i].phone = ph, ![i].active = active]
      /\ ph = NoPhone \/ A!Ours(ph) \subseteq {i}
      /\ put' = IF active THEN A!NoPut ELSE [A!NoPut EXCEPT !.pc = "deactivate", !.id = i]
    BY DEF AccountsInv, A!EditCustomer
<1>2. customers \in Seq(Customer) /\ i \in 1 .. Len(customers) /\ i \in Nat /\ customers[i] \in Customer /\ DOMAIN customers = 1 .. Len(customers)
    BY <1>1 DEF AccountsTyped, A!Alive
<1> DEFINE c == [customers[i] EXCEPT !.phone = ph, !.active = active]
<1>3. c \in Customer /\ c.deleted = customers[i].deleted /\ c.store = customers[i].store /\ c.phone = ph
    BY <1>2 DEF Customer
<1>4. customers' = [customers EXCEPT ![i] = c]
    BY <1>1, <1>2 DEF Customer
<1> HIDE DEF c
<1>5. /\ customers' \in Seq(Customer) /\ Len(customers') = Len(customers)
      /\ customers'[i] = c /\ \A j \in 1 .. Len(customers) : j # i => customers'[j] = customers[j]
    BY <1>2, <1>3, <1>4, ExceptSeq
<1>6. A!Alive' = A!Alive /\ \A j \in A!Alive : j \in 1 .. Len(customers)
    BY <1>2, <1>3, <1>5 DEF A!Alive
<1>7. put' \in Change /\ put'.pc # "insert"
    BY <1>1, <1>2 DEF A!NoPut, Change
<1>8. AccountsTyped'
    BY <1>1, <1>5, <1>7 DEF AccountsTyped
<1>9. NumbersApart'
    <2> SUFFICES ASSUME NEW j \in A!Alive, NEW k \in A!Alive,
                        customers'[j].phone = customers'[k].phone, customers'[j].phone # NoPhone
                 PROVE  j = k
        BY <1>6 DEF NumbersApart
    <2>1. CASE j # i /\ k # i
        BY <1>5, <1>6, <2>1 DEF AccountsInv, NumbersApart
    <2>2. CASE j = i \/ k = i
        BY <1>1, <1>3, <1>5, <1>6, <2>2 DEF A!Ours
    <2> QED BY <2>1, <2>2
<1>10. LoginsApart' /\ LoginsOwned' /\ StoreSignsIn'
    BY <1>1, <1>3, <1>5, <1>6 DEF AccountsInv, LoginsApart, LoginsOwned, StoreSignsIn
<1> QED BY <1>8, <1>9, <1>10 DEF AccountsInv

(* An admin deletes a customer. *)
LEMMA DeleteStep ==
    ASSUME AccountsInv, NEW i \in A!Alive, A!DeleteCustomer(i) PROVE AccountsInv'
<1>1. /\ AccountsTyped /\ UNCHANGED <<session, req, put>>
      /\ customers' = [customers EXCEPT ![i].deleted = TRUE]
      /\ users' = {u \in users : u.customer # i}
    BY DEF AccountsInv, A!DeleteCustomer
<1>2. customers \in Seq(Customer) /\ i \in 1 .. Len(customers) /\ i \in Nat /\ customers[i] \in Customer /\ DOMAIN customers = 1 .. Len(customers)
    BY <1>1 DEF AccountsTyped, A!Alive
<1> DEFINE c == [customers[i] EXCEPT !.deleted = TRUE]
<1>3. c \in Customer /\ c.deleted
    BY <1>2 DEF Customer
<1>4. customers' = [customers EXCEPT ![i] = c]
    BY <1>1, <1>2 DEF Customer
<1> HIDE DEF c
<1>5. /\ customers' \in Seq(Customer) /\ Len(customers') = Len(customers)
      /\ customers'[i] = c /\ \A j \in 1 .. Len(customers) : j # i => customers'[j] = customers[j]
    BY <1>2, <1>3, <1>4, ExceptSeq
<1>6. A!Alive' = A!Alive \ {i} /\ \A j \in A!Alive' : customers'[j] = customers[j]
    BY <1>2, <1>3, <1>5 DEF A!Alive
<1>7. AccountsTyped'
    BY <1>1, <1>5 DEF AccountsTyped
<1> QED BY <1>1, <1>6, <1>7 DEF AccountsInv, NumbersApart, LoginsApart, LoginsOwned, StoreSignsIn

(* A customer's login is switched on or off, or one is about to be made.    *)
LEMMA LoginStep ==
    ASSUME AccountsInv,
           A!Deactivate \/ \E i \in A!Alive, n \in Phones \cup Names, active \in BOOLEAN : A!GiveLogin(i, n, active)
    PROVE  AccountsInv'
<1>0. AccountsTyped /\ UNCHANGED <<customers, session, req>>
    BY DEF AccountsInv, A!Deactivate, A!GiveLogin
<1>1. ASSUME NEW i, NEW f \in BOOLEAN, AccountsTyped',
             users' = {IF u.customer = i THEN [u EXCEPT !.active = f] ELSE u : u \in users}
      PROVE  AccountsInv'
    <2>1. /\ LoginsApart'
          /\ \A w \in users' : \E u \in users : u.customer = w.customer
          /\ \A u \in users : \E w \in users' : u.customer = w.customer
        BY <1>1, Switched
    <2>2. A!Alive' = A!Alive
        BY <1>0 DEF A!Alive
    <2>3. NumbersApart'
        BY <1>0, <2>2 DEF AccountsInv, NumbersApart
    <2>4. LoginsOwned' /\ StoreSignsIn'
        BY <1>0, <2>1, <2>2 DEF AccountsInv, LoginsOwned, StoreSignsIn
    <2> QED BY <1>1, <2>1, <2>3, <2>4 DEF AccountsInv
<1>2. CASE A!Deactivate
    <2>1. users' = {IF u.customer = put.id THEN [u EXCEPT !.active = FALSE] ELSE u : u \in users} /\ put' = A!NoPut
        BY <1>2 DEF A!Deactivate
    <2>2. users' \in SUBSET User
        BY <2>1, Switched
    <2>3. AccountsTyped'
        BY <1>0, <2>1, <2>2 DEF AccountsTyped, A!NoPut, Change
    <2> QED BY <1>1, <2>1, <2>3
<1>3. ASSUME NEW i \in A!Alive, NEW n \in Phones \cup Names, NEW active \in BOOLEAN, A!GiveLogin(i, n, active)
      PROVE  AccountsInv'
    <2>1. CASE \E u \in users : u.customer = i
        <3>1. users' = {IF u.customer = i THEN [u EXCEPT !.active = active] ELSE u : u \in users} /\ put' = put
            BY <1>3, <2>1 DEF A!GiveLogin
        <3>2. AccountsTyped'
            BY <1>0, <3>1, Switched DEF AccountsTyped
        <3> QED BY <1>1, <3>1, <3>2
    <2>2. CASE ~\E u \in users : u.customer = i
        <3>1. users' = users /\ put' = [pc |-> "insert", id |-> i, name |-> n]
            BY <1>3, <2>2 DEF A!GiveLogin
        <3>2. i \in Nat
            BY <1>0 DEF AccountsTyped, A!Alive
        <3>3. AccountsTyped'
            BY <1>0, <3>1, <3>2 DEF AccountsTyped, Change
        <3> QED BY <1>0, <3>1, <3>3, RowsAlone
    <2> QED BY <2>1, <2>2
<1> QED BY <1>2, <1>3

(* A login is inserted, if nothing came between. *)
LEMMA InsertLoginStep == ASSUME AccountsInv, A!InsertLogin PROVE AccountsInv'
<1>0. AccountsTyped /\ UNCHANGED <<customers, session, req>> /\ put.pc = "insert" /\ put' = A!NoPut
    BY DEF AccountsInv, A!InsertLogin
<1> DEFINE u == [name |-> put.name, customer |-> put.id, active |-> TRUE]
<1>1. u \in User /\ u.name = put.name /\ u.customer = put.id
    BY <1>0 DEF AccountsTyped, User, Change
<1>2. \/ users' = users
      \/ /\ users' = users \cup {u} /\ put.id \in A!Alive
         /\ \A w \in users : w.name # put.name /\ w.customer # put.id
    BY DEF A!InsertLogin, A!Logins
<1> HIDE DEF u
<1>3. A!Alive' = A!Alive
    BY <1>0 DEF A!Alive
<1>4. AccountsTyped'
    BY <1>0, <1>1, <1>2 DEF AccountsTyped, A!NoPut, Change
<1> QED BY <1>0, <1>1, <1>2, <1>3, <1>4 DEF AccountsInv, NumbersApart, LoginsApart, LoginsOwned, StoreSignsIn

(* Whoever registers, is changed, deleted or given a login at the same time,  *)
(* and whenever the process stops, a customer the shop has made can sign in  *)
(* until it is deleted, a number has one customer and a login one owner, who *)
(* is there: for any visitors, numbers, names and bounds.                   *)
THEOREM AccountsHold == FrontSpec => []AccountsWhole
<1>1. FrontInit => AccountsInv
    <2> SUFFICES ASSUME A!Init PROVE AccountsInv
        BY DEF FrontInit
    <2>1. A!Alive = {}
        BY DEF A!Init, A!Alive
    <2>2. AccountsTyped
        BY DEF A!Init, A!Idle, A!NoPut, AccountsTyped, Visit, Change
    <2> QED BY <2>1, <2>2 DEF A!Init, AccountsInv, NumbersApart, LoginsApart, LoginsOwned, StoreSignsIn
<1>2. AccountsInv /\ [FrontNext]_<<focus, vars, qvars, avars, fvars>> => AccountsInv'
    <2> SUFFICES ASSUME AccountsInv, [FrontNext]_<<focus, vars, qvars, avars, fvars>> PROVE AccountsInv'
        OBVIOUS
    <2>0. A!AccountsAssumption
        BY FrontAssumption DEF FrontAssumption
    <2>1. CASE UNCHANGED avars
        <3>1. AccountsTyped'
            BY <2>1 DEF avars, AccountsInv, AccountsTyped
        <3> QED BY <2>1, <3>1, RowsAlone DEF avars
    <2>2. CASE A!Next
        <3>1. ASSUME NEW v \in Visitors, A!Checkout(v) PROVE AccountsInv'
            BY <2>0, <3>1, VisitAlone, InsertStep DEF A!Checkout
        <3>2. ASSUME A!Panel PROVE AccountsInv'
            BY <2>0, <3>2, AddStep, EditStep, DeleteStep, LoginStep, InsertLoginStep DEF A!Panel
        <3> QED BY <2>2, <3>1, <3>2, RestartStep DEF A!Next
    <2> QED BY <2>1, <2>2 DEF FrontNext, OnlyShop, OnlyAccounts, OnlyStorefront, OnlyQuota
<1>3. AccountsInv => AccountsWhole
    <2> SUFFICES ASSUME AccountsInv PROVE A!AccountsWhole
        BY DEF AccountsWhole
    <2>1. NoPhone \notin Phones
        BY FrontAssumption DEF FrontAssumption, A!AccountsAssumption
    <2> QED BY <2>1 DEF AccountsInv, NumbersApart, LoginsApart, LoginsOwned, StoreSignsIn, A!AccountsWhole, A!Ours
<1> QED BY <1>1, <1>2, <1>3, PTL DEF FrontSpec

-----------------------------------------------------------------------------
(* The shop window: rows for sale, forms and pages over them (Storefront). *)

(* The rows of the three tables, those that are gone, and the orders.      *)
ProductRow == [there : {"yes"}, active : BOOLEAN, price : Nat, stock : Nat]
PackageRow == [there : {"yes"}, active : BOOLEAN, price : Nat, gb : Nat]
CodeRow == [there : {"yes"}, active : BOOLEAN, amount : Nat, scope : {"all"} \cup F!Kinds, target : {"none"} \cup F!Kinds]
RowsOf(n) == IF n = "product" THEN ProductRow ELSE IF n = "traffic" THEN PackageRow ELSE CodeRow
GoneRow == [there |-> "gone"]
Bought == [code : BOOLEAN, paid : BOOLEAN, refers : BOOLEAN, crossed : BOOLEAN]

(***************************************************************************)
(* The rows for sale, the tab over one of them, a DELETE between its       *)
(* statements and what was bought.                                         *)
(***************************************************************************)
WindowTyped ==
    /\ DOMAIN goods = F!Tables /\ \A n \in F!Tables : goods[n] = GoneRow \/ goods[n] \in RowsOf(n)
    /\ writes \in [F!Tables -> Nat]
    /\ typed \in [stock : Nat, gb : Nat] /\ overtaken \in BOOLEAN
    /\ DOMAIN tab = {"name", "sold", "row"} /\ tab.name \in F!Tables /\ tab.sold \in Nat
    /\ tab.row = F!NotLoaded \/ tab.row \in RowsOf(tab.name)
    /\ removal \in [pc : {"none", "counted"}, used : BOOLEAN]
    /\ removal.pc = "counted" => goods[tab.name].there = "yes"
    /\ wish \in F!Wishes
    /\ bought \in Seq(Bought)

(***************************************************************************)
(* The stock, and the stock in a form that no payment has overtaken, are   *)
(* what was last typed less what was paid since.                           *)
(***************************************************************************)
StockInv ==
    /\ tab.sold <= F!Sold
    /\ ~overtaken /\ goods["product"].there = "yes" => goods["product"].stock = typed.stock
    /\ ~overtaken /\ goods["product"].there = "yes" /\ tab.name = "product" /\ tab.row # F!NotLoaded /\ tab.sold = F!Sold
          => tab.row.stock = typed.stock

(***************************************************************************)
(* The size that the form of a package makes of the one it shows.          *)
(***************************************************************************)
Shown(gb) == F!OfTB(F!InTB(gb))
(***************************************************************************)
(* A package holds the size that was typed, or what the form makes of it:  *)
(* to save it again changes nothing more.                                  *)
(***************************************************************************)
SizeInv ==
    /\ goods["traffic"].there = "yes" => goods["traffic"].gb \in {typed.gb, Shown(typed.gb)}
    /\ tab.name = "traffic" /\ tab.row # F!NotLoaded => tab.row.gb \in {typed.gb, Shown(typed.gb)}

(***************************************************************************)
(* A DELETE that has counted no order of what the customer buys finds only *)
(* orders that were placed after its count.                                *)
(***************************************************************************)
ReferenceInv ==
    /\ F!ReferenceKept
    /\ removal.pc = "counted" /\ ~removal.used /\ tab.name = wish.kind => \A i \in DOMAIN bought : bought[i].crossed

(***************************************************************************)
(* Hundredths of a terabyte, shown and sent back: within half a hundredth  *)
(* of the size, and stable from then on.                                   *)
(***************************************************************************)
LEMMA ShownTwice ==
    ASSUME NEW gb \in Nat PROVE Shown(gb) \in Nat /\ Shown(Shown(gb)) = Shown(gb) /\ Shown(gb) - gb \in -512..512
<1>1. PICK q \in Nat : q = (gb + 512) \div 1024
    OBVIOUS
<1>2. Shown(gb) = q * 1024 /\ q * 1024 <= gb + 512 /\ gb + 512 < q * 1024 + 1024
    BY <1>1 DEF Shown, F!OfTB, F!InTB
<1>3. (q * 1024 + 512) \div 1024 = q
    OBVIOUS
<1> QED BY <1>2, <1>3 DEF Shown, F!OfTB, F!InTB

(***************************************************************************)
(* The cardinality of the instance is that of the library.                 *)
(***************************************************************************)
LEMMA SameCardinality == \A X : F!Cardinality(X) = Cardinality(X)
BY DEF F!Cardinality, Cardinality

(***************************************************************************)
(* What has been paid is finitely many orders.                             *)
(***************************************************************************)
LEMMA PaidCounted == ASSUME bought \in Seq(Bought) PROVE IsFiniteSet(F!Paid) /\ Cardinality(F!Paid) \in Nat
<1>1. F!Paid \subseteq 1 .. Len(bought) /\ Len(bought) \in Nat
    BY DEF F!Paid
<1>2. IsFiniteSet(1 .. Len(bought))
    BY <1>1, FS_Interval
<1>3. IsFiniteSet(F!Paid)
    BY <1>1, <1>2, FS_Subset
<1> QED BY <1>3, FS_CardinalityType

(***************************************************************************)
(* What has been sold is a number.                                         *)
(***************************************************************************)
LEMMA SoldIsNat == ASSUME bought \in Seq(Bought) PROVE F!Sold \in Nat
BY PaidCounted, SameCardinality DEF F!Sold

(***************************************************************************)
(* One more order that is paid is one more unit sold, if products are      *)
(* bought.                                                                 *)
(***************************************************************************)
LEMMA PaidOnce ==
    ASSUME bought \in Seq(Bought), NEW i, i \notin F!Paid, F!Paid' = F!Paid \cup {i}, wish' = wish
    PROVE  F!Sold' = IF wish.kind = "product" THEN F!Sold + 1 ELSE F!Sold
<1>1. Cardinality(F!Paid \cup {i}) = Cardinality(F!Paid) + 1
    BY PaidCounted, FS_AddElement
<1> QED BY <1>1, SameCardinality DEF F!Sold

(***************************************************************************)
(* The less and the greater of two numbers.                                *)
(***************************************************************************)
LEMMA Extremes == \A m, n \in Int : F!Min({m, n}) = (IF m <= n THEN m ELSE n) /\ F!Max({m, n}) = (IF m >= n THEN m ELSE n)
<1> SUFFICES ASSUME NEW m \in Int, NEW n \in Int
             PROVE  F!Min({m, n}) = (IF m <= n THEN m ELSE n) /\ F!Max({m, n}) = (IF m >= n THEN m ELSE n)
    OBVIOUS
<1>1. F!Min({m, n}) = CHOOSE x \in {m, n} : \A y \in {m, n} : x <= y
    BY DEF F!Min
<1>2. F!Max({m, n}) = CHOOSE x \in {m, n} : \A y \in {m, n} : x >= y
    BY DEF F!Max
<1> QED BY <1>1, <1>2

(***************************************************************************)
(* What the panel and the orders keep.                                     *)
(***************************************************************************)
WindowInv == WindowTyped /\ StockInv /\ SizeInv /\ ReferenceInv

(***************************************************************************)
(* A tab that loads its rows.                                              *)
(***************************************************************************)
LEMMA ShowStep == ASSUME WindowInv, NEW n, F!Show(n) PROVE WindowInv'
<1>1. /\ tab.name = n /\ goods[n].there = "yes"
      /\ UNCHANGED <<goods, writes, typed, overtaken, removal, wish, page, buying, bought>>
      /\ DOMAIN tab' = DOMAIN tab /\ tab'.name = n /\ tab'.sold = F!Sold /\ tab'.row = goods[n]
    BY DEF F!Show, WindowInv, WindowTyped
<1>2. F!Sold' = F!Sold /\ F!Sold \in Nat
    BY <1>1, SoldIsNat DEF WindowInv, WindowTyped, F!Sold, F!Paid
<1>3. WindowTyped'
    BY <1>1, <1>2 DEF WindowInv, WindowTyped, GoneRow
<1>4. StockInv' /\ SizeInv'
    BY <1>1, <1>2 DEF WindowInv, StockInv, SizeInv
<1>5. ReferenceInv'
    BY <1>1 DEF WindowInv, ReferenceInv, F!ReferenceKept
<1> QED BY <1>3, <1>4, <1>5 DEF WindowInv

(***************************************************************************)
(* What is saved is in the row, if it is still there, and in the tab.      *)
(***************************************************************************)
LEMMA Saved ==
    ASSUME WindowInv, NEW r \in RowsOf(tab.name), F!Write(r), tab.row # F!NotLoaded
    PROVE  /\ DOMAIN tab' = DOMAIN tab /\ tab'.name = tab.name
           /\ DOMAIN goods' = F!Tables /\ \A n \in F!Tables \ {tab.name} : goods'[n] = goods[n]
           /\ \/ /\ goods[tab.name].there = "yes" /\ goods'[tab.name] = r
                 /\ tab'.row = r /\ tab'.sold = F!Sold
                 /\ writes' = [writes EXCEPT ![tab.name] = @ + 1]
              \/ /\ goods[tab.name].there # "yes" /\ goods' = goods
                 /\ tab'.row = F!NotLoaded /\ tab'.sold = tab.sold
                 /\ writes' = writes
           /\ writes' \in [F!Tables -> Nat]
           /\ \A n \in F!Tables : goods'[n].there = goods[n].there
<1>1. CASE goods[tab.name].there = "yes"
    <2>1. /\ goods' = [goods EXCEPT ![tab.name] = r] /\ tab' = [tab EXCEPT !.row = r, !.sold = F!Sold]
          /\ writes' = [writes EXCEPT ![tab.name] = @ + 1]
        BY <1>1 DEF F!Write
    <2>2. r.there = "yes"
        BY DEF RowsOf, ProductRow, PackageRow, CodeRow
    <2> QED BY <1>1, <2>1, <2>2 DEF WindowInv, WindowTyped
<1>2. CASE goods[tab.name].there # "yes"
    BY <1>2 DEF F!Write, WindowInv, WindowTyped
<1> QED BY <1>1, <1>2

(***************************************************************************)
(* A row is written anew, or its price and its amount stay; a row that is  *)
(* gone stays away.                                                        *)
(***************************************************************************)
Forward ==
    \A n \in F!Tables :
        /\ writes[n] \in Nat /\ writes'[n] \in Nat /\ writes'[n] >= writes[n]
        /\ goods'[n].there = "yes" => goods[n].there = "yes"
        /\ goods'[n].there = "yes" /\ writes'[n] = writes[n] =>
              (n # "code" => goods'[n].price = goods[n].price) /\ (n = "code" => goods'[n].amount = goods[n].amount)

(***************************************************************************)
(* Nothing moves forward when no row is touched.                           *)
(***************************************************************************)
LEMMA StandsStill == ASSUME WindowInv, UNCHANGED <<goods, writes>> PROVE Forward
BY DEF WindowInv, WindowTyped, Forward

(***************************************************************************)
(* A save writes its row anew.                                             *)
(***************************************************************************)
LEMMA SaveForward ==
    ASSUME WindowInv, NEW r \in RowsOf(tab.name), F!Write(r), tab.row # F!NotLoaded PROVE Forward
<1> SUFFICES ASSUME NEW n \in F!Tables
             PROVE  /\ writes[n] \in Nat /\ writes'[n] \in Nat /\ writes'[n] >= writes[n]
                    /\ goods'[n].there = "yes" => goods[n].there = "yes"
                    /\ goods'[n].there = "yes" /\ writes'[n] = writes[n] => goods'[n] = goods[n]
    BY DEF Forward
<1>1. writes \in [F!Tables -> Nat] /\ tab.name \in F!Tables
    BY DEF WindowInv, WindowTyped
<1>2. CASE n = tab.name
    BY <1>1, <1>2, Saved
<1>3. CASE n # tab.name
    BY <1>1, <1>3, Saved
<1> QED BY <1>2, <1>3

(***************************************************************************)
(* A save leaves rows and tab well formed.                                 *)
(***************************************************************************)
LEMMA SaveTyped ==
    ASSUME WindowInv, NEW r \in RowsOf(tab.name), F!Write(r), tab.row # F!NotLoaded, UNCHANGED <<removal, wish, bought>>,
           typed' \in [stock : Nat, gb : Nat], overtaken' \in BOOLEAN
    PROVE  WindowTyped'
<1>1. F!Sold \in Nat
    BY SoldIsNat DEF WindowInv, WindowTyped
<1>2. \A n \in F!Tables : goods'[n] = GoneRow \/ goods'[n] \in RowsOf(n)
    BY Saved DEF WindowInv, WindowTyped
<1>3. tab'.sold \in Nat /\ (tab'.row = F!NotLoaded \/ tab'.row \in RowsOf(tab'.name))
    BY <1>1, Saved DEF WindowInv, WindowTyped
<1>4. removal'.pc = "counted" => goods'[tab'.name].there = "yes"
    BY Saved DEF WindowInv, WindowTyped
<1> QED BY <1>2, <1>3, <1>4, Saved DEF WindowInv, WindowTyped

(***************************************************************************)
(* A save takes no reference from an order.                                *)
(***************************************************************************)
LEMMA SaveReferences ==
    ASSUME WindowInv, NEW r \in RowsOf(tab.name), F!Write(r), tab.row # F!NotLoaded, UNCHANGED <<removal, wish, bought>>
    PROVE  ReferenceInv'
BY Saved DEF WindowInv, ReferenceInv, F!ReferenceKept

(***************************************************************************)
(* A scope that is chosen leaves a row of the code a row of the code.      *)
(***************************************************************************)
LEMMA ScopedRow == \A c \in CodeRow : \A s \in {"all"} \cup F!Kinds : F!Scoped(c, s) \in CodeRow
BY DEF F!Scoped, CodeRow, F!Kinds

(***************************************************************************)
(* So does a target.                                                       *)
(***************************************************************************)
LEMMA TargetedRow == \A c \in CodeRow : \A t \in {"none"} \cup F!Kinds : F!Targeted(c, t) \in CodeRow
BY DEF F!Targeted, CodeRow

(***************************************************************************)
(* The form of the product: a stock that was typed is in the row, one that *)
(* was not is written back as it was loaded.                               *)
(***************************************************************************)
LEMMA SaveProductStep == ASSUME WindowInv, F!StorefrontAssumption, F!SaveProduct PROVE WindowInv' /\ Forward
<1>1. PICK p \in F!ProductForm(tab.row) :
         /\ F!Write(p)
         /\ IF p.stock # tab.row.stock
            THEN typed' = [typed EXCEPT !.stock = p.stock] /\ overtaken' = FALSE
            ELSE overtaken' = (overtaken \/ tab.sold # F!Sold) /\ UNCHANGED typed
    BY DEF F!SaveProduct
<1>2. tab.name = "product" /\ tab.row # F!NotLoaded /\ UNCHANGED <<removal, wish, page, buying, bought>>
    BY DEF F!SaveProduct
<1>3. tab.row \in ProductRow
    BY <1>2 DEF WindowInv, WindowTyped, RowsOf
<1>4. p \in ProductRow
    <2>1. CASE \E z \in Prices \cup {0} : p = [tab.row EXCEPT !.price = z]
        BY <1>3, <2>1 DEF F!StorefrontAssumption, ProductRow
    <2>2. CASE \E z \in Stocks : p = [tab.row EXCEPT !.stock = z]
        BY <1>3, <2>2 DEF F!StorefrontAssumption, ProductRow
    <2>3. CASE p = [tab.row EXCEPT !.active = ~@]
        BY <1>3, <2>3 DEF ProductRow
    <2> QED BY <2>1, <2>2, <2>3 DEF F!ProductForm
<1>5. typed' \in [stock : Nat, gb : Nat] /\ overtaken' \in BOOLEAN /\ typed'.gb = typed.gb
    BY <1>1, <1>4 DEF WindowInv, WindowTyped, ProductRow
<1>6. p \in RowsOf(tab.name) /\ F!Write(p)
    BY <1>1, <1>2, <1>4 DEF RowsOf
<1>7. F!Sold' = F!Sold
    BY <1>2 DEF F!Sold, F!Paid
<1>8. WindowTyped' /\ ReferenceInv'
    BY <1>2, <1>5, <1>6, SaveTyped, SaveReferences
<1>9. StockInv'
    <2>1. CASE p.stock # tab.row.stock
        <3>1. typed'.stock = p.stock /\ overtaken' = FALSE
            BY <1>1, <2>1 DEF WindowInv, WindowTyped
        <3>2. F!Sold \in Nat /\ p.there = "yes"
            BY <1>4, SoldIsNat DEF WindowInv, WindowTyped, ProductRow
        <3>3. tab'.sold <= F!Sold'
            BY <1>2, <1>6, <1>7, <3>2, Saved DEF WindowInv, StockInv, WindowTyped
        <3>4. goods'["product"].there = "yes" => goods'["product"].stock = typed'.stock
            BY <1>2, <1>6, <3>1, <3>2, Saved
        <3>5. tab'.row # F!NotLoaded => tab'.row.stock = typed'.stock
            BY <1>2, <1>6, <3>1, <3>2, Saved
        <3> QED BY <3>3, <3>4, <3>5 DEF StockInv
    <2>2. CASE p.stock = tab.row.stock
        <3>1. typed' = typed /\ overtaken' = (overtaken \/ tab.sold # F!Sold)
            BY <1>1, <2>2
        <3>2. F!Sold \in Nat /\ p.there = "yes"
            BY <1>4, SoldIsNat DEF WindowInv, WindowTyped, ProductRow
        <3>3. tab'.sold <= F!Sold'
            BY <1>2, <1>6, <1>7, <3>2, Saved DEF WindowInv, StockInv, WindowTyped
        <3>4. ASSUME goods'["product"].there = "yes", ~overtaken'
              PROVE  p.stock = typed.stock
            <4>1. ~overtaken /\ tab.sold = F!Sold /\ goods["product"].there = "yes"
                BY <1>2, <1>6, <3>1, <3>4, Saved
            <4> QED BY <1>2, <2>2, <4>1 DEF WindowInv, StockInv
        <3>5. goods'["product"].there = "yes" => goods'["product"] = p
            BY <1>2, <1>6, Saved
        <3>6. tab'.row # F!NotLoaded => tab'.row = p
            BY <1>2, <1>6, Saved
        <3> QED BY <3>1, <3>3, <3>4, <3>5, <3>6 DEF StockInv
    <2> QED BY <2>1, <2>2
<1>10. SizeInv'
    BY <1>2, <1>5, <1>6, Saved DEF WindowInv, SizeInv, F!Tables, F!Kinds
<1>11. Forward
    BY <1>2, <1>6, SaveForward
<1> QED BY <1>8, <1>9, <1>10, <1>11 DEF WindowInv

(***************************************************************************)
(* The form of the package: a size that was typed, or the one shown.       *)
(***************************************************************************)
LEMMA SavePackageStep == ASSUME WindowInv, F!StorefrontAssumption, F!SavePackage PROVE WindowInv' /\ Forward
<1>1. PICK p \in F!PackageForm(tab.row) :
         F!Write(p) /\ typed' = IF p.gb \in Sizes THEN [typed EXCEPT !.gb = p.gb] ELSE typed
    BY DEF F!SavePackage
<1>2. tab.name = "traffic" /\ tab.row # F!NotLoaded /\ UNCHANGED <<overtaken, removal, wish, page, buying, bought>>
    BY DEF F!SavePackage
<1>3. tab.row \in PackageRow /\ tab.row.gb \in Nat /\ tab.row.gb \in {typed.gb, Shown(typed.gb)} /\ typed.gb \in Nat
    BY <1>2 DEF WindowInv, WindowTyped, RowsOf, PackageRow, SizeInv
<1>4. p \in PackageRow /\ (p.gb \in Sizes \/ p.gb = Shown(tab.row.gb))
    <2> DEFINE shown == [tab.row EXCEPT !.gb = F!OfTB(F!InTB(@))]
    <2>1. shown \in PackageRow /\ shown.gb = Shown(tab.row.gb)
        BY <1>3, ShownTwice DEF PackageRow, Shown
    <2>2. F!PackageForm(tab.row) = {[shown EXCEPT !.price = z] : z \in Prices \cup {0}} \cup {[tab.row EXCEPT !.gb = z] : z \in Sizes}
                                     \cup {[shown EXCEPT !.active = ~@]}
        BY DEF F!PackageForm
    <2> HIDE DEF shown
    <2>3. CASE \E z \in Prices \cup {0} : p = [shown EXCEPT !.price = z]
        BY <2>1, <2>3 DEF F!StorefrontAssumption, PackageRow
    <2>4. CASE \E z \in Sizes : p = [tab.row EXCEPT !.gb = z]
        BY <1>3, <2>4 DEF F!StorefrontAssumption, PackageRow
    <2>5. CASE p = [shown EXCEPT !.active = ~@]
        BY <2>1, <2>5 DEF PackageRow
    <2> QED BY <2>2, <2>3, <2>4, <2>5
<1>5. /\ typed' \in [stock : Nat, gb : Nat] /\ typed'.stock = typed.stock /\ overtaken' \in BOOLEAN
      /\ p.gb \in {typed'.gb, Shown(typed'.gb)}
    <2>1. CASE p.gb \in Sizes
        BY <1>1, <1>2, <2>1 DEF WindowInv, WindowTyped, F!StorefrontAssumption
    <2>2. CASE p.gb \notin Sizes
        BY <1>1, <1>2, <1>3, <1>4, <2>2, ShownTwice DEF WindowInv, WindowTyped
    <2> QED BY <2>1, <2>2
<1>6. p \in RowsOf(tab.name) /\ F!Write(p)
    BY <1>1, <1>2, <1>4 DEF RowsOf
<1>7. F!Sold' = F!Sold
    BY <1>2 DEF F!Sold, F!Paid
<1>8. WindowTyped' /\ ReferenceInv'
    BY <1>2, <1>5, <1>6, SaveTyped, SaveReferences
<1>9. StockInv'
    BY <1>2, <1>5, <1>6, <1>7, Saved, SoldIsNat DEF WindowInv, WindowTyped, StockInv, F!Tables, F!Kinds
<1>10. SizeInv'
    BY <1>2, <1>5, <1>6, Saved DEF WindowInv, SizeInv, F!Tables, F!Kinds
<1>11. Forward
    BY <1>2, <1>6, SaveForward
<1> QED BY <1>8, <1>9, <1>10, <1>11 DEF WindowInv

(***************************************************************************)
(* The form of the code.                                                   *)
(***************************************************************************)
LEMMA SaveCodeStep == ASSUME WindowInv, F!StorefrontAssumption, F!SaveCode PROVE WindowInv' /\ Forward
<1>1. PICK c \in F!DiscountForm(tab.row) : F!ValidCode(c) /\ F!Write(F!Targeted(c, c.target))
    BY DEF F!SaveCode
<1>2. tab.name = "code" /\ tab.row # F!NotLoaded /\ UNCHANGED <<typed, overtaken, removal, wish, page, buying, bought>>
    BY DEF F!SaveCode
<1>3. tab.row \in CodeRow
    BY <1>2 DEF WindowInv, WindowTyped, RowsOf
<1>4. c \in CodeRow
    <2>1. CASE \E z \in Amounts : c = [tab.row EXCEPT !.amount = z]
        BY <1>3, <2>1 DEF F!StorefrontAssumption, CodeRow
    <2>2. CASE c = [tab.row EXCEPT !.active = ~@]
        BY <1>3, <2>2 DEF CodeRow
    <2>3. CASE \E s \in {"all"} \cup F!Kinds : c = F!Scoped(tab.row, s)
        BY <1>3, <2>3, ScopedRow
    <2>4. CASE \E t \in {"none"} \cup F!Kinds : c = F!Targeted(tab.row, t)
        BY <1>3, <2>4, TargetedRow
    <2> QED BY <1>1, <2>1, <2>2, <2>3, <2>4 DEF F!DiscountForm
<1>5. F!Targeted(c, c.target) \in RowsOf(tab.name)
    <2>1. c.target \in {"none"} \cup F!Kinds
        BY <1>4 DEF CodeRow
    <2> QED BY <1>2, <1>4, <2>1, TargetedRow DEF RowsOf
<1>6. F!Sold' = F!Sold
    BY <1>2 DEF F!Sold, F!Paid
<1>7. WindowTyped' /\ ReferenceInv'
    BY <1>1, <1>2, <1>5, SaveTyped, SaveReferences DEF WindowInv, WindowTyped
<1>8. StockInv' /\ SizeInv'
    BY <1>1, <1>2, <1>5, <1>6, Saved, SoldIsNat DEF WindowInv, WindowTyped, StockInv, SizeInv, F!Tables, F!Kinds
<1>9. Forward
    BY <1>1, <1>2, <1>5, SaveForward
<1> QED BY <1>7, <1>8, <1>9 DEF WindowInv

-----------------------------------------------------------------------------
(***************************************************************************)
(* The first statement of a DELETE, which counts what it would take along. *)
(***************************************************************************)
LEMMA CountsStep ==
    ASSUME WindowInv, NEW n, NEW inUse \in BOOLEAN, F!Counts(n, inUse),
           n = wish.kind /\ ~inUse => bought = <<>>
    PROVE  WindowInv'
<1>1. /\ tab.name = n /\ goods[n].there = "yes" /\ removal' = [pc |-> "counted", used |-> inUse]
      /\ UNCHANGED <<goods, writes, typed, overtaken, tab, wish, page, buying, bought>>
    BY DEF F!Counts
<1>2. F!Sold' = F!Sold
    BY <1>1 DEF F!Sold, F!Paid
<1>3. WindowTyped'
    BY <1>1 DEF WindowInv, WindowTyped
<1>4. StockInv' /\ SizeInv'
    BY <1>1, <1>2 DEF WindowInv, StockInv, SizeInv
<1>5. ReferenceInv'
    BY <1>1 DEF WindowInv, ReferenceInv, F!ReferenceKept
<1> QED BY <1>3, <1>4, <1>5 DEF WindowInv

(***************************************************************************)
(* The second one: the row goes and the orders lose their reference, or it *)
(* is only switched off.                                                   *)
(***************************************************************************)
LEMMA RemoveStep == ASSUME WindowInv, F!Remove PROVE WindowInv' /\ Forward
<1>1. /\ removal.pc = "counted" /\ goods[tab.name].there = "yes" /\ tab.name \in F!Tables
      /\ writes' = [writes EXCEPT ![tab.name] = @ + 1] /\ removal' = F!NoRemoval
      /\ DOMAIN tab' = DOMAIN tab /\ tab'.name = tab.name /\ tab'.sold = tab.sold /\ tab'.row = F!NotLoaded
      /\ UNCHANGED <<typed, overtaken, wish, page, buying>>
    BY DEF F!Remove, WindowInv, WindowTyped
<1>2. CASE F!Deletes(removal.used)
    <2>1. /\ DOMAIN goods' = F!Tables /\ \A n \in F!Tables : goods'[n] = goods[n] \/ goods'[n] = GoneRow
          /\ bought' = IF wish.kind = tab.name THEN [i \in DOMAIN bought |-> [bought[i] EXCEPT !.refers = FALSE]] ELSE bought
        BY <1>2 DEF F!Remove, F!Deleted, GoneRow
    <2>2. DOMAIN bought' = DOMAIN bought /\ bought' \in Seq(Bought)
          /\ \A i \in DOMAIN bought : bought'[i].paid = bought[i].paid /\ bought'[i].crossed = bought[i].crossed
                                      /\ (wish.kind # tab.name => bought'[i].refers = bought[i].refers)
        <3>1. \A i \in DOMAIN bought : bought[i] \in Bought
            BY DEF WindowInv, WindowTyped
        <3>2. \A o \in Bought : /\ [o EXCEPT !.refers = FALSE] \in Bought
                                /\ [o EXCEPT !.refers = FALSE].paid = o.paid /\ [o EXCEPT !.refers = FALSE].crossed = o.crossed
            BY DEF Bought
        <3>3. CASE wish.kind = tab.name
            <4> DEFINE other(i) == [bought[i] EXCEPT !.refers = FALSE]
            <4>1. bought' = [i \in 1 .. Len(bought) |-> other(i)] /\ Len(bought) \in Nat
                BY <2>1, <3>3 DEF WindowInv, WindowTyped
            <4>2. \A i \in 1 .. Len(bought) : other(i) \in Bought /\ other(i).paid = bought[i].paid /\ other(i).crossed = bought[i].crossed
                BY <3>1, <3>2 DEF WindowInv, WindowTyped
            <4> HIDE DEF other
            <4>3. bought' \in Seq(Bought)
                BY <4>1, <4>2, IsASeq
            <4> QED BY <3>3, <4>1, <4>2, <4>3 DEF WindowInv, WindowTyped
        <3>4. CASE wish.kind # tab.name
            BY <2>1, <3>4 DEF WindowInv, WindowTyped
        <3> QED BY <3>3, <3>4
    <2>3. F!Sold' = F!Sold
        BY <1>1, <2>2 DEF F!Sold, F!Paid
    <2>4. WindowTyped'
        BY <1>1, <2>1, <2>2 DEF WindowInv, WindowTyped, F!NoRemoval, GoneRow
    <2>5. StockInv' /\ SizeInv'
        BY <1>1, <2>1, <2>3 DEF WindowInv, StockInv, SizeInv, GoneRow, F!Tables, F!Kinds
    <2>6. ReferenceInv'
        <3>1. ~removal.used
            BY <1>2 DEF F!Deletes
        <3> QED BY <1>1, <2>2, <3>1 DEF WindowInv, ReferenceInv, F!ReferenceKept, F!NoRemoval
    <2>7. Forward
        <3>1. writes \in [F!Tables -> Nat]
            BY DEF WindowInv, WindowTyped
        <3>2. \A n \in F!Tables : writes'[n] \in Nat /\ writes'[n] >= writes[n]
            BY <1>1, <3>1
        <3>3. GoneRow.there = "gone"
            BY DEF GoneRow
        <3> QED BY <2>1, <3>1, <3>2, <3>3 DEF Forward
    <2> QED BY <2>4, <2>5, <2>6, <2>7 DEF WindowInv
<1>3. CASE ~F!Deletes(removal.used)
    <2> DEFINE r == [goods[tab.name] EXCEPT !.active = FALSE]
    <2>1. goods' = [goods EXCEPT ![tab.name] = r] /\ bought' = bought
        BY <1>3 DEF F!Remove, WindowInv, WindowTyped
    <2>2. r \in RowsOf(tab.name) /\ r.there = "yes" /\ (tab.name = "product" => r.stock = goods[tab.name].stock)
          /\ (tab.name = "traffic" => r.gb = goods[tab.name].gb)
        <3>1. goods[tab.name] \in RowsOf(tab.name)
            BY <1>1 DEF WindowInv, WindowTyped, GoneRow
        <3>2. CASE tab.name = "product"
            BY <3>1, <3>2 DEF RowsOf, ProductRow
        <3>3. CASE tab.name = "traffic"
            BY <3>1, <3>3 DEF RowsOf, PackageRow
        <3>4. CASE tab.name = "code"
            BY <3>1, <3>4 DEF RowsOf, CodeRow
        <3> QED BY <1>1, <3>2, <3>3, <3>4 DEF F!Tables, F!Kinds
    <2> HIDE DEF r
    <2>3. F!Sold' = F!Sold
        BY <1>1, <2>1 DEF F!Sold, F!Paid
    <2>4. WindowTyped'
        BY <1>1, <2>1, <2>2 DEF WindowInv, WindowTyped, F!NoRemoval
    <2>5. StockInv' /\ SizeInv'
        BY <1>1, <2>1, <2>2, <2>3 DEF WindowInv, WindowTyped, StockInv, SizeInv, F!Tables, F!Kinds
    <2>6. ReferenceInv'
        BY <1>1, <2>1 DEF WindowInv, ReferenceInv, F!ReferenceKept, F!NoRemoval
    <2>7. Forward
        BY <1>1, <2>1 DEF WindowInv, WindowTyped, Forward
    <2> QED BY <2>4, <2>5, <2>6, <2>7 DEF WindowInv
<1> QED BY <1>2, <1>3

(***************************************************************************)
(* The customer's steps leave the panel alone.                             *)
(***************************************************************************)
LEMMA WindowAlone ==
    ASSUME WindowInv, UNCHANGED <<goods, writes, typed, overtaken, tab, removal, wish, bought>> PROVE WindowInv'
<1>1. F!Sold' = F!Sold
    BY DEF F!Sold, F!Paid
<1> QED BY <1>1 DEF WindowInv, WindowTyped, StockInv, SizeInv, ReferenceInv, F!ReferenceKept

(***************************************************************************)
(* A unit that is paid for goes from the stock and from what was typed     *)
(* alike, and from no price.                                               *)
(***************************************************************************)
LEMMA Sells ==
    ASSUME WindowInv, UNCHANGED <<writes, overtaken, tab, removal, wish>>, goods' = F!Sell, typed' = F!Tally,
           bought' \in Seq(Bought), NEW i, i \notin F!Paid, F!Paid' = F!Paid \cup {i}
    PROVE  WindowTyped' /\ StockInv' /\ SizeInv' /\ Forward
<1>1. /\ F!Sold \in Nat /\ F!Sold' = (IF wish.kind = "product" THEN F!Sold + 1 ELSE F!Sold)
    BY PaidOnce, SoldIsNat DEF WindowInv, WindowTyped
<1>2. \A k \in Nat : F!Max({k - 1, 0}) = (IF k >= 1 THEN k - 1 ELSE 0)
    <2> SUFFICES ASSUME NEW k \in Nat PROVE F!Max({k - 1, 0}) = (IF k >= 1 THEN k - 1 ELSE 0)
        OBVIOUS
    <2>1. k - 1 \in Int /\ 0 \in Int
        OBVIOUS
    <2>2. F!Max({k - 1, 0}) = (IF k - 1 >= 0 THEN k - 1 ELSE 0)
        BY <2>1, Extremes
    <2> QED BY <2>2
<1>3. CASE wish.kind # "product"
    <2>1. goods' = goods /\ typed' = typed /\ F!Sold' = F!Sold
        BY <1>1, <1>3 DEF F!Sell, F!Tally
    <2> QED BY <2>1, StandsStill DEF WindowInv, WindowTyped, StockInv, SizeInv
<1>4. CASE wish.kind = "product"
    <2>1. /\ DOMAIN typed' = DOMAIN typed /\ typed' \in [stock : Nat, gb : Nat]
          /\ typed'.gb = typed.gb /\ typed'.stock = F!Max({typed.stock - 1, 0})
        BY <1>2, <1>4 DEF F!Tally, WindowInv, WindowTyped
    <2>2. CASE goods["product"].there # "yes"
        <3>1. goods' = goods
            BY <2>2 DEF F!Sell
        <3> QED BY <1>1, <1>4, <2>1, <2>2, <3>1, StandsStill DEF WindowInv, WindowTyped, StockInv, SizeInv
    <2>3. CASE goods["product"].there = "yes"
        <3> DEFINE r == [goods["product"] EXCEPT !.stock = F!Max({@ - 1, 0})]
        <3>0. goods["product"] \in ProductRow
            BY <2>3 DEF WindowInv, WindowTyped, F!Tables, F!Kinds, RowsOf, GoneRow
        <3>1. goods' = [goods EXCEPT !["product"] = r]
            BY <1>4, <2>3 DEF F!Sell
        <3>2. r \in ProductRow /\ r.there = "yes" /\ r.price = goods["product"].price /\ r.stock = F!Max({goods["product"].stock - 1, 0})
            BY <1>2, <3>0 DEF ProductRow
        <3> HIDE DEF r
        <3>3. DOMAIN goods' = F!Tables /\ goods'["product"] = r /\ \A n \in F!Tables \ {"product"} : goods'[n] = goods[n]
            BY <3>1 DEF WindowInv, WindowTyped, F!Tables, F!Kinds
        <3>4. WindowTyped'
            BY <2>1, <2>3, <3>2, <3>3 DEF WindowInv, WindowTyped, RowsOf
        <3>5. StockInv'
            <4>1. tab.sold \in Nat /\ tab.sold <= F!Sold /\ F!Sold' = F!Sold + 1 /\ tab' = tab /\ overtaken' = overtaken
                BY <1>1, <1>4 DEF WindowInv, WindowTyped, StockInv
            <4>2. ~overtaken => r.stock = typed'.stock
                BY <2>1, <2>3, <3>2 DEF WindowInv, StockInv
            <4> QED BY <1>1, <3>3, <4>1, <4>2 DEF StockInv
        <3>6. SizeInv'
            BY <2>1, <3>3 DEF WindowInv, SizeInv, F!Tables, F!Kinds
        <3>7. Forward
            BY <2>3, <3>2, <3>3 DEF WindowInv, WindowTyped, Forward
        <3> QED BY <3>4, <3>5, <3>6, <3>7
    <2> QED BY <2>2, <2>3
<1> QED BY <1>3, <1>4

(***************************************************************************)
(* An order is paid.                                                       *)
(***************************************************************************)
LEMMA PayStep == ASSUME WindowInv, F!Pay PROVE WindowInv' /\ Forward
<1>1. PICK i \in DOMAIN bought \ F!Paid : bought' = [bought EXCEPT ![i].paid = TRUE]
    BY DEF F!Pay
<1>2. goods' = F!Sell /\ typed' = F!Tally /\ UNCHANGED <<writes, overtaken, tab, removal, wish, page, buying>>
    BY DEF F!Pay
<1> DEFINE o == [bought[i] EXCEPT !.paid = TRUE]
<1>3. bought' = [bought EXCEPT ![i] = o] /\ bought \in Seq(Bought) /\ bought[i] \in Bought
    BY <1>1 DEF WindowInv, WindowTyped
<1>4. o \in Bought /\ o.paid /\ o.refers = bought[i].refers /\ o.crossed = bought[i].crossed
    BY <1>3 DEF Bought
<1> HIDE DEF o
<1>5. bought' \in Seq(Bought)
    BY <1>3, <1>4, ExceptSeq
<1>6. DOMAIN bought' = DOMAIN bought /\ bought'[i] = o /\ \A k \in DOMAIN bought \ {i} : bought'[k] = bought[k]
    BY <1>3
<1>7. F!Paid' = F!Paid \cup {i}
    BY <1>1, <1>4, <1>6 DEF F!Paid
<1>8. WindowTyped' /\ StockInv' /\ SizeInv' /\ Forward
    BY <1>1, <1>2, <1>5, <1>7, Sells
<1>9. ReferenceInv'
    BY <1>1, <1>2, <1>4, <1>6 DEF WindowInv, ReferenceInv, F!ReferenceKept
<1> QED BY <1>8, <1>9 DEF WindowInv

(***************************************************************************)
(* An order is placed, and paid at once when it costs nothing.             *)
(***************************************************************************)
LEMMA InsertedStep ==
    ASSUME WindowInv, NEW o \in Bought, bought' = Append(bought, o), UNCHANGED <<writes, overtaken, tab, removal, wish>>,
           o.refers, o.crossed = (removal.pc = "counted" /\ tab.name = wish.kind),
           goods' = (IF o.paid THEN F!Sell ELSE goods), typed' = (IF o.paid THEN F!Tally ELSE typed)
    PROVE  WindowInv' /\ Forward
<1>1. /\ bought' \in Seq(Bought) /\ Len(bought) \in Nat /\ DOMAIN bought' = DOMAIN bought \cup {Len(bought) + 1}
      /\ DOMAIN bought = 1 .. Len(bought)
      /\ bought'[Len(bought) + 1] = o /\ \A i \in DOMAIN bought : bought'[i] = bought[i]
    BY AppendProperties DEF WindowInv, WindowTyped
<1>2. Len(bought) + 1 \notin DOMAIN bought
    BY <1>1
<1>3. WindowTyped' /\ StockInv' /\ SizeInv' /\ Forward
    <2>1. CASE o.paid
        <3>1. F!Paid' = F!Paid \cup {Len(bought) + 1} /\ Len(bought) + 1 \notin F!Paid
            BY <1>1, <1>2, <2>1 DEF F!Paid
        <3> QED BY <1>1, <2>1, <3>1, Sells
    <2>2. CASE ~o.paid
        <3>1. F!Paid' = F!Paid
            BY <1>1, <1>2, <2>2 DEF F!Paid
        <3>2. F!Sold' = F!Sold
            BY <3>1 DEF F!Sold
        <3> QED BY <1>1, <2>2, <3>2, StandsStill DEF WindowInv, WindowTyped, StockInv, SizeInv
    <2> QED BY <2>1, <2>2
<1>4. ReferenceInv'
    BY <1>1 DEF WindowInv, ReferenceInv, F!ReferenceKept
<1> QED BY <1>3, <1>4 DEF WindowInv

-----------------------------------------------------------------------------
(* The page and the purchase. *)

(***************************************************************************)
(* The less of two numbers, the writes seen of the package added to a      *)
(* product, and whether the rows of the wish are there.                    *)
(***************************************************************************)
Smaller(m, n) == IF m <= n THEN m ELSE n
Second == IF wish.addon THEN writes["traffic"] ELSE 0
OnHand == goods[wish.kind].there = "yes" /\ (wish.addon => goods["traffic"].there = "yes")

(***************************************************************************)
(* What was seen when these rows had been written so often cost this much: *)
(* it costs it until somebody writes them, and it is the price of a        *)
(* purchase that read them then.                                           *)
(***************************************************************************)
Priced(a, b, total) ==
    /\ a \in Nat /\ b \in Nat /\ total \in Nat /\ a <= writes[wish.kind] /\ b <= Second
    /\ OnHand /\ a = writes[wish.kind] /\ b = Second => total = F!Price
    /\ buying.pc \in {"code", "insert", "billed"} /\ buying.seen[1] = a /\ buying.seen[2] = b => total = buying.price

(***************************************************************************)
(* The same of what the code takes off.                                    *)
(***************************************************************************)
Discounted(c, amount) ==
    /\ c \in Nat /\ amount \in Nat /\ c <= writes["code"]
    /\ goods["code"].there = "yes" /\ c = writes["code"] => amount = goods["code"].amount
    /\ buying.pc \in {"insert", "billed"} /\ buying.code /\ buying.seen[3] = c => buying.off = Smaller(amount, buying.price)

(***************************************************************************)
(* The page shows a price of some state of the rows, less a discount of    *)
(* some state of the code.                                                 *)
(***************************************************************************)
PageInv ==
    /\ wish \in F!Wishes
    /\ page.open \in BOOLEAN /\ page.applied \in BOOLEAN
    /\ DOMAIN page = {"open", "total", "seen", "applied", "without"}
    /\ page.open => \E a, b \in Nat : page.without.seen = <<a, b>> /\ Priced(a, b, page.without.total)
    /\ page.open /\ ~page.applied => page.seen = page.without.seen /\ page.total = page.without.total
    /\ page.applied => /\ page.open /\ wish.at = "portal"
                       /\ \E a, b, c, p, amount \in Nat :
                             /\ page.seen = <<a, b, c>> /\ Priced(a, b, p) /\ Discounted(c, amount)
                             /\ page.total = p - Smaller(amount, p)

(***************************************************************************)
(* A purchase under way belongs to an open page and, in the portal, to the *)
(* code the page has had checked.                                          *)
(***************************************************************************)
BuyingInv ==
    /\ DOMAIN buying = {"pc", "code", "price", "off", "seen"}
    /\ buying.pc \in {"none", "rows", "code", "insert", "billed"} /\ buying.code \in BOOLEAN
    /\ buying.pc # "none" => page.open /\ (wish.at = "portal" => buying.code = page.applied)
    /\ buying.pc \in {"code", "insert", "billed"} => buying.price \in Nat
    /\ buying.pc = "code" => \E a, b \in Nat : buying.seen = <<a, b>>
    /\ buying.pc \in {"insert", "billed"} =>
          /\ buying.off \in Nat /\ (~buying.code => buying.off = 0)
          /\ IF buying.code THEN \E a, b, c \in Nat : buying.seen = <<a, b, c>> ELSE \E a, b \in Nat : buying.seen = <<a, b>>

(***************************************************************************)
(* The page and the purchase outlast what happens to the rows.             *)
(***************************************************************************)
LEMMA PageKept ==
    ASSUME PageInv, BuyingInv, Forward, page' = page, wish' = wish,
           buying' = buying \/ (buying.pc = "insert" /\ buying' = [buying EXCEPT !.pc = "billed"])
    PROVE  PageInv' /\ BuyingInv'
<1>1. /\ wish.kind \in F!Tables \ {"code"} /\ "traffic" \in F!Tables /\ "code" \in F!Tables
    BY DEF PageInv, F!Wishes, F!Tables, F!Kinds
<1>2. /\ DOMAIN buying' = DOMAIN buying
      /\ buying'.code = buying.code /\ buying'.price = buying.price /\ buying'.off = buying.off /\ buying'.seen = buying.seen
      /\ buying'.pc \in {"code", "insert", "billed"} <=> buying.pc \in {"code", "insert", "billed"}
      /\ buying'.pc \in {"insert", "billed"} <=> buying.pc \in {"insert", "billed"}
      /\ buying'.pc = "code" <=> buying.pc = "code"
      /\ buying'.pc = "none" <=> buying.pc = "none"
      /\ buying'.pc \in {"none", "rows", "code", "insert", "billed"}
    BY DEF BuyingInv
<1>3. ASSUME NEW a \in Nat, NEW b \in Nat, NEW total \in Nat, Priced(a, b, total) PROVE Priced(a, b, total)'
    <2>1. a <= writes'[wish.kind] /\ b <= Second'
        BY <1>1, <1>3 DEF Forward, Priced, Second
    <2>2. ASSUME OnHand', a = writes'[wish.kind], b = Second' PROVE total = F!Price'
        <3>1. OnHand /\ a = writes[wish.kind] /\ b = Second
            BY <1>1, <1>3, <2>2 DEF Forward, Priced, Second, OnHand
        <3>2. F!Price' = F!Price
            BY <1>1, <1>3, <2>2, <3>1 DEF Forward, F!Price, Second, OnHand
        <3> QED BY <1>3, <3>1, <3>2 DEF Priced
    <2> QED BY <1>2, <1>3, <2>1, <2>2 DEF Priced
<1>4. ASSUME NEW c \in Nat, NEW amount \in Nat, Discounted(c, amount) PROVE Discounted(c, amount)'
    BY <1>1, <1>2, <1>4 DEF Forward, Discounted
<1>5. \A a, b, total : Priced(a, b, total) => a \in Nat /\ b \in Nat /\ total \in Nat
    BY DEF Priced
<1>6. PageInv'
    BY <1>3, <1>4, <1>5 DEF PageInv
<1>7. BuyingInv'
    BY <1>2 DEF BuyingInv
<1> QED BY <1>6, <1>7

(***************************************************************************)
(* A pair with one more member, and its first two members.                 *)
(***************************************************************************)
LEMMA Third == \A a, b, c \in Nat : Append(<<a, b>>, c) = <<a, b, c>> /\ SubSeq(<<a, b, c>>, 1, 2) = <<a, b>>
<1> SUFFICES ASSUME NEW a \in Nat, NEW b \in Nat, NEW c \in Nat
             PROVE  Append(<<a, b>>, c) = <<a, b, c>> /\ SubSeq(<<a, b, c>>, 1, 2) = <<a, b>>
    OBVIOUS
<1>1. Append(<<a, b>>, c) = <<a, b, c>>
    <2>1. <<a, b>> \in Seq(Nat) /\ Len(<<a, b>>) = 2
        OBVIOUS
    <2>2. /\ Append(<<a, b>>, c) \in Seq(Nat) /\ Len(Append(<<a, b>>, c)) = 3
          /\ Append(<<a, b>>, c)[1] = a /\ Append(<<a, b>>, c)[2] = b /\ Append(<<a, b>>, c)[3] = c
        BY <2>1, AppendProperties
    <2>3. <<a, b, c>> \in Seq(Nat) /\ Len(<<a, b, c>>) = 3 /\ <<a, b, c>>[1] = a /\ <<a, b, c>>[2] = b /\ <<a, b, c>>[3] = c
        OBVIOUS
    <2>4. \A i \in 1 .. 3 : i = 1 \/ i = 2 \/ i = 3
        OBVIOUS
    <2> HIDE DEF Append
    <2> QED BY <2>2, <2>3, <2>4, SeqEqual
<1>2. SubSeq(<<a, b, c>>, 1, 2) = <<a, b>>
    <2> DEFINE seq == <<a, b, c>>
               first == SubSeq(seq, 1, 2)
    <2>1. seq \in Seq(Nat) /\ Len(seq) = 3 /\ seq[1] = a /\ seq[2] = b
        OBVIOUS
    <2> HIDE DEF seq
    <2>2. first \in Seq(Nat) /\ Len(first) = 2 /\ \A i \in 1 .. 2 : first[i] = seq[i]
        BY <2>1, SubSeqProperties
    <2> HIDE DEF first
    <2>3. <<a, b>> \in Seq(Nat) /\ Len(<<a, b>>) = 2 /\ <<a, b>>[1] = a /\ <<a, b>>[2] = b
        OBVIOUS
    <2>4. \A i \in 1 .. 2 : i = 1 \/ i = 2
        OBVIOUS
    <2>5. first = <<a, b>>
        BY <2>1, <2>2, <2>3, <2>4, SeqEqual
    <2> QED BY <2>5 DEF first, seq
<1> QED BY <1>1, <1>2

(***************************************************************************)
(* The prices of rows that are there are numbers, and so is what a code    *)
(* takes off.                                                              *)
(***************************************************************************)
LEMMA PricesAreNumbers ==
    ASSUME WindowInv, wish \in F!Wishes
    PROVE  /\ OnHand => F!Price \in Nat
           /\ goods["code"].there = "yes" =>
                 goods["code"].amount \in Nat /\ \A p \in Nat : F!Off(p) = Smaller(goods["code"].amount, p)
           /\ F!Seen = <<writes[wish.kind], Second>> /\ writes[wish.kind] \in Nat /\ Second \in Nat /\ writes["code"] \in Nat
<1>1. /\ wish.kind \in F!Tables \ {"code"} /\ "traffic" \in F!Tables /\ "code" \in F!Tables
    BY DEF F!Wishes, F!Tables, F!Kinds
<1>2. \A n \in F!Tables \ {"code"} : goods[n].there = "yes" => goods[n].price \in Nat
    BY DEF WindowInv, WindowTyped, F!Tables, F!Kinds, GoneRow, RowsOf, ProductRow, PackageRow
<1>3. OnHand => F!Price \in Nat
    BY <1>1, <1>2 DEF OnHand, F!Price
<1>4. goods["code"].there = "yes" => goods["code"].amount \in Nat
    BY <1>1 DEF WindowInv, WindowTyped, GoneRow, RowsOf, CodeRow
<1>5. ASSUME goods["code"].there = "yes", NEW p \in Nat PROVE F!Off(p) = Smaller(goods["code"].amount, p)
    <2>1. goods["code"].amount \in Int /\ p \in Int
        BY <1>4, <1>5
    <2> QED BY <2>1, Extremes DEF F!Off, Smaller
<1> QED BY <1>1, <1>3, <1>4, <1>5 DEF F!Seen, Second, WindowInv, WindowTyped

(***************************************************************************)
(* What the customer's side keeps.                                         *)
(***************************************************************************)
CustomersInv == PageInv /\ BuyingInv

(***************************************************************************)
(* A page that is loaded shows the rows as they are.                       *)
(***************************************************************************)
LEMMA LoadsStep == ASSUME WindowInv, CustomersInv, F!Loads PROVE CustomersInv'
<1>1. /\ ~page.open /\ OnHand
      /\ UNCHANGED <<goods, writes, wish, buying>>
      /\ page' = [open |-> TRUE, total |-> F!Price, seen |-> F!Seen, applied |-> FALSE,
                  without |-> [total |-> F!Price, seen |-> F!Seen]]
    BY DEF F!Loads, F!Listed, F!OnSale, OnHand
<1>2. buying.pc = "none"
    BY <1>1 DEF CustomersInv, BuyingInv
<1>3. /\ F!Price \in Nat /\ F!Seen = <<writes[wish.kind], Second>> /\ writes[wish.kind] \in Nat /\ Second \in Nat
    BY <1>1, PricesAreNumbers DEF CustomersInv, PageInv
<1>4. Priced(writes[wish.kind], Second, F!Price)'
    BY <1>1, <1>2, <1>3 DEF Priced, OnHand, Second, F!Price
<1>5. page'.open /\ ~page'.applied /\ page'.without.seen = <<writes[wish.kind], Second>> /\ page'.without.total = F!Price
      /\ page'.seen = page'.without.seen /\ page'.total = page'.without.total /\ page'.open \in BOOLEAN /\ page'.applied \in BOOLEAN
      /\ DOMAIN page' = {"open", "total", "seen", "applied", "without"}
    BY <1>1, <1>3
<1>6. PageInv'
    <2>1. F!Price' = F!Price /\ Second' = Second /\ writes' = writes /\ wish' = wish
        BY <1>1 DEF F!Price, Second
    <2> QED BY <1>3, <1>4, <1>5, <2>1 DEF CustomersInv, PageInv
<1>7. BuyingInv'
    BY <1>1, <1>2 DEF CustomersInv, BuyingInv
<1> QED BY <1>6, <1>7 DEF CustomersInv

(***************************************************************************)
(* A code that is checked is taken off the price of now.                   *)
(***************************************************************************)
LEMMA ApplyStep == ASSUME WindowInv, CustomersInv, F!Apply PROVE CustomersInv'
<1>1. /\ wish.at = "portal" /\ page.open /\ ~page.applied /\ buying.pc = "none"
      /\ goods[wish.kind].there = "yes" /\ goods["code"].there = "yes"
      /\ UNCHANGED <<goods, writes, wish, buying>>
      /\ page' = [page EXCEPT !.applied = TRUE, !.total = F!Price - F!Off(F!Price), !.seen = Append(F!Seen, writes["code"])]
    BY DEF F!Apply, F!Accepted, F!OnSale
<1>2. OnHand
    BY <1>1 DEF OnHand, CustomersInv, PageInv, F!Wishes
<1>3. /\ F!Price \in Nat /\ F!Seen = <<writes[wish.kind], Second>> /\ writes[wish.kind] \in Nat /\ Second \in Nat
      /\ writes["code"] \in Nat /\ goods["code"].amount \in Nat /\ F!Off(F!Price) = Smaller(goods["code"].amount, F!Price)
    BY <1>1, <1>2, PricesAreNumbers DEF CustomersInv, PageInv
<1>4. Append(F!Seen, writes["code"]) = <<writes[wish.kind], Second, writes["code"]>>
    BY <1>3, Third
<1>5. /\ DOMAIN page' = DOMAIN page /\ page'.open = page.open /\ page'.applied /\ page'.applied \in BOOLEAN /\ page'.without = page.without
      /\ page'.seen = <<writes[wish.kind], Second, writes["code"]>>
      /\ page'.total = F!Price - Smaller(goods["code"].amount, F!Price)
    BY <1>1, <1>3, <1>4 DEF CustomersInv, PageInv
<1>6. Priced(writes[wish.kind], Second, F!Price)' /\ Discounted(writes["code"], goods["code"].amount)'
    BY <1>1, <1>2, <1>3 DEF Priced, Discounted, OnHand, Second, F!Price
<1>7. ASSUME NEW a, NEW b, NEW total, Priced(a, b, total) PROVE Priced(a, b, total)'
    BY <1>1, <1>7 DEF Priced, OnHand, Second, F!Price
<1>8. PageInv'
    <2>1. F!Price' = F!Price /\ Second' = Second /\ writes' = writes /\ wish' = wish /\ goods' = goods
        BY <1>1 DEF F!Price, Second
    <2>2. \E a, b, total \in Nat : page'.without.seen = <<a, b>> /\ page'.without.total = total /\ Priced(a, b, total)'
        <3>1. PICK a \in Nat, b \in Nat : page.without.seen = <<a, b>> /\ Priced(a, b, page.without.total)
            BY <1>1 DEF CustomersInv, PageInv
        <3>2. PICK total \in Nat : total = page.without.total
            BY <3>1 DEF Priced
        <3>3. Priced(a, b, total)'
            BY <1>7, <3>1, <3>2
        <3> QED BY <1>5, <3>1, <3>2, <3>3
    <2>3. \E a, b, c, p, amount \in Nat :
             /\ page'.seen = <<a, b, c>> /\ Priced(a, b, p)' /\ Discounted(c, amount)'
             /\ page'.total = p - Smaller(amount, p)
        BY <1>3, <1>5, <1>6, <2>1
    <2>4. \E a, b \in Nat : page'.without.seen = <<a, b>> /\ Priced(a, b, page.without.total)'
        BY <2>2
    <2> QED BY <1>1, <1>5, <2>1, <2>3, <2>4 DEF CustomersInv, PageInv
<1>9. BuyingInv'
    BY <1>1 DEF CustomersInv, BuyingInv
<1> QED BY <1>8, <1>9 DEF CustomersInv

(***************************************************************************)
(* The code is taken off again, by the customer or with a purchase that is *)
(* refused.                                                                *)
(***************************************************************************)
LEMMA WithoutCodeStep ==
    ASSUME CustomersInv, page' = F!WithoutCode, UNCHANGED <<goods, writes, wish>>,
           (buying.pc = "none" /\ buying' = buying) \/ buying' = F!NoPurchase
    PROVE  CustomersInv'
<1>1. /\ DOMAIN page' = DOMAIN page /\ page'.open = page.open /\ page'.applied = FALSE /\ page'.without = page.without
      /\ page'.seen = page.without.seen /\ page'.total = page.without.total
    BY DEF F!WithoutCode, CustomersInv, PageInv
<1>2. buying'.pc = "none"
    BY DEF F!NoPurchase
<1>3. ASSUME NEW a, NEW b, NEW total, Priced(a, b, total) PROVE Priced(a, b, total)'
    BY <1>2, <1>3 DEF Priced, OnHand, Second, F!Price
<1>4. PageInv'
    BY <1>1, <1>3 DEF CustomersInv, PageInv
<1>5. BuyingInv'
    <2>1. CASE buying' = F!NoPurchase
        BY <2>1 DEF BuyingInv, F!NoPurchase
    <2>2. CASE buying.pc = "none" /\ buying' = buying
        BY <2>2 DEF CustomersInv, BuyingInv
    <2> QED BY <2>1, <2>2
<1> QED BY <1>4, <1>5 DEF CustomersInv

(***************************************************************************)
(* The page is closed.                                                     *)
(***************************************************************************)
LEMMA LeaveStep == ASSUME CustomersInv, F!Leave PROVE CustomersInv'
BY DEF F!Leave, F!NoPage, F!NoPurchase, CustomersInv, PageInv, BuyingInv

(***************************************************************************)
(* A purchase is sent.                                                     *)
(***************************************************************************)
LEMMA SendsStep ==
    ASSUME CustomersInv, NEW code \in BOOLEAN, F!Sends(code), wish.at = "portal" => code = page.applied PROVE CustomersInv'
<1>1. /\ page.open /\ buying.pc = "none" /\ UNCHANGED <<goods, writes, wish, page>>
      /\ buying' = [F!NoPurchase EXCEPT !.pc = "rows", !.code = code]
    BY DEF F!Sends
<1>2. DOMAIN buying' = {"pc", "code", "price", "off", "seen"} /\ buying'.pc = "rows" /\ buying'.code = code
    BY <1>1 DEF F!NoPurchase
<1>3. ASSUME NEW a, NEW b, NEW total, Priced(a, b, total) PROVE Priced(a, b, total)'
    BY <1>1, <1>2, <1>3 DEF Priced, OnHand, Second, F!Price
<1>4. ASSUME NEW c, NEW amount, Discounted(c, amount) PROVE Discounted(c, amount)'
    BY <1>1, <1>2, <1>4 DEF Discounted
<1>5. PageInv'
    BY <1>1, <1>3, <1>4 DEF CustomersInv, PageInv
<1>6. BuyingInv'
    BY <1>1, <1>2 DEF CustomersInv, BuyingInv
<1> QED BY <1>5, <1>6 DEF CustomersInv

(***************************************************************************)
(* The rows are read: where they are those of the page, its price is the   *)
(* purchase's.                                                             *)
(***************************************************************************)
LEMMA ReadRowsStep ==
    ASSUME WindowInv, CustomersInv, buying.pc = "rows", OnHand, UNCHANGED <<goods, writes, wish, page>>,
           buying' = [buying EXCEPT !.pc = "code", !.price = F!Price, !.seen = F!Seen]
    PROVE  CustomersInv'
<1>1. /\ F!Price \in Nat /\ F!Seen = <<writes[wish.kind], Second>> /\ writes[wish.kind] \in Nat /\ Second \in Nat
    BY PricesAreNumbers DEF CustomersInv, PageInv
<1>2. /\ DOMAIN buying' = DOMAIN buying /\ buying'.pc = "code" /\ buying'.price = F!Price /\ buying'.code = buying.code
      /\ buying'.seen = <<writes[wish.kind], Second>>
    BY <1>1 DEF CustomersInv, BuyingInv
<1>3. ASSUME NEW a, NEW b, NEW total, Priced(a, b, total) PROVE Priced(a, b, total)'
    <2>1. buying'.seen[1] = writes[wish.kind] /\ buying'.seen[2] = Second
        BY <1>1, <1>2
    <2>2. OnHand' /\ F!Price' = F!Price /\ Second' = Second
        BY DEF OnHand, F!Price, Second
    <2> QED BY <1>1, <1>2, <1>3, <2>1, <2>2 DEF Priced
<1>4. ASSUME NEW c, NEW amount, Discounted(c, amount) PROVE Discounted(c, amount)'
    BY <1>2, <1>4 DEF Discounted
<1>5. PageInv'
    BY <1>3, <1>4 DEF CustomersInv, PageInv
<1>6. BuyingInv'
    BY <1>1, <1>2 DEF CustomersInv, BuyingInv
<1> QED BY <1>5, <1>6 DEF CustomersInv

(***************************************************************************)
(* The code is read: where it is that of the page, it takes off what it did*)
(* there.                                                                  *)
(***************************************************************************)
LEMMA ReadCodeStep ==
    ASSUME WindowInv, CustomersInv, buying.pc = "code", UNCHANGED <<goods, writes, wish, page>>,
           buying.code => goods["code"].there = "yes",
           buying' = [buying EXCEPT !.pc = "insert",
                                    !.off = IF buying.code THEN F!Off(buying.price) ELSE 0,
                                    !.seen = IF buying.code THEN Append(@, writes["code"]) ELSE @]
    PROVE  CustomersInv'
<1>1. buying.price \in Nat /\ \E a, b \in Nat : buying.seen = <<a, b>>
    BY DEF CustomersInv, BuyingInv
<1>2. PICK a \in Nat, b \in Nat : buying.seen = <<a, b>>
    BY <1>1
<1>3. writes["code"] \in Nat
      /\ (buying.code => goods["code"].amount \in Nat /\ F!Off(buying.price) = Smaller(goods["code"].amount, buying.price))
    BY <1>1, PricesAreNumbers DEF CustomersInv, PageInv
<1>4. /\ DOMAIN buying' = DOMAIN buying /\ buying'.pc = "insert" /\ buying'.price = buying.price /\ buying'.code = buying.code
      /\ buying'.off = IF buying.code THEN F!Off(buying.price) ELSE 0
      /\ buying'.seen = IF buying.code THEN Append(buying.seen, writes["code"]) ELSE buying.seen
    BY DEF CustomersInv, BuyingInv
<1>5. buying'.seen = IF buying.code THEN <<a, b, writes["code"]>> ELSE <<a, b>>
    <2>1. CASE buying.code
        <3>1. Append(<<a, b>>, writes["code"]) = <<a, b, writes["code"]>>
            BY <1>3, Third
        <3> QED BY <1>2, <1>4, <2>1, <3>1
    <2>2. CASE ~buying.code
        BY <1>2, <1>4, <2>2
    <2> QED BY <2>1, <2>2
<1>6. buying'.seen[1] = buying.seen[1] /\ buying'.seen[2] = buying.seen[2] /\ (buying.code => buying'.seen[3] = writes["code"])
    BY <1>2, <1>3, <1>5
<1>7. ASSUME NEW d, NEW e, NEW total, Priced(d, e, total) PROVE Priced(d, e, total)'
    <2>1. OnHand' = OnHand /\ F!Price' = F!Price /\ Second' = Second
        BY DEF OnHand, F!Price, Second
    <2> QED BY <1>4, <1>6, <1>7, <2>1 DEF Priced
<1>8. ASSUME NEW n, NEW amount, Discounted(n, amount) PROVE Discounted(n, amount)'
    BY <1>1, <1>3, <1>4, <1>6, <1>8 DEF Discounted
<1>9. PageInv'
    BY <1>7, <1>8 DEF CustomersInv, PageInv
<1>10. buying'.off \in Nat /\ (~buying'.code => buying'.off = 0)
    BY <1>1, <1>3, <1>4 DEF Smaller
<1>11. BuyingInv'
    BY <1>1, <1>3, <1>4, <1>5, <1>10 DEF CustomersInv, BuyingInv
<1> QED BY <1>9, <1>11 DEF CustomersInv

(***************************************************************************)
(* The inductive form of CatalogueHolds.                                   *)
(***************************************************************************)
CatalogueInv == WindowInv /\ CustomersInv

(***************************************************************************)
(* Every step of the panel keeps it.                                       *)
(***************************************************************************)
LEMMA PanelStep == ASSUME CatalogueInv, F!StorefrontAssumption, F!Panel PROVE CatalogueInv'
<1>1. UNCHANGED <<wish, page, buying>>
    BY DEF F!Panel, F!ShownProducts, F!Packages, F!Discounts, F!Show, F!SaveProduct, F!SavePackage, F!SaveCode,
           F!CountOrders, F!CountInvoices, F!CountUses, F!Counts, F!Remove
<1>2. WindowInv' /\ Forward
    <2>1. CASE F!ShownProducts \/ F!Packages \/ F!Discounts
        <3>1. PICK n : F!Show(n)
            BY <2>1 DEF F!ShownProducts, F!Packages, F!Discounts
        <3>2. UNCHANGED <<goods, writes>>
            BY <3>1 DEF F!Show
        <3> QED BY <3>1, <3>2, ShowStep, StandsStill DEF CatalogueInv
    <2>2. CASE F!CountOrders \/ F!CountInvoices \/ F!CountUses
        <3>1. UNCHANGED <<goods, writes>>
            BY <2>2 DEF F!CountOrders, F!CountInvoices, F!CountUses, F!Counts
        <3>2. wish.kind # "code"
            BY DEF CatalogueInv, CustomersInv, PageInv, F!Wishes, F!Kinds
        <3>3. F!OrdersOfProduct \in BOOLEAN /\ F!InvoicesOfPackage \in BOOLEAN /\ F!UsesOfCode \in BOOLEAN
            BY DEF F!OrdersOfProduct, F!InvoicesOfPackage, F!UsesOfCode, F!Spent
        <3>4. CASE F!CountOrders
            <4>1. F!Counts("product", F!OrdersOfProduct)
                BY <3>4 DEF F!CountOrders
            <4>2. "product" = wish.kind /\ ~F!OrdersOfProduct => bought = <<>>
                BY DEF F!OrdersOfProduct
            <4> QED BY <3>1, <3>3, <4>1, <4>2, CountsStep, StandsStill DEF CatalogueInv
        <3>5. CASE F!CountInvoices
            <4>1. F!Counts("traffic", F!InvoicesOfPackage)
                BY <3>5 DEF F!CountInvoices
            <4>2. "traffic" = wish.kind /\ ~F!InvoicesOfPackage => bought = <<>>
                BY DEF F!InvoicesOfPackage
            <4> QED BY <3>1, <3>3, <4>1, <4>2, CountsStep, StandsStill DEF CatalogueInv
        <3>6. CASE F!CountUses
            <4>1. F!Counts("code", F!UsesOfCode)
                BY <3>6 DEF F!CountUses
            <4>2. "code" = wish.kind /\ ~F!UsesOfCode => bought = <<>>
                BY <3>2
            <4> QED BY <3>1, <3>3, <4>1, <4>2, CountsStep, StandsStill DEF CatalogueInv
        <3> QED BY <2>2, <3>4, <3>5, <3>6
    <2>3. CASE F!SaveProduct \/ F!SavePackage \/ F!SaveCode
        BY <2>3, SaveProductStep, SavePackageStep, SaveCodeStep DEF CatalogueInv
    <2>4. CASE F!Remove
        BY <2>4, RemoveStep DEF CatalogueInv
    <2> QED BY <2>1, <2>2, <2>3, <2>4 DEF F!Panel
<1> QED BY <1>1, <1>2, PageKept DEF CatalogueInv, CustomersInv

(***************************************************************************)
(* So does a purchase that is refused,                                     *)
(***************************************************************************)
LEMMA RefusedStep == ASSUME CatalogueInv, F!Refused PROVE CatalogueInv'
BY WindowAlone, WithoutCodeStep DEF F!Refused, CatalogueInv

(***************************************************************************)
(* one that is placed,                                                     *)
(***************************************************************************)
LEMMA PlaceStep == ASSUME CatalogueInv, F!Insert PROVE CatalogueInv'
<1>1. CASE F!Refused
    BY <1>1, RefusedStep
<1>2. CASE ~F!Refused
    <2> DEFINE free == buying.price = buying.off
               o == [code |-> buying.code, paid |-> free, refers |-> TRUE,
                     crossed |-> removal.pc = "counted" /\ tab.name = wish.kind]
    <2>1. /\ buying.pc = "insert" /\ bought' = Append(bought, o)
          /\ goods' = (IF free THEN F!Sell ELSE goods) /\ typed' = (IF free THEN F!Tally ELSE typed)
          /\ buying' = [buying EXCEPT !.pc = "billed"] /\ UNCHANGED <<writes, overtaken, tab, removal, wish, page>>
        BY <1>2 DEF F!Insert
    <2>2. o \in Bought /\ o.refers /\ o.paid = free /\ o.crossed = (removal.pc = "counted" /\ tab.name = wish.kind)
        BY DEF CatalogueInv, CustomersInv, BuyingInv, Bought
    <2> HIDE DEF free, o
    <2>3. WindowInv' /\ Forward
        BY <2>1, <2>2, InsertedStep DEF CatalogueInv
    <2> QED BY <2>1, <2>3, PageKept DEF CatalogueInv, CustomersInv
<1> QED BY <1>1, <1>2

(***************************************************************************)
(* and every other step of the customer.                                   *)
(***************************************************************************)
LEMMA CustomerStep == ASSUME CatalogueInv, F!Customer PROVE CatalogueInv'
<1>1. CASE F!PortalShopPage \/ F!StoreProductPage
    <2>1. F!Loads
        BY <1>1 DEF F!PortalShopPage, F!StoreProductPage
    <2> QED BY <2>1, LoadsStep, WindowAlone DEF CatalogueInv, F!Loads
<1>2. CASE F!Apply
    BY <1>2, ApplyStep, WindowAlone DEF CatalogueInv, F!Apply
<1>3. CASE F!TakeOff
    <2>1. buying' = buying /\ buying.pc = "none" /\ page' = F!WithoutCode
          /\ UNCHANGED <<goods, writes, typed, overtaken, tab, removal, wish, bought>>
        BY <1>3 DEF F!TakeOff
    <2> QED BY <2>1, WithoutCodeStep, WindowAlone DEF CatalogueInv
<1>4. CASE F!Leave
    BY <1>4, LeaveStep, WindowAlone DEF CatalogueInv, F!Leave
<1>5. CASE F!BuyPackage \/ F!BuyProduct \/ F!Submit
    <2>1. PICK code \in BOOLEAN : F!Sends(code) /\ (wish.at = "portal" => code = page.applied)
        BY <1>5 DEF F!BuyPackage, F!BuyProduct, F!Submit, CatalogueInv, CustomersInv, PageInv
    <2> QED BY <2>1, SendsStep, WindowAlone DEF CatalogueInv, F!Sends
<1>6. CASE F!ReadRows
    <2>1. CASE F!Refused
        BY <2>1, RefusedStep
    <2>2. CASE ~F!Refused
        <3>1. /\ buying.pc = "rows" /\ OnHand
              /\ buying' = [buying EXCEPT !.pc = "code", !.price = F!Price, !.seen = F!Seen]
              /\ UNCHANGED <<goods, writes, typed, overtaken, tab, removal, wish, page, bought>>
            BY <1>6, <2>2 DEF F!ReadRows, F!Listed, F!OnSale, OnHand
        <3> QED BY <3>1, ReadRowsStep, WindowAlone DEF CatalogueInv
    <2> QED BY <2>1, <2>2
<1>7. CASE F!ReadCode
    <2>1. CASE F!Refused
        BY <2>1, RefusedStep
    <2>2. CASE ~F!Refused
        <3>1. /\ buying.pc = "code" /\ (buying.code => F!Accepted(wish.kind))
              /\ buying' = [buying EXCEPT !.pc = "insert",
                               !.off = IF buying.code /\ F!Accepted(wish.kind) THEN F!Off(buying.price) ELSE 0,
                               !.seen = IF buying.code THEN Append(@, writes["code"]) ELSE @]
              /\ UNCHANGED <<goods, writes, typed, overtaken, tab, removal, wish, page, bought>>
            BY <1>7, <2>2 DEF F!ReadCode, F!Stops
        <3>2. buying.code => goods["code"].there = "yes"
            BY <3>1 DEF F!Accepted, F!OnSale
        <3>3. buying' = [buying EXCEPT !.pc = "insert",
                               !.off = IF buying.code THEN F!Off(buying.price) ELSE 0,
                               !.seen = IF buying.code THEN Append(@, writes["code"]) ELSE @]
            BY <3>1
        <3> QED BY <3>1, <3>2, <3>3, ReadCodeStep, WindowAlone DEF CatalogueInv
    <2> QED BY <2>1, <2>2
<1>8. CASE F!Insert
    BY <1>8, PlaceStep
<1>9. CASE F!GatewayFails
    BY <1>9, RefusedStep DEF F!GatewayFails
<1>10. CASE F!Pay
    <2>1. WindowInv' /\ Forward
        BY <1>10, PayStep DEF CatalogueInv
    <2>2. UNCHANGED <<wish, page, buying>>
        BY <1>10 DEF F!Pay
    <2> QED BY <2>1, <2>2, PageKept DEF CatalogueInv, CustomersInv
<1> QED BY <1>1, <1>2, <1>3, <1>4, <1>5, <1>6, <1>7, <1>8, <1>9, <1>10 DEF F!Customer

(***************************************************************************)
(* What is asked is what the page showed.                                  *)
(***************************************************************************)
LEMMA AskedRight == ASSUME CustomersInv PROVE F!AskedAsShown
<1> DEFINE unseen == wish.at = "store" /\ buying.code
           asked == buying.price - buying.off
<1> SUFFICES ASSUME buying.pc = "billed",
                    page.seen = (IF unseen THEN SubSeq(buying.seen, 1, 2) ELSE buying.seen)
             PROVE  IF unseen THEN asked <= page.total ELSE asked = page.total
    BY DEF F!AskedAsShown
<1>1. /\ page.open /\ (wish.at = "portal" => buying.code = page.applied) /\ wish.at \in {"portal", "store"}
      /\ buying.price \in Nat /\ buying.off \in Nat /\ (~buying.code => buying.off = 0)
    BY DEF CustomersInv, PageInv, BuyingInv, F!Wishes
<1>2. CASE page.applied
    <2>1. ~unseen /\ buying.code
        BY <1>1, <1>2 DEF CustomersInv, PageInv
    <2>2. PICK a \in Nat, b \in Nat, c \in Nat, p \in Nat, amount \in Nat :
             /\ page.seen = <<a, b, c>> /\ Priced(a, b, p) /\ Discounted(c, amount) /\ page.total = p - Smaller(amount, p)
        BY <1>2 DEF CustomersInv, PageInv
    <2>3. buying.seen[1] = a /\ buying.seen[2] = b /\ buying.seen[3] = c
        BY <2>1, <2>2
    <2>4. p = buying.price /\ buying.off = Smaller(amount, buying.price)
        BY <2>1, <2>2, <2>3 DEF Priced, Discounted
    <2> QED BY <2>1, <2>2, <2>4
<1>3. CASE ~page.applied
    <2>1. PICK a \in Nat, b \in Nat : page.without.seen = <<a, b>> /\ Priced(a, b, page.without.total)
        BY <1>1 DEF CustomersInv, PageInv
    <2>2. page.seen = <<a, b>> /\ page.total = page.without.total
        BY <1>1, <1>3, <2>1 DEF CustomersInv, PageInv
    <2>3. buying.seen[1] = a /\ buying.seen[2] = b
        <3>1. CASE unseen
            <4>1. PICK d \in Nat, e \in Nat, f \in Nat : buying.seen = <<d, e, f>>
                BY <3>1 DEF CustomersInv, BuyingInv
            <4>2. <<d, e>> = <<a, b>>
                BY <2>2, <3>1, <4>1, Third
            <4> QED BY <4>1, <4>2
        <3>2. CASE ~unseen
            BY <2>2, <3>2
        <3> QED BY <3>1, <3>2
    <2>4. page.total = buying.price
        BY <2>1, <2>2, <2>3 DEF Priced
    <2>5. unseen \/ ~buying.code
        BY <1>1, <1>3
    <2> QED BY <1>1, <2>4, <2>5
<1> QED BY <1>2, <1>3

(***************************************************************************)
(* CatalogueHolds for any prices, amounts, sizes and stocks, any number of *)
(* saves and orders: unless an admin wrote a row after the page had read it*)
(* the amount asked is the amount shown; an order loses its reference only *)
(* to a DELETE it was placed in the middle of; the stock is what was typed *)
(* less what was paid, unless a form was saved over a payment; and a       *)
(* package keeps its size to half a hundredth of a terabyte however often  *)
(* its form is saved.                                                      *)
(***************************************************************************)
THEOREM CatalogueKept == FrontSpec => []CatalogueHolds
<1>0. F!StorefrontAssumption
    BY FrontAssumption DEF FrontAssumption
<1>1. FrontInit => CatalogueInv
    <2> SUFFICES ASSUME F!Init PROVE CatalogueInv
        BY DEF FrontInit
    <2>1. PICK p \in Prices, z \in Prices, gb \in Sizes, count \in Stocks, amount \in Amounts :
              /\ goods = [product |-> F!NewProduct(p, count), traffic |-> F!NewPackage(z, gb), code |-> F!NewCode(amount)]
              /\ typed = [stock |-> count, gb |-> gb]
        BY DEF F!Init
    <2>2. PICK n \in F!Tables : tab = [name |-> n, sold |-> 0, row |-> F!NotLoaded]
        BY DEF F!Init
    <2>3. /\ DOMAIN goods = F!Tables /\ goods["product"] \in ProductRow /\ goods["traffic"] \in PackageRow /\ goods["code"] \in CodeRow
          /\ goods["product"].stock = typed.stock /\ goods["traffic"].gb = typed.gb
        BY <1>0, <2>1 DEF F!StorefrontAssumption, F!NewProduct, F!NewPackage, F!NewCode, ProductRow, PackageRow, CodeRow, F!Tables, F!Kinds
    <2>4. typed \in [stock : Nat, gb : Nat]
        BY <1>0, <2>1 DEF F!StorefrontAssumption
    <2>5. bought = <<>> /\ bought \in Seq(Bought) /\ DOMAIN bought = {}
        BY DEF F!Init
    <2>6. F!Sold \in Nat
        BY <2>5, SoldIsNat
    <2>7. WindowTyped
        BY <2>2, <2>3, <2>4, <2>5 DEF F!Init, WindowTyped, RowsOf, F!NoRemoval, F!Tables, F!Kinds
    <2>8. StockInv /\ SizeInv /\ ReferenceInv
        BY <2>2, <2>3, <2>5, <2>6 DEF F!Init, StockInv, SizeInv, ReferenceInv, F!ReferenceKept, F!NoRemoval
    <2>9. CustomersInv
        BY DEF F!Init, F!NoPage, F!NoPurchase, CustomersInv, PageInv, BuyingInv
    <2> QED BY <2>7, <2>8, <2>9 DEF WindowInv, CatalogueInv
<1>2. CatalogueInv /\ [FrontNext]_<<focus, vars, qvars, avars, fvars>> => CatalogueInv'
    <2> SUFFICES ASSUME CatalogueInv, [FrontNext]_<<focus, vars, qvars, avars, fvars>> PROVE CatalogueInv'
        OBVIOUS
    <2>1. CASE UNCHANGED fvars
        <3>1. UNCHANGED <<goods, writes, typed, overtaken, tab, removal, wish, bought, page, buying>>
            BY <2>1 DEF fvars
        <3>2. WindowInv' /\ Forward
            BY <3>1, WindowAlone, StandsStill DEF CatalogueInv
        <3> QED BY <3>1, <3>2, PageKept DEF CatalogueInv, CustomersInv
    <2>2. CASE F!Next
        BY <1>0, <2>2, PanelStep, CustomerStep DEF F!Next
    <2> QED BY <2>1, <2>2 DEF FrontNext, OnlyShop, OnlyQuota, OnlyAccounts, OnlyStorefront
<1>3. CatalogueInv => CatalogueHolds
    <2> SUFFICES ASSUME CatalogueInv PROVE F!CatalogueHolds
        BY DEF CatalogueHolds
    <2>1. F!AskedAsShown
        BY AskedRight DEF CatalogueInv
    <2>2. F!ReferenceKept /\ F!StockKept
        BY DEF CatalogueInv, WindowInv, ReferenceInv, StockInv, F!StockKept
    <2>3. F!SizeKept
        <3>1. typed.gb \in Nat
            BY DEF CatalogueInv, WindowInv, WindowTyped
        <3>2. Shown(typed.gb) - typed.gb \in -512..512
            BY <3>1, ShownTwice
        <3>3. typed.gb - typed.gb \in -512..512
            BY <3>1
        <3> QED BY <3>2, <3>3 DEF CatalogueInv, WindowInv, SizeInv, F!SizeKept
    <2> QED BY <2>1, <2>2, <2>3 DEF F!CatalogueHolds
<1> QED BY <1>1, <1>2, <1>3, PTL DEF FrontSpec
=============================================================================
