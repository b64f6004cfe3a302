----------------------------- MODULE Storefront -----------------------------
(***************************************************************************)
(* What is for sale and how it is bought: the forms of the panel over      *)
(* products, packages of traffic and discount codes, the pages of the      *)
(* portal and of the public shop that show them, the check of a code       *)
(* before the purchase, and the purchase, which reads everything again.    *)
(* Pages and forms hold what they have loaded while the rows change; the   *)
(* purchase is several queries.  What becomes of the order is in Shop.     *)
(*                                                                         *)
(* One product, one package, one code; one customer who wants one thing    *)
(* and one admin who works in one tab.  Sizes are in hundredths of a GB.   *)
(***************************************************************************)
EXTENDS Integers, Sequences, FiniteSets, FiniteSetsExt

CONSTANTS
    Prices,       \* what a product or a package may cost
    Amounts,      \* what a code may take off
    Sizes,        \* what a package may hold, as an admin types it
    Stocks,       \* what an admin may type as the stock
    MaxSaves, MaxOrders   \* bounds: rows written by the admin, orders placed

StorefrontAssumption ==
    /\ Prices \union Amounts \union Sizes \subseteq Nat \ {0}
    /\ Stocks \subseteq Nat /\ {MaxSaves, MaxOrders} \subseteq Nat

VARIABLES
    rows,      \* products, traffic_packages and discount_codes: one row of each
    writes,    \* history: how often the admin has written each row
    typed,     \* history: the stock last typed less what was paid since, and the size last typed
    overtaken, \* history: a form opened before a unit was paid for was saved after it
    tab,       \* the tab of the panel: the row it has loaded and the form over it
    removal,   \* a DELETE between its two statements
    wish,      \* where the customer buys what
    page,      \* the page of the customer: what it has loaded and the code it has had checked
    buying,    \* the purchase between its queries, and the invoice it has made
    orders     \* what was bought

vars == <<rows, writes, typed, overtaken, tab, removal, wish, page, buying, orders>>

Kinds == {"product", "traffic"}
Tables == Kinds \union {"code"}
Wishes ==
    {[at |-> "portal", kind |-> k, addon |-> FALSE] : k \in Kinds}
    \union {[at |-> "store", kind |-> "product", addon |-> a] : a \in BOOLEAN}
NotLoaded == [there |-> "no"]
NoRemoval == [pc |-> "none", used |-> FALSE]
NoPage == [open |-> FALSE, total |-> 0, seen |-> <<>>, applied |-> FALSE, without |-> [total |-> 0, seen |-> <<>>]]
NoPurchase == [pc |-> "none", code |-> FALSE, price |-> 0, off |-> 0, seen |-> <<>>]

\* What the three POSTs make.
NewProduct(price, stock) == [there |-> "yes", active |-> TRUE, price |-> price, stock |-> stock]
NewPackage(price, gb) == [there |-> "yes", active |-> TRUE, price |-> price, gb |-> gb]
NewCode(amount) == [there |-> "yes", active |-> TRUE, amount |-> amount, scope |-> "all", target |-> "none"]

Init ==
    /\ \E p \in Prices, t \in Prices, gb \in Sizes, stock \in Stocks, amount \in Amounts :
          /\ rows = [product |-> NewProduct(p, stock), traffic |-> NewPackage(t, gb), code |-> NewCode(amount)]
          /\ typed = [stock |-> stock, gb |-> gb]
    /\ writes = [n \in Tables |-> 0]
    /\ overtaken = FALSE
    /\ \E n \in Tables : tab = [name |-> n, sold |-> 0, row |-> NotLoaded]
    /\ removal = NoRemoval
    /\ wish \in Wishes /\ page = NoPage /\ buying = NoPurchase /\ orders = <<>>

OnSale(n) == rows[n].there = "yes" /\ rows[n].active
Paid == {i \in DOMAIN orders : orders[i].paid}
Sold == IF wish.kind = "product" THEN Cardinality(Paid) ELSE 0
Spent == \E i \in Paid : orders[i].code

-----------------------------------------------------------------------------
(* The panel.  A tab loads its rows when it is opened and after each save. *)

\* "(pack.gb / 1024).toFixed(2)", and the typed number of terabytes back in GB.
InTB(gb) == (gb + 512) \div 1024
OfTB(tb) == tb * 1024

\* validate of the three routes.
ValidProduct(p) == p.price > 0 /\ p.stock >= 0
ValidPackage(p) == p.gb > 0 /\ p.price > 0
ValidCode(c) == c.amount > 0 /\ c.scope \in {"all"} \union Kinds /\ c.target \in {"none"} \union Kinds

\* What the forms send for a row: every column of it, one of them changed.
ProductForm(p) ==
    {[p EXCEPT !.price = x] : x \in Prices \union {0}} \union {[p EXCEPT !.stock = x] : x \in Stocks}
    \union {[p EXCEPT !.active = ~@]}
PackageForm(p) ==
    LET shown == [p EXCEPT !.gb = OfTB(InTB(@))]
    IN  {[shown EXCEPT !.price = x] : x \in Prices \union {0}} \union {[p EXCEPT !.gb = x] : x \in Sizes}
        \union {[shown EXCEPT !.active = ~@]}

\* A scope that is chosen clears a target it does not cover, a target brings its scope.
Scoped(c, s) == [c EXCEPT !.scope = s, !.target = IF s \in Kinds /\ s # @ THEN "none" ELSE @]
Targeted(c, t) == [c EXCEPT !.target = t, !.scope = IF t = "none" THEN @ ELSE t]
DiscountForm(c) ==
    {[c EXCEPT !.amount = x] : x \in Amounts} \union {[c EXCEPT !.active = ~@]}
    \union {Scoped(c, s) : s \in {"all"} \union Kinds} \union {Targeted(c, t) : t \in {"none"} \union Kinds}

\* The tab that is chosen loads its rows; the form of a row is opened from them.
Show(name) ==
    /\ tab.name = name /\ rows[name].there = "yes"
    /\ tab' = [tab EXCEPT !.sold = Sold, !.row = rows[name]]
    /\ UNCHANGED <<rows, writes, typed, overtaken, removal, wish, page, buying, orders>>

ShownProducts == Show("product")
Packages == Show("traffic")
Discounts == Show("code")

\* What is saved is on the list that is loaded next.  A row that is gone is an error.
Written == writes["product"] + writes["traffic"] + writes["code"]

Write(row) ==
    IF rows[tab.name].there = "yes"
    THEN /\ Written < MaxSaves
         /\ rows' = [rows EXCEPT ![tab.name] = row]
         /\ writes' = [writes EXCEPT ![tab.name] = @ + 1]
         /\ tab' = [tab EXCEPT !.row = row, !.sold = Sold]
    ELSE tab' = [tab EXCEPT !.row = NotLoaded] /\ UNCHANGED <<rows, writes>>

\* Every column is written from the form, the stock too.
SaveProduct ==
    /\ tab.name = "product" /\ tab.row # NotLoaded
    /\ \E p \in ProductForm(tab.row) :
          /\ ValidProduct(p) /\ Write(p)
          /\ IF p.stock # tab.row.stock
             THEN typed' = [typed EXCEPT !.stock = p.stock] /\ overtaken' = FALSE
             ELSE overtaken' = (overtaken \/ tab.sold # Sold) /\ UNCHANGED typed
    /\ UNCHANGED <<removal, wish, page, buying, orders>>

SavePackage ==
    /\ tab.name = "traffic" /\ tab.row # NotLoaded
    /\ \E p \in PackageForm(tab.row) :
          /\ ValidPackage(p) /\ Write(p)
          /\ typed' = IF p.gb \in Sizes THEN [typed EXCEPT !.gb = p.gb] ELSE typed
    /\ UNCHANGED <<overtaken, removal, wish, page, buying, orders>>

\* The scope of a code with a target is the kind of the target.
SaveCode ==
    /\ tab.name = "code" /\ tab.row # NotLoaded
    /\ \E c \in DiscountForm(tab.row) : ValidCode(c) /\ Write(Targeted(c, c.target))
    /\ UNCHANGED <<typed, overtaken, removal, wish, page, buying, orders>>

\* What a DELETE counts first: orders of the product, invoices of the package
\* (not the orders it was added to), uses of the code.
OrdersOfProduct == wish.kind = "product" /\ orders # <<>>
InvoicesOfPackage == wish.kind = "traffic" /\ orders # <<>>
UsesOfCode == Spent

Counts(name, used) ==
    /\ tab.name = name /\ tab.row # NotLoaded
    /\ removal.pc = "none" /\ rows[name].there = "yes"
    /\ removal' = [pc |-> "counted", used |-> used]
    /\ UNCHANGED <<rows, writes, typed, overtaken, tab, wish, page, buying, orders>>

CountOrders == Counts("product", OrdersOfProduct)
CountInvoices == Counts("traffic", InvoicesOfPackage)
CountUses == Counts("code", UsesOfCode)

\* The row goes, and with it the code that was only for it; orders keep no reference.
Deleted(name) ==
    /\ rows' = [n \in Tables |->
                  IF n = name \/ (n = "code" /\ rows[n].there = "yes" /\ rows[n].target = name)
                  THEN [there |-> "gone"] ELSE rows[n]]
    /\ orders' = IF wish.kind = name THEN [i \in DOMAIN orders |-> [orders[i] EXCEPT !.refers = FALSE]] ELSE orders

\* Mutant: what is used is deleted as well.
AlwaysDeletes(used) == TRUE

\* "deactivated: false".
Deletes(used) == ~used

Remove ==
    /\ removal.pc = "counted" /\ Written < MaxSaves
    /\ IF Deletes(removal.used)
       THEN Deleted(tab.name)
       ELSE /\ rows' = [rows EXCEPT ![tab.name].active = FALSE]
            /\ UNCHANGED orders
    /\ writes' = [writes EXCEPT ![tab.name] = @ + 1]
    /\ removal' = NoRemoval /\ tab' = [tab EXCEPT !.row = NotLoaded]
    /\ UNCHANGED <<typed, overtaken, wish, page, buying>>

-----------------------------------------------------------------------------
(* The pages of the customer.                                              *)

Price == rows[wish.kind].price + (IF wish.addon THEN rows["traffic"].price ELSE 0)
Seen == <<writes[wish.kind], IF wish.addon THEN writes["traffic"] ELSE 0>>

\* Active rows only, and a product that is in stock.
Listed(kind) == OnSale(kind) /\ (kind = "product" => rows["product"].stock > 0)

Loads ==
    /\ ~page.open /\ Listed(wish.kind)
    /\ wish.addon => OnSale("traffic")
    /\ page' = [open |-> TRUE, total |-> Price, seen |-> Seen, applied |-> FALSE,
                 without |-> [total |-> Price, seen |-> Seen]]
    /\ UNCHANGED <<rows, writes, typed, overtaken, tab, removal, wish, buying, orders>>

\* The shop of the portal, and the dialog over a product or a package.
PortalShopPage == wish.at = "portal" /\ Loads

\* The page of the product in the public shop, with or without traffic added to it.
StoreProductPage == wish.at = "store" /\ Loads

\* validateDiscount, for a purchase of this kind; each customer uses the code once.
Accepted(kind) ==
    /\ OnSale("code")
    /\ rows["code"].scope \in {"all", kind}
    /\ rows["code"].target \in {"none", kind}
    /\ ~Spent
Off(subtotal) == Min({rows["code"].amount, subtotal})

\* The code is checked for the portal before the purchase; the two queries are taken together.
Apply ==
    /\ wish.at = "portal" /\ page.open /\ ~page.applied /\ buying.pc = "none"
    /\ OnSale(wish.kind) /\ Accepted(wish.kind)
    /\ page' = [page EXCEPT !.applied = TRUE, !.total = Price - Off(Price), !.seen = Append(Seen, writes["code"])]
    /\ UNCHANGED <<rows, writes, typed, overtaken, tab, removal, wish, buying, orders>>

\* The code is taken off again: the page shows what it had loaded.
WithoutCode == [page EXCEPT !.applied = FALSE, !.total = page.without.total, !.seen = page.without.seen]

TakeOff ==
    /\ page.applied /\ buying.pc = "none"
    /\ page' = WithoutCode
    /\ UNCHANGED <<rows, writes, typed, overtaken, tab, removal, wish, buying, orders>>

\* The page is closed or loaded anew, before the purchase or once its invoice is there.
Leave ==
    /\ page.open /\ buying.pc \in {"none", "billed"}
    /\ page' = NoPage /\ buying' = NoPurchase
    /\ UNCHANGED <<rows, writes, typed, overtaken, tab, removal, wish, orders>>

-----------------------------------------------------------------------------
(* The purchase.                                                           *)

Sends(code) ==
    /\ page.open /\ buying.pc = "none" /\ Len(orders) < MaxOrders
    /\ buying' = [NoPurchase EXCEPT !.pc = "rows", !.code = code]
    /\ UNCHANGED <<rows, writes, typed, overtaken, tab, removal, wish, page, orders>>

\* The portal sends the code it has had checked, the public shop what was typed.
BuyPackage == wish.at = "portal" /\ wish.kind = "traffic" /\ Sends(page.applied)
BuyProduct == wish.at = "portal" /\ wish.kind = "product" /\ Sends(page.applied)
Submit == wish.at = "store" /\ \E code \in BOOLEAN : Sends(code)

\* In the portal the dialog closes, with the code; the rest of the page stays as it was loaded.
Refused ==
    /\ buying' = NoPurchase /\ page' = WithoutCode
    /\ UNCHANGED <<rows, writes, typed, overtaken, tab, removal, wish, orders>>

\* The product and the package added to it, or the package, as they are now.
ReadRows ==
    /\ buying.pc = "rows"
    /\ IF Listed(wish.kind) /\ (wish.addon => OnSale("traffic"))
       THEN /\ buying' = [buying EXCEPT !.pc = "code", !.price = Price, !.seen = Seen]
            /\ UNCHANGED <<rows, writes, typed, overtaken, tab, removal, wish, page, orders>>
       ELSE Refused

\* Mutant: a code that is not valid is passed over.
PassedOver(kind) == FALSE

\* A code that is not valid stops the purchase.
Stops(kind) == ~Accepted(kind)

ReadCode ==
    /\ buying.pc = "code"
    /\ IF buying.code /\ Stops(wish.kind)
       THEN Refused
       ELSE /\ buying' = [buying EXCEPT !.pc = "insert",
                             !.off = IF buying.code /\ Accepted(wish.kind) THEN Off(buying.price) ELSE 0,
                             !.seen = IF buying.code THEN Append(@, writes["code"]) ELSE @]
            /\ UNCHANGED <<rows, writes, typed, overtaken, tab, removal, wish, page, orders>>

\* settleInvoice: a unit less, not below none.
Sell == IF wish.kind = "product" /\ rows["product"].there = "yes" THEN [rows EXCEPT !["product"].stock = Max({@ - 1, 0})] ELSE rows
Tally == IF wish.kind = "product" THEN [typed EXCEPT !.stock = Max({@ - 1, 0})] ELSE typed

\* The order and its invoice; a row that is gone meanwhile fails a foreign key.
\* Nothing to pay is settled at once.
Referred == {wish.kind} \union (IF wish.addon THEN {"traffic"} ELSE {}) \union (IF buying.code THEN {"code"} ELSE {})
Gone == \E n \in Referred : rows[n].there = "gone"

Insert ==
    /\ buying.pc = "insert"
    /\ \/ Gone /\ Refused
       \/ LET free == buying.price = buying.off
          IN  /\ ~Gone
              /\ orders' = Append(orders, [code |-> buying.code, paid |-> free, refers |-> TRUE,
                                           crossed |-> removal.pc = "counted" /\ tab.name = wish.kind])
              /\ rows' = IF free THEN Sell ELSE rows
              /\ typed' = IF free THEN Tally ELSE typed
              /\ buying' = [buying EXCEPT !.pc = "billed"]
              /\ UNCHANGED <<writes, overtaken, tab, removal, wish, page>>

\* The gateway refuses, and the page of the portal is there again.
GatewayFails ==
    /\ wish.at = "portal" /\ buying.pc = "billed"
    /\ Refused

Pay ==
    /\ \E i \in DOMAIN orders \ Paid : orders' = [orders EXCEPT ![i].paid = TRUE]
    /\ rows' = Sell /\ typed' = Tally
    /\ UNCHANGED <<writes, overtaken, tab, removal, wish, page, buying>>

Panel ==
    \/ ShownProducts \/ Packages \/ Discounts \/ SaveProduct \/ SavePackage \/ SaveCode
    \/ CountOrders \/ CountInvoices \/ CountUses \/ Remove
Customer ==
    \/ PortalShopPage \/ StoreProductPage \/ Apply \/ TakeOff \/ Leave \/ BuyPackage \/ BuyProduct \/ Submit
    \/ ReadRows \/ ReadCode \/ Insert \/ GatewayFails \/ Pay

Next == Panel \/ Customer

Spec == Init /\ [][Next]_vars

-----------------------------------------------------------------------------
\* The check before the purchase and the purchase agree (lib/discounts.ts:10-13):
\* unless an admin wrote one of the rows after the page had read it, the amount
\* asked is the amount shown, and in the public shop, which shows no discount, not more.
AskedAsShown ==
    LET unseen == wish.at = "store" /\ buying.code
        asked == buying.price - buying.off
    IN  buying.pc = "billed" /\ page.seen = (IF unseen THEN SubSeq(buying.seen, 1, 2) ELSE buying.seen) =>
            IF unseen THEN asked <= page.total ELSE asked = page.total

\* An order keeps its reference to what was bought (api/products/route.ts:11-14),
\* unless it was placed between the two statements of the DELETE.
ReferenceKept == \A i \in DOMAIN orders : ~orders[i].refers => orders[i].crossed

\* The stock is what was last typed less what was paid since, unless a form that
\* was opened before a payment was saved after it: it writes the old stock back.
StockKept == rows["product"].there = "yes" /\ ~overtaken => rows["product"].stock = typed.stock

\* The form shows hundredths of a terabyte and sends them back: however often it is
\* saved, a package stays within half a hundredth of the size that was typed.
SizeKept == rows["traffic"].there = "yes" => rows["traffic"].gb - typed.gb \in -512..512

CatalogueHolds == AskedAsShown /\ ReferenceKept /\ StockKept /\ SizeKept
=============================================================================
