------------------------------- MODULE MCShop -------------------------------
(* Small instances of the customers' side for TLC: purchases and their      *)
(* hand-over (Shop), and beside them the notices of traffic, the accounts   *)
(* and the shop window: in a behaviour only the part in focus moves.        *)
EXTENDS Shop, TLC

CONSTANTS q1, q2, q3, c1, c2

CONSTANTS
    Package, Steps, MaxBought, MaxDeleted, MaxUsed,        \* Quota
    Visitors, Phones, Names, NoPhone, MaxCustomers, MaxEvents,  \* Accounts
    Prices, Amounts, Sizes, Stocks, MaxSaves, MaxOrders    \* Storefront

(* q1 and q2 are of one customer, q3 of another. *)
TwoOwners == [q \in Purchases |-> IF q = q3 THEN c2 ELSE c1]

Symmetry == Permutations(Admins)

VARIABLES
    focus,
    qtopups, qcounted, used, notices, qorder, form, round, sent, cleared, qcrashes,      \* Quota
    customers, users, session, req, put, orders, events,                                \* Accounts
    goods, writes, typed, overtaken, tab, removal, wish, page, buying, bought            \* Storefront

Q == INSTANCE Quota WITH topups <- qtopups, counted <- qcounted, order <- qorder, crashes <- qcrashes
A == INSTANCE Accounts
F == INSTANCE Storefront WITH rows <- goods, orders <- bought

ASSUME FrontAssumption == Q!QuotaAssumption /\ A!AccountsAssumption /\ F!StorefrontAssumption

qvars == <<qtopups, qcounted, used, notices, qorder, form, round, sent, cleared, qcrashes>>
avars == <<customers, users, session, req, put, orders, events>>
fvars == <<goods, writes, typed, overtaken, tab, removal, wish, page, buying, bought>>

\* One beginning of the parts that are not in focus.
FrontInit ==
    /\ focus \in {"shop", "quota", "accounts", "storefront"}
    /\ Init /\ Q!Init /\ A!Init
    /\ F!Init /\ (focus = "storefront" \/ (tab.name = "code" /\ ~wish.addon /\ wish.kind = "traffic"
                                            /\ goods["product"].price = 2 /\ goods["traffic"].price = 2))

OnlyShop == focus = "shop" /\ UNCHANGED <<focus, qvars, avars, fvars>>
OnlyQuota == focus = "quota" /\ UNCHANGED <<focus, vars, avars, fvars>>
OnlyAccounts == focus = "accounts" /\ UNCHANGED <<focus, vars, qvars, fvars>>
OnlyStorefront == focus = "storefront" /\ UNCHANGED <<focus, vars, qvars, avars>>

FrontNext ==
    \/ OnlyShop /\ Next
    \/ OnlyQuota /\ Q!Next
    \/ OnlyAccounts /\ A!Next
    \/ OnlyStorefront /\ F!Next

FrontSpec == FrontInit /\ [][FrontNext]_<<focus, vars, qvars, avars, fvars>>

-----------------------------------------------------------------------------
(* The properties of the parts, each stated in its module.                 *)

\* Each notice of traffic goes out once in a purchase.
OncePerPurchase == focus = "quota" => Q!OncePerPurchase
\* A customer of the store can sign in, and only to an account of its own.
AccountsWhole == focus = "accounts" => A!AccountsWhole
\* The purchase asks what the page showed, and what is sold keeps its reference, stock and size.
CatalogueHolds == focus = "storefront" => F!CatalogueHolds
=============================================================================
