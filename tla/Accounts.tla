------------------------------ MODULE Accounts ------------------------------
(***************************************************************************)
(* Customers and their logins (lib/register.ts, api/store/checkout,        *)
(* api/customers): a visitor of the shop orders as who is signed in, signs *)
(* in or registers on the way; admins make, change and delete customers    *)
(* and give them logins.  Queries that others can come between are steps    *)
(* of their own, a transaction is one step, and the web process may stop   *)
(* between any two.  Passwords are right or wrong; names of logins are     *)
(* telephone numbers or chosen.                                            *)
(***************************************************************************)
EXTENDS Naturals, Sequences

CONSTANTS
    Visitors,
    Phones,
    Names,          \* what an admin may choose as the name of a login
    NoPhone,
    MaxCustomers, MaxEvents   \* bounds: customers ever made, acts of admins

AccountsAssumption ==
    /\ NoPhone \notin Phones \union Names
    /\ {MaxCustomers, MaxEvents} \subseteq Nat

VARIABLES
    customers,   \* customers by id: phone, made by the store or an admin, active, deleted
    users,       \* logins: name, customer, active
    session,     \* of each visitor: the customer that the cookie names, 0 for nobody
    req,         \* of each visitor: the order being placed
    put,         \* a request of an admin between its two statements
    orders,      \* orders placed: visitor, customer, and the number or name that was entered
    events

vars == <<customers, users, session, req, put, orders, events>>

Idle == [pc |-> "idle", mode |-> "session", name |-> NoPhone, customer |-> 0]
NoPut == [pc |-> "idle", id |-> 0, name |-> NoPhone]

Init ==
    /\ customers = <<>> /\ users = {}
    /\ session = [v \in Visitors |-> 0]
    /\ req = [v \in Visitors |-> Idle]
    /\ put = NoPut
    /\ orders = {} /\ events = 0

Alive == {i \in DOMAIN customers : ~customers[i].deleted}
Ours(ph) == {i \in Alive : customers[i].phone = ph}
Logins(name) == {u \in users : u.name = name}

-----------------------------------------------------------------------------
(* The checkout of the shop.                                               *)

\* The two SELECTs of registerCustomer, taken together: what comes between them
\* and the INSERTs is met by the indexes in any case.
Known(ph) == Ours(ph) # {} \/ Logins(ph) # {}

Begin(v) ==
    /\ req[v].pc = "idle"
    /\ \/ req' = [req EXCEPT ![v] = [Idle EXCEPT !.pc = "session"]]
       \/ \E n \in Phones \union Names : req' = [req EXCEPT ![v] = [Idle EXCEPT !.pc = "login", !.mode = "login", !.name = n]]
       \/ \E n \in Phones : req' = [req EXCEPT ![v] = [Idle EXCEPT !.pc = "register", !.mode = "register", !.name = n]]
    /\ UNCHANGED <<customers, users, session, put, orders, events>>

Session(v) ==
    /\ req[v].pc = "session"
    /\ req' = [req EXCEPT ![v] = IF session[v] = 0 THEN Idle ELSE [@ EXCEPT !.pc = "order", !.customer = session[v]]]
    /\ UNCHANGED <<customers, users, session, put, orders, events>>

\* The account is read, its password compared, and the cookie set.
Login(v) ==
    /\ req[v].pc = "login"
    /\ \/ /\ req' = [req EXCEPT ![v] = Idle]
          /\ UNCHANGED session
       \/ \E u \in Logins(req[v].name) :
             /\ u.active
             /\ session' = [session EXCEPT ![v] = u.customer]
             /\ req' = [req EXCEPT ![v] = [@ EXCEPT !.pc = "order", !.customer = u.customer]]
    /\ UNCHANGED <<customers, users, put, orders, events>>

\* Whether the number is known is looked up before the password is hashed.
LookUp(v) ==
    /\ req[v].pc = "register"
    /\ req' = [req EXCEPT ![v] = IF Known(@.name) THEN Idle ELSE [@ EXCEPT !.pc = "insert"]]
    /\ UNCHANGED <<customers, users, session, put, orders, events>>

\* Mutant: the index on the numbers of customers is not there.
TakenByLogin(ph) == Logins(ph) # {}

\* customers_phone_uq and the unique name of users.
Taken(ph) == Ours(ph) # {} \/ Logins(ph) # {}

\* Both rows in one transaction, or neither.
Insert(v) ==
    /\ req[v].pc = "insert"
    /\ IF Taken(req[v].name)
       THEN /\ req' = [req EXCEPT ![v] = Idle]
            /\ UNCHANGED <<customers, users, session>>
       ELSE /\ Len(customers) < MaxCustomers
            /\ LET id == Len(customers) + 1
               IN  /\ customers' = Append(customers, [phone |-> req[v].name, store |-> TRUE, active |-> TRUE, deleted |-> FALSE])
                   /\ users' = users \union {[name |-> req[v].name, customer |-> id, active |-> TRUE]}
                   /\ session' = [session EXCEPT ![v] = id]
                   /\ req' = [req EXCEPT ![v] = [@ EXCEPT !.pc = "order", !.customer = id]]
    /\ UNCHANGED <<put, orders, events>>

\* createProductOrder: refused when the customer is gone by now.
Order(v) ==
    /\ req[v].pc = "order"
    /\ orders' = IF req[v].customer \in Alive
                 THEN orders \union {[visitor |-> v, customer |-> req[v].customer, mode |-> req[v].mode, name |-> req[v].name]}
                 ELSE orders
    /\ req' = [req EXCEPT ![v] = Idle]
    /\ UNCHANGED <<customers, users, session, put, events>>

-----------------------------------------------------------------------------
(* The panel.                                                              *)

Event == events < MaxEvents /\ events' = events + 1

\* POST /api/customers; a number that another customer has is refused by the index.
AddCustomer(ph) ==
    /\ Event /\ Len(customers) < MaxCustomers
    /\ ph = NoPhone \/ Ours(ph) = {}
    /\ customers' = Append(customers, [phone |-> ph, store |-> FALSE, active |-> TRUE, deleted |-> FALSE])
    /\ UNCHANGED <<users, session, req, put, orders>>

\* PATCH: who is made inactive loses the login next; made active again, it stays lost.
EditCustomer(i, ph, active) ==
    /\ Event /\ put.pc = "idle"
    /\ ph = NoPhone \/ Ours(ph) \subseteq {i}
    /\ customers' = [customers EXCEPT ![i].phone = ph, ![i].active = active]
    /\ put' = IF active THEN NoPut ELSE [NoPut EXCEPT !.pc = "deactivate", !.id = i]
    /\ UNCHANGED <<users, session, req, orders>>

Deactivate ==
    /\ put.pc = "deactivate"
    /\ users' = {IF u.customer = put.id THEN [u EXCEPT !.active = FALSE] ELSE u : u \in users}
    /\ put' = NoPut
    /\ UNCHANGED <<customers, session, req, orders, events>>

\* DELETE: the logins and the orders go with the customer.
DeleteCustomer(i) ==
    /\ Event
    /\ customers' = [customers EXCEPT ![i].deleted = TRUE]
    /\ users' = {u \in users : u.customer # i}
    /\ orders' = {o \in orders : o.customer # i}
    /\ UNCHANGED <<session, req, put>>

\* PUT: the login is changed, or one is about to be made.
GiveLogin(i, n, active) ==
    /\ Event /\ put.pc = "idle"
    /\ IF \E u \in users : u.customer = i
       THEN /\ users' = {IF u.customer = i THEN [u EXCEPT !.active = active] ELSE u : u \in users}
            /\ UNCHANGED put
       ELSE /\ Logins(n) = {}
            /\ put' = [pc |-> "insert", id |-> i, name |-> n]
            /\ UNCHANGED users
    /\ UNCHANGED <<customers, session, req, orders>>

\* The row is refused if the name, or a login of the customer, came meanwhile.
InsertLogin ==
    /\ put.pc = "insert"
    /\ users' = IF put.id \in Alive /\ Logins(put.name) = {} /\ ~\E u \in users : u.customer = put.id
                THEN users \union {[name |-> put.name, customer |-> put.id, active |-> TRUE]}
                ELSE users
    /\ put' = NoPut
    /\ UNCHANGED <<customers, session, req, orders, events>>

\* The web process restarts: what was under way is gone, cookies are not.
Restart ==
    /\ Event
    /\ req' = [v \in Visitors |-> Idle]
    /\ put' = NoPut
    /\ UNCHANGED <<customers, users, session, orders>>

Panel ==
    \/ \E ph \in Phones \union {NoPhone} : AddCustomer(ph)
    \/ \E i \in Alive, ph \in Phones \union {NoPhone}, active \in BOOLEAN : EditCustomer(i, ph, active)
    \/ \E i \in Alive : DeleteCustomer(i)
    \/ \E i \in Alive, n \in Phones \union Names, active \in BOOLEAN : GiveLogin(i, n, active)
    \/ InsertLogin \/ Deactivate

Checkout(v) == Begin(v) \/ Session(v) \/ Login(v) \/ LookUp(v) \/ Insert(v) \/ Order(v)

Next == Panel \/ Restart \/ \E v \in Visitors : Checkout(v)

Spec == Init /\ [][Next]_vars

-----------------------------------------------------------------------------

\* Whoever registers, changes or deletes at the same time and whenever the
\* process stops, a customer that the shop has made has a login until it is
\* deleted, so that it can come back to its order; and a number never belongs to two
\* customers, nor a name to two logins.
AccountsWhole ==
    /\ \A i \in Alive : customers[i].store => \E u \in users : u.customer = i
    /\ \A ph \in Phones : \A i, j \in Ours(ph) : i = j
    /\ \A u, w \in users : u.name = w.name \/ u.customer = w.customer => u = w
    /\ \A u \in users : u.customer \in Alive
=============================================================================
