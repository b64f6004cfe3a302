------------------------------- MODULE Quota --------------------------------
(***************************************************************************)
(* The traffic a customer has bought for a server and the two notices about *)
(* it: nine tenths used, and all used (worker/customer-alerts.mjs,         *)
(* api/topups, lib/invoices.ts, api/orders).  The balance is what was      *)
(* bought less what was used since the first purchase.  A notice is        *)
(* claimed in customer_notices before it goes out; a purchase clears the   *)
(* claims.  The worker reads all servers in one query and then goes        *)
(* through them, sending messages, while purchases go on.                  *)
(***************************************************************************)
EXTENDS Naturals, Sequences, FiniteSets, SequencesExt

CONSTANTS
    Package,                              \* size of what is sold; ten of its tenths
    Steps,                                \* what a server may use between two readings
    MaxBought, MaxDeleted, MaxUsed, MaxCrashes  \* bounds: purchases, rows deleted, usage, restarts of the worker

QuotaAssumption == {Package, MaxBought, MaxDeleted, MaxUsed, MaxCrashes} \subseteq Nat /\ Package > 0 /\ Steps \subseteq Nat \ {0}

VARIABLES
    topups,    \* traffic_topups of the server, in order; 0 where the row was deleted
    counted,   \* traffic_counted_from is set
    used,      \* usage measured since then
    notices,   \* customer_notices of the server: the kinds claimed
    order,     \* the hand-over of an order with traffic: "paid", "claimed", "added", "done"
    form,      \* what an admin enters by hand: "blank", what was sent, "refused"
    round,     \* the worker: where it is, what it read, the notice it has claimed
    sent,      \* history: notices of each kind sent
    cleared,   \* history: how often the claims were cleared
    crashes

vars == <<topups, counted, used, notices, order, form, round, sent, cleared, crashes>>

Kinds == {"quota_90", "quota_100"}
Resting == [pc |-> "rest", purchased |-> 0, used |-> 0, kind |-> "none"]

Init ==
    /\ topups = <<>> /\ counted = FALSE /\ used = 0
    /\ notices = {}
    /\ order = "paid" /\ form = "blank"
    /\ round = Resting
    /\ sent = [k \in Kinds |-> 0] /\ cleared = 0
    /\ crashes = 0

\* BALANCE_SQL: everything bought, and what was used since counting began.
Purchased == FoldSeq(LAMBDA gb, sum : gb + sum, 0, topups)

-----------------------------------------------------------------------------
(* The server uses traffic; traffic is bought.                             *)

\* What is used before the first purchase is not held against the customer.
Use ==
    /\ counted
    /\ \E gb \in Steps :
          /\ used + gb <= MaxUsed
          /\ used' = used + gb
    /\ UNCHANGED <<topups, counted, notices, order, form, round, sent, cleared, crashes>>

\* settleInvoice of a package: the traffic, the beginning of the counting and
\* the clearing of the claims are one transaction.
PayPackage ==
    /\ Len(topups) < MaxBought
    /\ topups' = Append(topups, Package)
    /\ counted' = TRUE
    /\ notices' = {} /\ cleared' = cleared + 1
    /\ UNCHANGED <<used, order, form, round, sent, crashes>>

\* The hand-over of an order claims its traffic, then adds it, then begins to count.
ClaimAddon ==
    /\ order = "paid"
    /\ order' = "claimed"
    /\ UNCHANGED <<topups, counted, used, notices, form, round, sent, cleared, crashes>>

AddAddon ==
    /\ order = "claimed" /\ Len(topups) < MaxBought
    /\ topups' = Append(topups, Package)
    /\ order' = "added"
    /\ UNCHANGED <<counted, used, notices, form, round, sent, cleared, crashes>>

CountAddon ==
    /\ order = "added"
    /\ counted' = TRUE
    /\ order' = "done"
    /\ UNCHANGED <<topups, used, notices, form, round, sent, cleared, crashes>>

\* An admin deletes a row that was entered by mistake.
DeleteTopup ==
    /\ Cardinality({i \in DOMAIN topups : topups[i] = 0}) < MaxDeleted
    /\ \E i \in DOMAIN topups : topups[i] > 0 /\ topups' = [topups EXCEPT ![i] = 0]
    /\ UNCHANGED <<counted, used, notices, order, form, round, sent, cleared, crashes>>

\* An admin records a purchase made elsewhere.
SendForm ==
    /\ form = "blank"
    /\ form' = "purchase"
    /\ UNCHANGED <<topups, counted, used, notices, order, round, sent, cleared, crashes>>

\* An admin records what was used before the panel, and from when it is to count.
SendOpening ==
    /\ form = "blank"
    /\ form' = "opening"
    /\ UNCHANGED <<topups, counted, used, notices, order, round, sent, cleared, crashes>>

\* POST /api/topups: "!serverId !== null" compares a boolean with null, so that
\* the server is missing whatever was chosen, and nothing after it is reached.
Answer ==
    /\ form = "purchase"
    /\ form' = "refused"
    /\ UNCHANGED <<topups, counted, used, notices, order, round, sent, cleared, crashes>>

\* PUT /api/topups compares the same way: neither number is ever stored.
AnswerOpening ==
    /\ form = "opening"
    /\ form' = "refused"
    /\ UNCHANGED <<topups, counted, used, notices, order, round, sent, cleared, crashes>>

-----------------------------------------------------------------------------
(* The worker.                                                             *)

\* The query over all servers.
Read ==
    /\ round.pc = "rest"
    /\ round' = [Resting EXCEPT !.pc = "look", !.purchased = Purchased, !.used = used]
    /\ UNCHANGED <<topups, counted, used, notices, order, form, sent, cleared, crashes>>

\* The notice for what was read, if any.
Due ==
    IF round.purchased = 0 \/ round.used * 10 < round.purchased * 9 THEN "none"
    ELSE IF round.used >= round.purchased THEN "quota_100" ELSE "quota_90"

\* Mutant: the row is inserted without looking whether there is one.
FreshAlways(k) == k # "none"

\* INSERT ... ON CONFLICT DO NOTHING RETURNING id gives a row.
Fresh(k) == k # "none" /\ k \notin notices

Look ==
    /\ round.pc = "look"
    /\ IF Fresh(Due)
       THEN /\ notices' = notices \union {Due}
            /\ round' = [round EXCEPT !.pc = "send", !.kind = Due]
       ELSE /\ round' = Resting
            /\ UNCHANGED notices
    /\ UNCHANGED <<topups, counted, used, order, form, sent, cleared, crashes>>

Send ==
    /\ round.pc = "send"
    /\ sent' = [sent EXCEPT ![round.kind] = @ + 1]
    /\ round' = Resting
    /\ UNCHANGED <<topups, counted, used, notices, order, form, cleared, crashes>>

Crash ==
    /\ round.pc # "rest" /\ crashes < MaxCrashes
    /\ round' = Resting
    /\ crashes' = crashes + 1
    /\ UNCHANGED <<topups, counted, used, notices, order, form, sent, cleared>>

Round == Read \/ Look \/ Send

Office == PayPackage \/ ClaimAddon \/ AddAddon \/ CountAddon \/ DeleteTopup
    \/ SendForm \/ SendOpening \/ Answer \/ AnswerOpening

Next == Use \/ Office \/ Round \/ Crash

Spec == Init /\ [][Next]_vars /\ WF_vars(Round) /\ WF_vars(Answer \/ AnswerOpening) /\ WF_vars(AddAddon \/ CountAddon)

-----------------------------------------------------------------------------

\* However readings, restarts and purchases fall together, a notice of a kind
\* goes out once, and again only after a purchase has cleared the claims.
OncePerPurchase == \A k \in Kinds : sent[k] <= 1 + cleared
=============================================================================
