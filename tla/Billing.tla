------------------------------- MODULE Billing ------------------------------
(***************************************************************************)
(* What a server costs in one month (lib/billing.ts, lib/billing-data.ts,  *)
(* api/billing, api/traffic/backfill).  Traffic is kept by day; the page   *)
(* shows the cost of the month and, beside it, the cost of every day that  *)
(* has come.  An admin who has only the total of some days enters it as a  *)
(* range, which is spread over them one row at a time.                     *)
(* Traffic is counted in units of one terabyte; the unit itself (1000 or   *)
(* 1024 to the fourth) multiplies every figure alike.  The rent is given   *)
(* by day, so that a month is a multiple of it.                            *)
(***************************************************************************)
EXTENDS Integers, FiniteSets, Functions

CONSTANTS
    Days,          \* how many days the month has
    Datacenters,   \* the rates a datacenter may have
    Overrides,     \* what a server may have of its own: the same fields, None where it has nothing
    None,
    Traffic,       \* what an agent may measure in a day: received and sent
    Totals,        \* what is entered for a range: received and sent
    MaxRanges      \* bound: ranges entered

BillingAssumption ==
    /\ Days \in Nat \ {0} /\ MaxRanges \in Nat
    /\ \A t \in Traffic \union Totals : t.rx \in Nat /\ t.tx \in Nat

VARIABLES
    today,    \* the day it is
    rates,    \* datacenter, server: what they are now
    usage,    \* server_metrics_daily: received, sent, source; "none" where there is no row
    form,     \* a range being stored (one admin's at a time): its days, those left, the total
    ranges    \* ranges entered so far

vars == <<today, rates, usage, form, ranges>>

Month == 1 .. Days
Idle == [left |-> {}, targets |-> {}, total |-> [rx |-> 0, tx |-> 0]]

Init ==
    /\ today = 1
    /\ rates \in [datacenter : Datacenters, server : Overrides]
    /\ usage = [d \in Month |-> [rx |-> 0, tx |-> 0, source |-> "none"]]
    /\ form = Idle /\ ranges = 0

-----------------------------------------------------------------------------
(* lib/billing.ts                                                          *)

\* What the server has of its own comes before what its datacenter has; zero is a value.
EffectiveRates(server, dc) ==
    [f \in DOMAIN dc |-> IF f \in DOMAIN server /\ server[f] # None THEN server[f] ELSE dc[f]]

BillableBytes(u, direction) ==
    CASE direction = "out" -> u.tx
      [] direction = "in" -> u.rx
      [] direction = "max" -> IF u.rx > u.tx THEN u.rx ELSE u.tx
      [] OTHER -> u.rx + u.tx

Total(f) == FoldFunction(+, 0, f)

Excess(n, free) == IF n > free THEN n - free ELSE 0

MonthCost(u, ips, r) ==
    [traffic |-> Excess(BillableBytes(u, r.direction), r.included_tb) * r.price_per_tb,
     fixed |-> Excess(ips, r.included_ips) * r.price_per_ip + r.rent]

\* Mutant: a day that crosses the quota is charged whole.
WholeDay(before, day, included) == IF before + day > included THEN day ELSE 0

\* The part of a day that is beyond the quota of the month.
OverBytes(before, day, included) ==
    IF before + day <= included THEN 0
    ELSE IF before >= included THEN day ELSE before + day - included

Before(us, d, direction) == Total([e \in 1 .. d - 1 |-> BillableBytes(us[e], direction)])

\* What each day costs: its traffic, and its share of the addresses and of the rent, in
\* parts of the month (the share of a day is fixed / Days).
DailyCosts(us, ips, r) ==
    [d \in Month |->
        [traffic |-> OverBytes(Before(us, d, r.direction), BillableBytes(us[d], r.direction), r.included_tb) * r.price_per_tb,
         fixed |-> Excess(ips, r.included_ips) * r.price_per_ip + r.rent]]

-----------------------------------------------------------------------------
(* lib/billing-data.ts and api/billing.                                    *)

MonthUsage == [rx |-> Total([d \in Month |-> usage[d].rx]), tx |-> Total([d \in Month |-> usage[d].tx])]

CurrentRates == EffectiveRates(rates.server, rates.datacenter)

Monthly == MonthCost(MonthUsage, CurrentRates.ips, CurrentRates)

\* Every day is given to the calculation, the days that have come are shown.
Daily == LET costs == DailyCosts(usage, CurrentRates.ips, CurrentRates) IN [d \in 1 .. today |-> costs[d]]

DailyTraffic == Total([d \in DOMAIN Daily |-> Daily[d].traffic])
\* Shares are in parts of the month.
DailyFixed == Total([d \in DOMAIN Daily |-> Daily[d].fixed]) \div Days

-----------------------------------------------------------------------------
NextDay ==
    /\ today < Days
    /\ today' = today + 1
    /\ UNCHANGED <<rates, usage, form, ranges>>

\* The roll-up writes the rows of today and of the three days before it, each
\* when its hours have more; a row of another source is left alone.
Rollup(d, t) ==
    /\ today - 3 <= d /\ d <= today
    /\ usage[d].source \in {"none", "agent"}
    /\ t.rx >= usage[d].rx /\ t.tx >= usage[d].tx
    /\ usage' = [usage EXCEPT ![d] = [rx |-> t.rx, tx |-> t.tx, source |-> "agent"]]
    /\ UNCHANGED <<today, rates, form, ranges>>

\* Rates hold for the whole month, whenever they are changed.
EditRates ==
    /\ rates' \in [datacenter : Datacenters, server : Overrides]
    /\ UNCHANGED <<today, usage, form, ranges>>

\* What a day of a range gets; the remainder is put on the last.
Split(total, targets, d) ==
    (total \div Cardinality(targets)) + (IF \A e \in targets : e <= d THEN total % Cardinality(targets) ELSE 0)

\* Only days that have come; days with a measurement only if asked for.
RangeStart(from, to, t, overwrite) ==
    /\ form = Idle /\ ranges < MaxRanges
    /\ from <= to /\ t.rx + t.tx > 0
    /\ LET targets == {d \in from .. to : d <= today /\ (overwrite \/ usage[d].source # "agent")}
       IN  targets # {} /\ form' = [left |-> targets, targets |-> targets, total |-> t]
    /\ ranges' = ranges + 1
    /\ UNCHANGED <<today, rates, usage>>

\* One row at a time, from the first day on.
RangeWrite ==
    \E d \in form.left :
        /\ \A e \in form.left : d <= e
        /\ usage' = [usage EXCEPT ![d] = [rx |-> Split(form.total.rx, form.targets, d),
                                         tx |-> Split(form.total.tx, form.targets, d), source |-> "manual_range"]]
        /\ form' = [form EXCEPT !.left = @ \ {d}]
        /\ UNCHANGED <<today, rates, ranges>>

\* The answer of a range that was stored whole; or of one that failed on the way.
RangeAnswered == form # Idle /\ form.left = {} /\ form' = Idle /\ UNCHANGED <<today, rates, usage, ranges>>
RangeFails == form.left # {} /\ form' = Idle /\ UNCHANGED <<today, rates, usage, ranges>>

Next ==
    \/ NextDay \/ EditRates \/ RangeWrite \/ RangeAnswered \/ RangeFails
    \/ \E d \in Month, t \in Traffic : Rollup(d, t)
    \/ \E from, to \in Month, t \in Totals, overwrite \in BOOLEAN : RangeStart(from, to, t, overwrite)

Spec == Init /\ [][Next]_vars

-----------------------------------------------------------------------------
\* When the month is over the days add up to the month, unless the dearer of the
\* two directions is charged: then the days may only come to more.  Before that the
\* traffic of the days shown is that of the month.  A range stored whole is in the
\* rows to the last byte, whatever the agent has measured on the way.
DaysAddUp ==
    /\ IF CurrentRates.direction = "max" THEN DailyTraffic >= Monthly.traffic ELSE DailyTraffic = Monthly.traffic
    /\ today = Days => DailyFixed = Monthly.fixed
    /\ form # Idle /\ form.left = {} =>
         /\ Total([d \in form.targets |-> usage[d].rx]) = form.total.rx
         /\ Total([d \in form.targets |-> usage[d].tx]) = form.total.tx

=============================================================================
