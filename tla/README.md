# Pasargad Monitor: a TLA+ verification project

Pasargad Monitor manages, meters and bills dedicated servers. Three processes share one
PostgreSQL database: **web** (Next.js: panel, customer portal, public store, API), **worker**
(`worker/index.mjs`: about a dozen cycles in one Node process) and **agents** (Python scripts
on servers, probes and hypervisors) that report to the API over HTTP. Outside stand the PayPing
gateway, hypervisors (Virtualizor, SolusVM 2), switches, and the channels for SMS, e-mail and
Telegram.

Almost nothing runs inside a transaction: a handler or a cycle is a sequence of SQL statements
and external calls, and each statement commits by itself. The exception is `settleInvoice`. The
browser is part of the system too: pages hold copies of rows and send them back whole. So the
hard questions are all of one kind: *what can another actor, or a restart, do between two
statements?* The modules take every statement or external call whose place in that order matters
as one step, and let the actors interleave.

File paths below are relative to `src/`. The module comments name the code they model, and
`PROJECT.json` gives the lines of every definition.

Contents: [Inventory](#inventory) · [Modules](#modules) · [Runs](#runs) ·
[Fairness](#fairness) · [Proofs](#proofs) · [Where code and documents differ](#where-code-and-documents-differ) ·
[Met in reading](#met-in-reading) · [Not modelled](#not-modelled) · [Plan](#plan) · [Running it](#running-it)

## Inventory

### How the parts interact

```
 agents ── POST /api/ingest ──▶ server_metrics ─┐
 switches ◀─ poll (worker) ──▶ switch_port_metrics ─▶ roll-up ─▶ hourly, daily ─▶ quota, billing
     ▲  ▲── backups, file transfer, discovery of neighbours ─▶ versions, suggestions
     └── switch_actions ◀── panel
 probes ── POST /api/probe ──▶ verdict on an address ─▶ vz_sync_queue ─▶ worker ─▶ hypervisor
 hypervisor ── hourly import ──▶ ip_addresses ◀── panel
 worker: checks, thresholds ─▶ incidents ─▶ dispatch ─▶ channels ─▶ admin
 worker: renewals ─▶ invoices ◀─ shop (orders, packages, codes) ◀─ customer (login by code or password)
                       │ pay / return / verify ◀──▶ PayPing
                       ▼
            settleInvoice: order paid · stock · code used · traffic added · renewal date moved
                       ▼
            hand-over of the order (panel) ─▶ server, add-on traffic
 panel: broadcasts, announcements, tickets, settings, servers   portal: tickets, Telegram link
```

| Part | State it keeps | What is hard | What makes it correct |
|---|---|---|---|
| Payment and settlement (`lib/invoices.ts`, `api/pay/return`, `api/portal/invoices`, `worker/payping.mjs`) | `invoices`, the row lock, the gateway's payment | a status read without a lock before a gateway call; two returns at once; lost answers; restarts | delivered exactly once; paid is final; money the gateway accepts is never forgotten |
| Shop (`lib/shop-order.ts`, `lib/discounts.ts`, `api/orders`, `api/store/checkout`) | `orders`, `order_addons`, `products.stock`, `discount_codes`, `discount_uses`, `traffic_topups` | counters are read long before they are written; hand-overs overlap with each other and with cancellations | stock and code counters equal what was paid; an add-on is delivered once and only if paid |
| Shop window and catalogue (`api/store`, `api/products`, `api/packages`, `api/discounts` and their pages) | rows for sale, forms and pages that hold older copies | prices, stock and codes change under an open page | a purchase asks what the page showed or is refused; nothing sold loses its reference |
| Customers (`lib/register.ts`, `api/customers`) | `customers`, `users` | a phone number is looked up in two tables and inserted later | one account for a number; who bought can sign in |
| Incidents (`worker/checks.mjs`, `alerts.mjs`, `incidents.mjs`) | `incidents`, `servers.status` | two cycles and an admin on the same rows; a batch read early; restart between message and mark | one open row per outage; every row is told; no repetition in every cycle; acknowledged is silent |
| Renewals (`worker/invoices.mjs`, `customer-alerts.mjs`) | `servers.renews_at`, renewal `invoices` with a partial unique index, `customer_notices` | cycles act on a date they read before the messages of other servers; late payments; restarts | paid periods never overlap; one open invoice; told and reminded once; a due server is invoiced |
| Metering (`api/ingest`, `worker/switches.mjs`, `rollup.mjs`, `api/traffic/backfill`) | raw samples, hourly and daily tables, `count_since` | two meters for one volume; rows rewritten in place by several statements; late samples; the hour turns in between | nothing counted twice, nothing lost, usage never falls, hand entries stay |
| Quota notices (`customer-alerts.mjs`, `api/topups`) | `customer_notices`, `traffic_topups` | usage is a snapshot when the claim is made; purchases delete notices in between | one warning of each kind in a purchase |
| Iran access (`api/probe`, `worker/vz-sync.mjs`) | `ip_probe_state`, `iran_access_status`, `access_watch`, `vz_sync_queue` | reports of several probes judge the same address at once; a release in the middle of an apply; restarts | the admin is told what stands; no address drops out of sight; a released address leaves the anchor |
| Hypervisors (`worker/vz-sync.mjs`, `virtualizor.mjs`, `solusvm2.mjs`) | `ip_addresses`, `subnets`, anchors | lists read first and written later, over several requests that fail one by one | the import comes to rest with the truth; a write leaves every address somewhere |
| Switch polling and health (`worker/switches.mjs`, `snmp.mjs`, `nxapi.mjs`) | counters, port rows, incidents | lost columns, two names, counters that go round or restart; rows read before a reading of many seconds | never more traffic than the link can carry; a shut port is quiet; incidents agree with the switch in the end |
| Switch actions (`switches.mjs`, `api/switch-actions`) | `switch_actions` | restart between command and mark; ports numbered anew; protection changed in between | only the port asked for is shut, none that is protected; every request is answered |
| Backups, transfer, versions (`switches.mjs`, `transfer.mjs`, `lib/diff.ts`) | `switch_configs`, TFTP sessions, copy table | concurrent takers of the same history; datagrams lost, repeated, reordered | the newest version is the current one; the whole file or none; a difference shown is one |
| Suggestions of servers (`switch-match.mjs`, `port-modal.tsx`) | `suggested_server_id`, dismissals | everything is computed from rows read before | the only candidate is what the page offers |
| Broadcasts, tickets, announcements, Telegram, e-mail (`broadcasts.mjs`, `lib/tickets.ts`, `api/announcements`, `telegram-link.mjs`, `smtp.mjs`) | recipients, messages, readers, link codes, the SMTP dialogue | restart between message and mark; two statements for a message and its status; messages read again | each recipient once; a ticket waits on the right side; the last word of a chat counts |
| Signing in, limits, settings, servers (`lib/otp.ts`, `lib/rate-limit.ts`, `api/settings`, `api/servers`) | codes, cookies, counters, keys, rows | checks in queries of their own; forms that send back old copies | a code opens one session; an old form undoes nothing that was decided |
| Billing, calendar, periods, entry by hand (`lib/billing.ts`, `jalali.ts`, `period.ts`, `api/traffic/backfill`) | hand-entered days; otherwise pure functions | month lengths, start days, splits of totals | days sum to their month; every day has one date |

`PROJECT.json` lists every component, also those that are I/O or layout, with what is modelled of it
and the reason for what is left out; and the hazards of the code, each at its line, with the
properties that watch it.

## Modules

One module per component; proofs in a module of their own that extends it. The parts whose state
space is large have runs of their own; the others are checked beside one another in MC modules,
where `focus` says which part moves in a behaviour (or each step moves one), so that one run holds
many small instances. The bounds of those that are proved about are constants of the MC module with
their values in the `.cfg`, so that the theorems hold for all of them.

```
Settlement ◀ implemented by ─ Payment ◀─ PaymentProofs          Delivery ◀ implemented by ─ Transfer ◀─ SwitchProofs
                                 │ justifies taking a settlement as one step in
                 Shop, Quota, Accounts, Storefront ◀─ ShopProofs      Renewal ◀─ RenewalProofs
Incidents ◀─ IncidentsProofs      Metering, Billing, Backfill ◀─ MeteringProofs     Access ◀─ AccessProofs
SwitchPoll, SwitchCommands, Transfer ◀─ SwitchProofs
Tickets, Settings, Fleet, SignIn, RateLimit, Anchor, Broadcasts, Smtp, Announcements ◀─ OfficeProofs

MCPayment  EXTENDS Payment                MCShop     EXTENDS Shop, instances of Quota, Accounts, Storefront
MCReading  SwitchPoll, SwitchBackups, SwitchHealth, SwitchCommands
MCOrders   Transfer, SwitchLinks, Telegram, Import
MCOffice   Broadcasts, Smtp, Anchor, Billing, Calendar, Diff, Tickets, SignIn, RateLimit,
           Announcements, Settings, Fleet, Backfill          MCAnchor  Anchor
```

### Settlement, Payment

`Settlement` is what `lib/invoices.ts` promises: an invoice leaves *unpaid* once; the service is
delivered in the step that makes it paid; thanks are sent at most once, afterwards. `Payment` is
how: `Handlers` serve requests that stop at every statement and gateway call (`pc`), `rowLock` is
`SELECT ... FOR UPDATE OF i`, `payment` and `madeFor` are the gateway's side.

| Action | Code |
|---|---|
| `StartPay`, `CreatePayment`, `CreateRefused`, `SaveCode` | the portal's pay route and `createPayment` |
| `Capture` | the customer pays on the gateway's page (external) |
| `Return`, `ReturnWithoutRef`, `PortalVerify`, `RetryVerify`, `MarkPaid` | the five ways into a settlement |
| `Reread`, `Verify`, `VerifyTimeout` | `verifyAndSettle` up to and including the gateway call |
| `LockRow`, `Commit`, `Rollback` | `settleInvoice`: the lock and the re-check under it, the end of its transaction |
| `Announce`, `Record`, `RecordFails`, `Alert` | `announcePaid`, `recordFailure`, the message to the admin |
| `Cancel`, `Crash` | the panel's cancel; a restart, which also drops the locks |

Amounts are left out: a handler always sends the invoice's own. A return carries the number of its invoice or not
(`numbered`), and the route compares it only if it does; `stray` remembers of each payment the other invoices to whose
address a return brought it, and whether it was refused there or let in.

### Shop, and the customers' side

A purchase is `CheckStock, CheckCap, CheckOnce, CreateOrder, CreateAddon, CreateInvoice,
LinkInvoice, SettleIfFree`; a hand-over is `Open, CheckHandOver, MarkProvisioned, Claim, TopUp,
StartCounting`, the order of the statements in `api/orders/route.ts`. `Pay` is one step, because
`Payment` is proved to implement `Settlement`. One product and one code are for sale; a customer
has one server.

`Quota` follows one server through purchases, hand-overs and the cycle that claims and sends
`quota_90` and `quota_100`. `Accounts` follows one telephone number through the store, the checkout
with its registration, and admins. `Storefront` has the rows for sale, the forms and pages that hold
older copies of them, and the purchase query by query.

### Incidents

`cpc` and `tpc` are the places of the check cycle and of the threshold cycle, which share the
table `rows` and nothing else. `batch` is what a dispatch has read: it goes through it oldest first
(`Foremost`). `told` stands for `notified_at`: never, recently, or long enough ago
that a repetition is due. The world (server, agent, address, load, ports shut by an admin)
changes at will, `MaxEvents` times together with what admins do and with restarts.

### Renewal

Dates are day numbers and a period is a number of days, so `renews_at + n months` is an addition.
`Taken` is the partial unique index `invoices_renewal_once`: paid and unpaid rows, not canceled
ones. `issuing` and `alerting` hold the date that a cycle has read. `moved` records that an admin
typed another date into the form; nothing in the code connects that edit to open invoices, and
the properties speak of dates that were not moved.

### Metering

Two meters see the same bytes: the agent (`unsent`, and `resent` when an answer was lost after
the row was stored) and the switch port (`unread`, `poll` between its two statements). The
roll-up is `RollPort`, `RollAgent`, `Replace`, `Zero`, `RollDaily`; the order is that of
`worker/index.mjs`. `agentSeen` and `portSeen` are ghosts, the samples as if nothing were ever
purged; `torn` is a ghost that says the hour turned between the hourly statements of a roll-up.

Assumptions: `MaxSleep < Window` (a roll-up ends at least once within its window of three hours;
it runs every five minutes), `Window < Retention` (the purge stays out of the window; days against
hours), `Window <= HoursPerDay * DaysBack` (an hour of the window is in a day that is recomputed:
three hours, three days), and samples arrive at most one hour late.

### Access, Import, Anchor

In `Access` each report is a request that counts (`Report`), judges (`Evaluate`), writes
(`WriteVerdict`), announces and queues in separate statements. The worker's queue (`TakeJob`,
`WriteAnchor`, `RecordApply`) and discovery (`ListOwners`, `WriteOwners`) are two cycles of one
process, so they interleave at their external calls.

Abstractions: one address, one node, one anchor. A streak above `STREAK` is like `STREAK`; of an
inside probe only its last answer matters. What the bind agent last reported is arbitrary at each
verdict: the columns are never cleared when an address is released or its watch ends.
Waiting jobs are not distinguished. The hypervisor refuses to attach an address that a customer
has. `Report` carries an assumption on timing: probes report every ten minutes and wait for the
answer, so while one report is served another probe reports at most once.

`Import` is `discoverNode` beside admins, with the pages, pools and masks of both drivers.
`Anchor` is `applyNode` and `writeVpsIps`: the plan, and the requests to the hypervisor one by one,
each of which may fail; the order of a list is the hypervisor's.

### Switches

`SwitchPoll` follows one port with up to two rows (it has two names) and the counters in ticks; `Losable` says which
columns of a reading may fail alone (of names, of the states set by admins, of 64-bit counters), the others come or fail with it;
`SwitchHealth` the samples and the five kinds of incident decided from them; `SwitchBackups` three
histories and their takers; `SwitchLinks` what is on a port (a record of `Wires`: neighbours, addresses and whether there are
more than eight, the servers its description names, whether it is a member of a channel or no Ethernet), the readings that store it in
two statements, the strong and weak signs of `suggestLinks`, and the form of the port;
`SwitchCommands` the requests for one port, over both drivers, with the numbers that a restart of a
switch deals anew.

`Delivery` promises that the receiver has the whole file or none and that the panel says done only when
it is there; `Transfer` is how: sessions of the TFTP server by port of the client, datagrams that are
lost, repeated and reordered (`net`), retries, the SFTP directory, and the row in the switch's
copy table with its verdict.

### Messages and the office

`Broadcasts`: a row for the broadcast, one per recipient, batches, the look for a cancellation before
each. `Smtp`: commands and answers in pieces. `Telegram`: codes, `/start` and `/stop`, handlings that throw and are
passed over (`missed`), the offset stored at the end of a round. `Tickets`: a message and the status of its ticket in two statements, from both
sides. `Announcements`, `Settings`, `Fleet`, `Backfill`: forms that hold copies, routes that write row by
row or key by key. The amounts of `Backfill` may be below zero, which the page sums and the route stores as zero. The form of `Fleet` sends
the main address with the rest; a server is archived, marked active again or removed, and the page of the addresses moves rows of the list
(`owner`), which a save of the server leaves alone (`edited` holds the addresses an edit, the page or a removal has touched). Of `Fleet` a behaviour edits, adds, or does one
of each next to a move of an address (`Budgets`). `Broadcasts` remembers the messages that came
again (`again`) for its property. `SignIn` and `RateLimit`: codes, passwords, cookies, windows. `Billing`
has the days of one month with their rows, and compares what the page shows by day with the month; `Calendar` and `Diff` state the
arithmetic of the code as it stands, follow it step by step and compare it with a definition that is only counted or searched.

## Runs

Twelve runs; `tlc` with two workers takes up to about three minutes for each. Every property has a mutant in `PROJECT.json`, a plausible slip in the code that the
run refutes.

| Run | Instance | What it shows |
|---|---|---|
| `payment_safety` | 2 invoices, 1 payment, 2 handlers, all routes, returns to the wrong address with and without a number, 1 fault or 1 restart | `IInv` (inductive, with `SettledOnce`, `AnnouncedOnce`), `ReturnSettlesOwn`, `PaidIsFinal`, `ImplementsSettlement` |
| `payment_money` | 1 invoice, 2 payments, 2 handlers, 2 faults, no portal verify, no restart | `MoneyKept`: money the gateway settles is accounted for in every state, and ends in a paid invoice or a warned admin |
| `shop` | 3 purchases of 2 customers (product with add-on and code; free package; product), stock 1, code once, 2 admins, 1 restart; Quota with 2 packages; Accounts with 2 visitors and 2 customers; Storefront with 1 save and 2 orders | `CountsPaid`, `AddonsKept`, `ExhaustedStays`; `OncePerPurchase`; `AccountsWhole`; `CatalogueHolds` |
| `incidents` | 1 server, 4 kinds, one of them muted, batch of 2, 4 events | `AlertsRight`: one row per outage, alerts bounded, no noise, one recovery; `HeardUntilAcked`: an acknowledged row is silent and an open one is told |
| `renewal` | 1 server, days 0–4, period 2, 5 invoices, 2 events | `IInv` (paid periods disjoint, paid is covered, one open invoice), `NoticedOnce`, `DateIsServed` |
| `metering` | hours 0–4, 2 hours a day, window 2, retention 4, flow 2, 1 event | `CountedOnce` (nothing twice, nothing lost), `UsageNeverFalls`, `SettledStays` |
| `access` | 1 probe abroad, 1 inside, streak 2, 2 events | `ToldOnceWhatStands`, `LostSight`, `AnchorFollows` |
| `switch_reading` | one port, counters of 2, 2 ticks, 2 events, the names may be lost; 3 switches of which 2 a time and 1 unwritable; windows of 2 and 3 samples; 2 requests, 1 event | `NeverAstronomical`, `ShutIsQuiet`, `OnlyTheAsked`, `IncidentsSettle`, `NewestIsCurrent`, `RequestsSettle` |
| `reading_narrow` | one port, counters of 2, 3 ticks, 1 event; the 64-bit counters may be lost | a violation of `NeverAstronomical`: see [below](#where-code-and-documents-differ) |
| `orders` | 3 blocks, 1 retry, 2 attempts, 2 ports, both directions and protocols; 2 servers, 11 kinds of wires, 2 events; 2 customers, 2 codes, 2 restarts or handlings that throw; addresses of 3 bits, 2 events | `DeliversWhole` (Transfer implements Delivery, that it ends included), `OffersTheOnlyOne`, `StopIsHeard`, `ImportSettles` |
| `office` | thirteen small instances, one a behaviour; bounds in the `.cfg` | `MessagesHold`, `SumsHold`, `AnchorKept`, `DiffIsRight`, `OpenIsOurTurn`, `SignInHolds`, `SettingsHold`, `ServersHold` |
| `anchor_cut_off` | a hypervisor that takes fewer addresses in a run than the anchor | a violation: see [below](#where-code-and-documents-differ) |

### Why the bounds are enough

* *Payment.* Every conflict is between two requests on one row, or a return that arrives at the
  wrong invoice; two handlers, two invoices. Two payments of one invoice are the run about money. One fault
  at each place a request can be in is enough, because a fault ends the request; a restart ends all of them, so the run has one or the other
  (`OneMishap`). The theorems hold for any number.
* *Shop.* The races on the code and the stock need two purchases past their check and a cap and
  stock of 1; the free purchase settles without a gateway; the third belongs to another customer. Two hand-overs of one
  order meet at each statement.
* *Incidents.* A batch of two with four kinds makes rows wait for each other. Four events let a
  server fail, be acknowledged, recover, fail again.
* *Renewal.* Five days with a period of two let an invoice be issued, paid late, and the next two
  be issued; the stale read crosses a payment; `MaxInvoices` leaves room for canceled ones.
* *Metering.* Five hours with a window of two: a day leaves the window, its samples are purged
  and it must still be whole. Two units of traffic let the agent and the port put the same unit
  into different hours. One event is a restart, a lost answer, a reset of the counters, an edit.
  The hour may turn at every statement.
* *Access.* A streak of 2 separates "one answer" from "a streak"; the code has 3. Two overlapping
  reports already write over each other. Two events combine a restart with a failure or with an act of an admin.
  That a second probe abroad matters was found by the proof, not by this run: see `LostSight` [below](#proofs).
* *Switches.* One port suffices where the code decides port by port; two rows of it are the case of two names. Counters
  modulo 2 at one octet a tick go round within the run. Three switches with two at a time make one wait, and one that
  refuses its configuration stands in the way of the others.
* *Transfer.* With three blocks there is a first, a middle and a last one; two ports let a client begin anew
  while datagrams of its first attempt are under way.
* *Suggestions.* The wires are one for each way the signs can agree, contradict or be overruled (an uplink by its neighbour, by the number of
  its addresses, a description against a stronger sign); two of them in a behaviour let a suggestion be computed from the first and written with the second.
* *Office.* Two actors on one row each, with as many saves as there are actors, and one event or restart between them; codes
  and limits have their windows shortened to two or three steps, so that every boundary is crossed. The hypervisor's limit is the least for which `AnchorKept` holds. Calendar
  years are those around both kinds of leap year and the exception of the Gregorian century.

Deadlock: TLC checks it in the payment, incident, metering and access runs. The other worlds
run out: all purchases are settled and handed over, the last day has come, the file has arrived, the
small instances of a composite have used their bounds.

## Fairness

| Module | Fairness | Why |
|---|---|---|
| Payment | weak for every step of a request that has arrived; strong for the steps that wait for a row lock | Node runs every continuation; PostgreSQL queues those who wait for a row |
| Incidents, Renewal | weak for each cycle as a whole | `schedule` in `worker/index.mjs:106` arms the next run when one ends, also after an error (`safe`) |
| Access | weak for each report being served, for each probe's next report, for the queue, for the discovery | the same; probes loop while switched on |
| Delivery, Transfer | weak for telling the panel; weak for the panel's own steps | the copy table is asked until the panel's own limit of time ends the transfer |
| SwitchLinks, Telegram, Import (`MCOrders`) | weak for the worker's steps, for the readings, and for the timers of the pages | the same schedules; pages ask again on a timer |
| SwitchPoll, SwitchBackups, SwitchHealth, SwitchCommands (`MCReading`) | weak for readings, ticks, the worker's commands, the timers of the page, the schedule of the backups and the storing of extra copies; strong for the hours passing and for the look at the environment, which comes with some readings only | the same schedules; the environment is read every few readings, again and again |

No fairness is assumed of customers, admins, the gateway, the network, faults or restarts. Since restarts are bounded,
liveness says: once they stop, the system gets there. The weak fairness of the two cycles in Renewal is
enough although days go by, because the days are bounded too and the last one lasts.

## Proofs

`tlapm` proves these for every value of the constants under the named ASSUMEs (well-formedness of
the constants; for Metering also the window, see above; for Access a streak of at least two; for SignIn at least one browser).
`AnchorKeptAlways`, `MoneySafe`, `CountedIsCarried`, `ShutIsQuietHolds` and `DaysComeToTheMonth` name a condition of their own, for a reason given below. No bound of the runs is used.

**PaymentProofs** – `Invariance` (`IInv`), `DeliveredOnce`, `ToldOnce`, `Finality` (`PaidIsFinal`),
`Implementation` (`ImplementsSettlement`), `OwnSettled` (`ReturnSettlesOwn`), `MoneySafe`.
`OwnSettled` says where another invoice's payment can come from: a return without a number, or a retry of what a stray return has left
behind. That there are no such payments does not hold (see [below](#where-code-and-documents-differ)).
`SettledOnce` alone is not inductive: a transaction about to commit must know that its row is
still unpaid. The strengthening is `IInv`: the lock of a row is held exactly by the handler at
"locked" for it (`LockHeld`), such a row is unpaid (`LockedUnpaid`), and a handler about to
announce is the only one and the first (`AnnouncePending`). `LockHeld` is what makes `Cancel` and
`Commit` exclude one another. The proof splits the actions into those that touch neither rows
nor locks (`QuietStep`) and the four that do. Refinement: `Commit` is `Settle`,
`Cancel` is `Cancel`, `Announce` is `Announce`, all else stutters.
`MoneySafe` is the state part of `MoneyKept`: a payment the gateway settled has paid its invoice, or the
admin was told, or a request still carries it. It holds where the code can promise it (`Promised`: no
restart, no return to a wrong address, no portal verification, which drops its error); its invariant `MInv` says of each request that
it carries a reference opened for its own invoice (`RequestsOwn`), and of each stored reference that it is
told of (`ReferencesTold`, `RetriesTold`).

**RenewalProofs** – `Invariance` (`IInv`), `NoDayTwice`, `PaidDelivered`, `OneOpenInvoice`, `NeverTwice` (`NoticedOnce`).
The inductive invariant adds
`ReadIsCurrentOrTaken`: the date that a cycle holds is the current one, or its period was
paid meanwhile and the unique index will refuse the insert. That is why the stale read is
harmless; with an index over the unpaid rows only (the mutant `TakenUnpaid`) it would not be.
For the notices, `NInv` says that no claim is ahead of the date (`NoneAhead`), that the current date has been
claimed as often as reminded (`CurrentOnce`), and a past one at most once more (`PastOnceMore`), for a cycle that read it
before it was paid.

**ShopProofs** – `CountsHold` (`CountsPaid`), `AddonsHold` (`AddonsKept`), `ExhaustedForever` (`ExhaustedStays`).
The invariant ties every row to the place of its purchase (`RowsFollowPlaces`): an unpaid invoice exists from
the statement that inserts it on, an order is paid exactly when its invoice is. From that the counters can
be counted: each settlement moves one purchase into the set of the paid, and one unit (`CodeCountsPaid`,
`StockCountsPaid`, over cardinalities). `ClaimedOnce` and `ClaimCarried` say where the traffic of an add-on is between the claim
and the row.

**IncidentsProofs** – `AlertsRightHolds` (`AlertsRight`), `AckSilencesHolds` (the safety half of `HeardUntilAcked`).
A batch is read before it is sent, so the invariant speaks of rows in the batch: they exist and are
open or were (`BatchKept`); what was sent is bounded by what fell due and what restarts lost (`AlertsKept`); the alert of a silent agent is not under way
when the row of its server is (`NoiseKept`); a recovery on its way belongs to a row that had an alert and has none sent yet
(`RecoveryKept`). `OneOpen` is the partial unique index together with the two cycles' division of kinds.

**AccessProofs** – `AdminKnows` (`ToldOnceWhatStands`), `SightKept` (`LostSight`), for any set of probes. `OnePassed`
is the heart: of the reports being served, those that have passed their judgement agree on the verdict, since every
judgement reads the same rows. Until a silence has let a streak go on (`Unbroken`), a verdict that is about to be written
stands (`DenialStands`, `ReleaseStands`, `MessageStands`); after one it need not. The first attempt to prove `LostSight`
without `Unbroken` failed for a reason: with two probes abroad, one that returns from a silence continues its old
streak and releases the address with one answer too few, while another probe's report, judged before, writes its denial
over that release; the address is then neither released nor watched.

**SwitchProofs** – of the instances in `MCReading`: `CountedIsCarried` (`NeverAstronomical`), `ShutIsQuietHolds` (`ShutIsQuiet`),
`OnlyTheAskedHolds` (`OnlyTheAsked`); and of `Transfer`, with variables of its own, `Implementation`.

* *Traffic.* `PollInv`. That the traffic counted is carried is not inductive: nothing in it bounds the next difference. With
  64 bits, what was counted *and what the counter is ahead of the stored row* is at most what the link has carried up to now, by way of
  the number read but not yet stored while there is one (`CountedWide`); a restart only lowers the counter. With 32 bits the counter may have gone round
  while it was not read, so nothing ties it to the row; there the capacity check bounds what was counted by the *time of the row*, with its
  fifth of margin (`CountedNarrow`). `RowsAsRead` says that the stored numbers are still those which the reading began with, since one reading
  runs at a time. The theorem asks that the column of the 64-bit counters is never lost alone (`"ifHC" \notin Losable`): a port whose
  width changes has neither bound, and `reading_narrow` shows what happens.
* *Shut ports.* `ShutIsKnown`: a reading that began when the port was shut has read that an admin shut it. The theorem asks that the column of that
  state is never lost alone; what happens otherwise is [below](#met-in-reading).
* *Commands.* `CommandInv`: the request in hand is a row that runs (`InHand`); once it was checked it may be sent, and over SNMP it is sent to the number
  whose name was compared (`MayBeSent`). So another port is shut only if the switch dealt its numbers anew after that comparison.
* *Transfer.* The safety of `Delivery` (its initial state and `[][Next]`) for files of any length, any number of retries and
  attempts. The invariant says that a receiver keeps a prefix in order (`KeptInOrder`), that what is taken as complete is
  complete (`FileWhole`), and that the client's acknowledgements are not ahead of what it has (`TakenInOrder`).

**MeteringProofs** – `CountedOnceHolds` (`CountedOnce`), `UsageIsSafe` (`UsageNeverFalls`), `SettledIsSafe`
(`SettledStays`, from `ManualIsSafe` and `PastIsSafe`), `MeteringInvariance`; of `Billing` and `Backfill`, with constants and
variables of their own, `DaysComeToTheMonth` and `FormKeepsItsWord`. The invariant follows the order of the
statements: the clock of a roll-up lags by no more than the sleep (`ClockKept`), raw samples of the window are all still
there (`RawKept`), what the stage of a roll-up has passed is done (`StagesKept`), the ghosts are the flow (`SeenIsFlow`,
`Replaced`), and the hourly and daily rows never exceed the samples and have caught up with them once
rolled (`RowsFollow`, `DaysFollow`). A daily row is a sum over the hours of a day, and `SumFunctionOnSet` is a fold:
its lemmas (a sum of zeros, of a set with one more member, of pointwise smaller functions, of two disjoint parts) are in
the same module, proved by taking a smallest counterexample among the finite subsets
(well-foundedness of the strict subset ordering), since the library's induction rules cannot be instantiated.

* *Billing.* Two of the three parts of `SumsHold` are proved here in general. That the days come to the month is not a matter of an
  inductive invariant but of sums: what is beyond the quota in the days up to one is what is beyond it in their sum (`DaysBeyond`, day
  by day), days to come add nothing (`SumBeyond`, which needs `BillTyped`: they have no traffic yet), and the shares of the rent come to the rent again (`SharesAddUp`). The invariant is about a
  range that is being stored: a day of it that has its row has its part (`RangeStored`), because no roll-up writes over it; the
  parts come to the total, the remainder being on the last day (`PartsAddUp`). The theorem asks that no price and
  no quota is negative (`NoneNegative`): the routes that edit a datacenter or a server refuse such numbers, those that add one do not
  (see [below](#met-in-reading)), and with a negative quota the days do not come to the month.
* *Entry by hand.* `FormInv`: what is under way was read in the unit the form shows (`SentIsRead`), the lines are gone through in order and each is
  counted once (`LinesCounted`), and of the lines gone through the last of a day has its row, or the day is to come or the agent's
  (`DaysAsTyped`). That the days come to no less than the preview, and to
  exactly it if nothing sent is below zero, is the sum by line against the sum by day (`SumByKey`, `SumByKeyAtMost`).

Of the parts that `MCShop` puts beside the shop, `ShopProofs` proves `NoticeOnce` (`OncePerPurchase`), `AccountsHold`
(`AccountsWhole`) and `CatalogueKept` (`CatalogueHolds`). Notices: what was sent of a kind, the one between its claim and its
message included, is at most the claims that were cleared and the one that stands. Accounts: each visit and each change by an
admin carries the rows it has read; what makes the invariant hold is that both inserts look at the tables again
in their own statement. Catalogue: `PageInv` says that a page shows the price of *some* state of the rows (`Priced`: how often each had been
written then), less the discount of some state of the code, and that a purchase which read the same state has that
price; `Forward` says that a row which is not written keeps its price. `SizeInv` and `ShownTwice` are why a form that rounds
does not drift. `StockInv` needs the stock in the open form as well as the one in the row.

**OfficeProofs** – of the instances in `MCOffice`: `OpenIsOurTurnHolds` (`OpenIsOurTurn`), `SettingsHoldAlways` (`SettingsHold`),
`ServersHoldAlways` (`ServersHold`), `SignInHoldsAlways` (`SignInHolds`), `AnchorKeptAlways` (`AnchorKept`), `MessagesHoldAlways`
(`MessagesHold`). Each part has its own inductive invariant; a step of one leaves the variables of the others alone.

* *Tickets.* `TicketInv` says which of the two turns is still to come while the last message is already stored.
* *Settings.* `SaveKept` says what a save carries at each step (only keys of the route, every shared one, a secret only if it was typed, an
  admins' key only of an admin), and `Together` that the shared rows are of one save or one save is still writing
  them; `ReadingKept` says that a read of the table is good for the copy in memory as long as no save began beside it.
* *Servers.* `FleetInv` ties every open form to what its server was when the page was loaded: the date it shows is a day back for each
  load and save (`Dated`), it shows the address last typed unless the form is behind (`Placed`), a decision stands or something older has written over it
  since (`Stood`); an address belongs to its server or the statement that gives it is still to come, and to no second one, until an edit, the page of the addresses
  or a removal touches it (`AddressesRight`); and what the memory of tokens holds
  is younger than its time to live (`TokensYoung`).
* *Signing in.* `SignInInv`: the attempts counted and those about to be counted are fewer than `MAX_ATTEMPTS` and the number of browsers
  together (`AttemptsInv`), which is the exact price of reading a code before its attempts are raised; a waiting form's countdown and
  the time since its code make up the cooldown (`WaitsInv`); the number of writes tells an old reading from a
  current one (`ReadInv`). The limiter: of a key that was never dropped, the times it keeps are those it let in (`LimiterInv`), and no more
  keys are kept than the cap and one (`KeptFew`). That at least one browser is needed was found by the proof.
* *Anchor.* `AnchorInv`: while a list is worked off, an address that is gone from the anchor is an act of people (`Gone`). Had the
  second cut left out a new address although nothing failed, more of the requests would be for addresses the anchor already has, and so
  bound to fail, than people have acts left to prevent it (`Doomed`). The count needs `Cap + MaxMoves <= NodeCap`: the first attempt
  assumed `Cap <= NodeCap` and failed for a reason, for TLC then finds an address taken away by hand that lets the cut list
  succeed. `anchor_cut_off` is the other side of that condition.
* *Broadcasts.* `BroadcastInv`: the messages that came again and the customers who have theirs although their row says otherwise
  (`Exposed`) are together no more than the restarts and the lost answers, and after a cancellation one message may still go out.
* *E-mail.* `MailInv`: client and server are at the same command with nothing under way; or the answer to it is, in one piece or
  two, of which only the second is its last line. What the answer says wrong is known as trouble.
* *Announcements.* `NewsInv`: rows are right also in the lists loaded long ago, and a press is kept as long as its row is; every press of a row
  that is about to go is one the deletion overlapped.


Only model-checked, and why:

* liveness (`MoneyResolved`, `DateIsServed`, `OpenIsTold`, `AnchorFollows`, `IncidentsSettle`, `NewestIsCurrent`, `RequestsSettle`,
  `OffersTheOnlyOne`, `StopIsHeard`, `ImportSettles`, and that a transfer ends): fairness is out of the prover's reach;
* the calculations: `DiffIsRight`, since what `SelectSeq` and a search over all common subsequences compute needs induction over sequences, and
  the provers do not expand `SelectSeq`; and of `SumsHold` the part about the dates (`Calendar`), which divides by constants along a table of cycles
  and is checked day by day for years of every kind. `SumsHold` as a whole is therefore a property of the run;
* that no two customers have one chat, the half of `StopIsHeard` that is a state: it is stated together with the other half.

## Where code and documents differ

`anchor_cut_off` ends in a counterexample. The list of addresses of an anchor is cut twice, by the limit of
the anchor and by that of the hypervisor (`worker/solusvm2.mjs:422`). What the second cut leaves out is reported as
`over_cap`, which nobody reads, together with `ok: true`; the rows are recorded as attached and managed by the panel although nothing was
sent for them, until the next `applyNode` finds them still free and plans their attachment again (`worker/vz-sync.mjs:555`). Equal limits are not enough either, if somebody takes an address from the anchor by hand
while its list is being written. The comment at `worker/solusvm2.mjs:474` says that a partial failure must be seen and not reported as
a success.

`reading_narrow` ends in another. How wide the counters of a port are is found anew at every reading (`worker/snmp.mjs:414`), and the walk
of the 64-bit column may fail alone (`:1061`). The 32-bit number is then stored over the 64-bit one; at the next reading the counter has
grown, so nothing looks like a restart, only 32-bit differences are weighed against the link (`worker/switches.mjs:198`), and all that the port ever carried
is counted as the traffic of one interval. The comment of `counterDelta` (`worker/nxapi.mjs:640`) promises that a counter which falls back
counts as zero, "neither negative nor astronomical", and leaves the weighing against the link to its caller.

Disagreements that no run states, because a property of the same part already says what does hold:

* "An invoice already paid never touches the gateway" (`docs/invoices.md:51`): the status is read without a lock before
  the gateway call (`lib/invoices.ts:324`), so a second return does reach it. Delivery stays single; the admin gets a false alarm.
* The number that comes back with a payment is compared so that its reference does not settle another invoice of the same amount
  (`api/pay/return/[id]/route.ts:173`). A return without a number is compared with nothing (`:176`); and the reference that was refused is stored
  on the invoice it was refused for (`:84`), from where the panel's retry sends it without comparing (`api/invoices/route.ts:236`). That takes two
  invoices of one amount, and the retry an admin. `ReturnSettlesOwn` says that there is no third way.
* The main address of a server is entered in the list of addresses "so that it is left out nowhere" (`api/servers/route.ts:171`), and refused if
  another server has it (`:141`), when a server is added. The form of a server writes it without either (`api/servers/[id]/route.ts:17`, `:209`):
  after one save a server may have an address that no row of the list holds, or that another one has. `AddressKept` exempts edited addresses.
* An order with an add-on is to be refused without a server (`docs/store.md:76`): `Number(null)` is 0, an
  integer, and the guard lets it pass (`api/orders/route.ts:136`).
* A recovery is sent only if the alert was (`worker/incidents.mjs:10`): a muted row has `notified_at` set without a
  message (`:80`), and its recovery is sent (`:123`).
* The traffic replaced by the port's is not to be counted twice (`worker/switches.mjs:1171`): it is, if the hour turns between
  the hourly statements while the switch was out of reach in the oldest hour.
* A result older than the window is not to enter a verdict (`api/probe/route.ts:37`): the streak goes on counting
  over any silence.
* Attempts are to be counted before a code is compared (`lib/otp.ts:250`): the row is read before, so crossing verifications
  of a right code both open a session.
* The token of an archived server is to be refused (`servers/[id]/page.tsx:743`): the cache of `api/ingest/route.ts:39` accepts it for up to a
  minute and sets the archived server to "up".

## Met in reading

What the models have as behaviour and no property forbids, or what was seen next to them:

* *Metering.* `!serverId !== null` is always true (`api/topups/route.ts:82`, `:172`): adding a package or opening usage by
  hand is always refused. Entering today by hand freezes the day (`rollup.mjs:101`). A date that does not exist passes page and
  route and fails mid-way with the earlier rows stored. New counters and the delta are two statements (`switches.mjs:319`).
* *Access and hypervisors.* `lib/vz-sync.ts` is called by nothing. An admin's "reserved" of an unwatched address is overwritten
  hourly; a failed list wipes a customer's name; paging stops at a page of fewer than 500; an address removed by hand
  is attached again; a configuration changed between its reading and its writing back is overwritten (`worker/vz-sync.mjs:515`).
  A block deleted in the panel takes the addresses of another hypervisor in the same range along.
* *Switches.* When the walk of `ifAdminStatus` fails alone, a port that an admin has shut is reported as down (`switches.mjs:696`). Five unwritable switches starve the backups of the others (`switches.mjs:997` against `:979`). Dismiss dismisses
  whatever is suggested by now. A failed walk of the MAC table stores an empty one. A rate limit that fails midway leaves the row at
  the old limit. `switch_cpu` stays open when its threshold becomes 0, `switch_env` when the environment cannot be read.
* *Shop.* `PackageForm` rounds a size at every save; `ProductForm` writes back old stock; deleting a product takes its codes and their
  uses along (`039_tickets.sql:33`); a gateway that refuses leaves an invoice behind and the next attempt makes another. A restart in the hand-over
  leaves `counted_from` empty.
* *Customers.* A re-activated customer keeps a dead login; an edit of an inactive customer makes an active one; a customer
  with a telephone number may have no login at all.
* *Broadcasts, Telegram.* "done" overwrites a cancellation (`broadcasts.mjs:53`); counters drift over a restart; the rows of
  recipients are inserted outside a transaction. A `/stop` whose handling throws is logged and lost
  (`telegram-link.mjs:271`). A restart replays an old `/stop` after a newer `/start`.
* *Announcements.* An edit switches an announcement on again (`is_active` is not sent and missing is true), and moves its times by the zone's offset at each
  save (`page.tsx:250`). Confirming a deleted one fails, and the window cannot be closed until the page is loaded anew.
* *Settings, servers.* Keys are saved one by one; the whole save of an operator is refused after an admin changed one admin-only key. A form
  of a server writes back an old date of renewal, status and customer; its date moves a day earlier at each load and save
  (`servers/[id]/page.tsx:809`); an address is unique by no index, so that two additions that cross, or one edit, give it to two servers; the
  old address of an edited server stays in the list as its own; a restart between two statements leaves a server without one.
* *Signing in.* After a failed SMS or a used code, asking again within 90 seconds is answered with "the previous code is still
  valid". The cleaning of the rate limiter uses the window of whichever route asked.
* *Billing.* With the direction "max" the days of a month add up to more than the month (`api/billing/route.ts:23`). A datacenter can be
  added with negative prices or a negative quota (`api/datacenters/route.ts:105`), a server with a negative rent (`api/servers/route.ts:163`); the routes
  that edit them refuse both.

## Not modelled

* Encoders and parsers byte by byte (SNMP and its authentication, NX-API answers, HTTP to hypervisors). Their outcomes are inputs of the models.
* Forms over single rows (datacenters, probes), reports, lists, charts, the live view, the health page: queries, or one statement each.
* The bind agent on the anchor: its reports are arbitrary in Access.
* Amounts in `Payment`: whether two invoices ask the same; which names and addresses stand for which server in `SwitchLinks`, where a name that
  two servers share is no sign; the description of a port that a panel user sets, which its next reading stores anyway.
* Migrations, deployment and the checking scripts.
* Within the modelled parts: probe-silence incidents (they use the same two functions), averages, peaks and uptime, several
  ports of one server and port channels, several anchors and the cap of addresses per run of an access release, many servers in one
  cycle. A cycle that is busy with other servers is the arbitrary delay between its read and its write.

## Plan

The safety properties of the runs are proved, those of the calculations excepted. What is left to widen, in this order:

1. The several ports of one server and port channels in `Metering`: which port counts, and what a change of the link does to the hour.
2. The tables of ports of five minutes, hours and days next to `SwitchPoll`, whose difference is the same but whose purge is not.
3. The bind agent on the anchor as a module of its own, with its reports as those of `Access`.
4. The lookup of the blocks of several hypervisors in `Import`, where one block takes the addresses of another along.

## Running it

```
tlc -workers 2 -config MCPayment_safety.cfg MCPayment     # one run; see PROJECT.json for the others
tlapm PaymentProofs.tla                                   # the proofs of a component
```
