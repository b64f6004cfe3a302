------------------------------ MODULE MCOffice ------------------------------
(* What the panel does beside watching: messages, the hypervisors, sums and *)
(* dates, signing in, and the forms of the office, checked one beside the   *)
(* other: in a behaviour only the part in focus moves.                      *)
(* Bounds are given with the instances; those of the parts that are proved   *)
(* about are constants.                                                      *)
EXTENDS Integers

CONSTANTS
    Addressees, Batch, MaxCrashes, MaxLost, MaxRetries,                                \* Broadcasts
    Drivers, Size, Blocks, Cap, NodeCap, MaxFailing, MaxMoves,                      \* Anchor
    MaxMessages,                                                                    \* Tickets
    Writers, Readers, Zone, Plans, NoTime, MaxMade, MaxActs, MaxTime,               \* Announcements
    KeySets, People, Admins, Values, Empty, TTL, MaxSaves, MaxTyped, MaxEvents,   \* Settings
    Editors, Ips, Dates, NoDate, Today, Period, TokenTTL, MaxServers, Budgets,      \* Fleet
    Browsers, Passwords, RESEND_COOLDOWN, CodeTTL, Hour, MAX_ATTEMPTS, MAX_PER_HOUR,
    MaxNow, MaxCodes, MaxWrites,                                                    \* SignIn
    Asked, LimitOf, WindowOf, MAX_KEYS, MaxClock                                    \* RateLimit

VARIABLES
    focus,
    bc, rows, form, worker, reset, got, again, late, faults,                       \* Broadcasts
    conf, at, server, flight, buffer, accepted, trouble, result,                   \* Smtp
    driver, truth, reserved, disks, nrows, job, wrote, nfaults, events,            \* Anchor
    today, rates, usage, bform, ranges,                                            \* Billing
    jdn, jalali, gregorian,                                                        \* Calendar
    a, b, pc, d, k, v, trace, x, y, ops,                                           \* Diff
    status, messages, portal, panel, closing, byHand, crossed,                     \* Tickets
    way, next, now, account, codes, inbox, sform, sreq, opensession, opened, sevents,  \* SignIn
    clock, buckets, admitted, forgotten,                                           \* RateLimit
    board, made, reads, lists, removing, modal, time, acts, confirmed, overlapped, \* Announcements
    keys, table, pages, saving, memory, reading, saves, happenings, last, overlapping, stale, \* Settings
    fleet, gone, owner, agent, cache, forms, additions, looked, count, word, behind, overdue, met, torn, edited, \* Fleet
    text, unit, overwrite, daily, left, answer, bcount, bsent, before              \* Backfill

None == 0 - 1
Rates(direction, price, included) ==
    [price_per_tb |-> price, price_per_ip |-> 2, included_tb |-> included, included_ips |-> 1,
     direction |-> direction, rent |-> 3, ips |-> 2]
Own(price, included) == [price_per_tb |-> price, price_per_ip |-> None, included_tb |-> included, included_ips |-> None]
Used(rx, tx) == [rx |-> rx, tx |-> tx]

B == INSTANCE Broadcasts WITH Total <- Addressees
S == INSTANCE Smtp
N == INSTANCE Anchor WITH rows <- nrows, faults <- nfaults, MaxFaults <- MaxFailing, MaxEvents <- MaxMoves
M == INSTANCE Billing WITH form <- bform, Days <- 3, None <- None,
        Datacenters <- {Rates("total", 1, 2), Rates("max", 2, 2), Rates("out", 1, 0)},
        Overrides <- {Own(None, None), Own(None, 3)},
        Traffic <- {Used(1, 2), Used(3, 2)}, Totals <- {Used(4, 1)}, MaxRanges <- 1
C == INSTANCE Calendar WITH Starts <- {1209, 1210, 1402, 1403, 1407, 1408}, Count <- 3
D == INSTANCE Diff WITH Lines <- {"p", "q"}, MaxLines <- 3, MaxEdits <- 3, Context <- 1
K == INSTANCE Tickets
G == INSTANCE SignIn WITH form <- sform, req <- sreq, session <- opensession, events <- sevents, TTL <- CodeTTL
R == INSTANCE RateLimit WITH Keys <- Asked, Limit <- LimitOf, Window <- WindowOf, MaxNow <- MaxClock
T == INSTANCE Announcements WITH None <- NoTime, Admins <- Writers, Customers <- Readers, Offset <- Zone, MaxNow <- MaxTime
H == INSTANCE Settings
E == INSTANCE Fleet WITH None <- NoDate, Admins <- Editors, TTL <- TokenTTL
L == INSTANCE Backfill WITH count <- bcount, sent <- bsent,
        Today <- 2, LastDay <- 3, Missing <- 0, Amounts <- {0 - 1, 2}, Units <- {1, 3}, MaxLines <- 2, MaxSends <- 2,
        MaxMeasured <- 1

ASSUME OfficeAssumption ==
    /\ B!BroadcastsAssumption /\ N!AnchorAssumption /\ M!BillingAssumption /\ D!DiffAssumption
    /\ K!MessagesAssumption /\ G!SignInAssumption /\ R!RateLimitAssumption
    /\ T!AnnouncementsAssumption /\ H!SettingsAssumption /\ E!FleetAssumption
    /\ L!BackfillAssumption

Parts == {"broadcast", "smtp", "anchor", "billing", "calendar", "diff", "tickets", "signin", "limiter",
          "announcements", "settings", "servers", "backfill"}

bvars == <<bc, rows, form, worker, reset, got, again, late, faults>>
svars == <<conf, at, server, flight, buffer, accepted, trouble, result>>
nvars == <<driver, truth, reserved, disks, nrows, job, wrote, nfaults, events>>
mvars == <<today, rates, usage, bform, ranges>>
cvars == <<jdn, jalali, gregorian>>
dvars == <<a, b, pc, d, k, v, trace, x, y, ops>>
kvars == <<status, messages, portal, panel, closing, byHand, crossed>>
gvars == <<way, next, now, account, codes, inbox, sform, sreq, opensession, opened, sevents>>
rvars == <<clock, buckets, admitted, forgotten>>
tvars == <<board, made, reads, lists, removing, modal, time, acts, confirmed, overlapped>>
hvars == <<keys, table, pages, saving, memory, reading, saves, happenings, last, overlapping, stale>>
evars == <<fleet, gone, owner, agent, cache, forms, additions, looked, count, word, behind, overdue, met, torn, edited>>
lvars == <<text, unit, overwrite, daily, left, answer, bcount, bsent, before>>
vars == <<focus, bvars, svars, nvars, mvars, cvars, dvars, kvars, gvars, rvars, tvars, hvars, evars, lvars>>

desk == <<gvars, rvars, tvars, hvars, evars, lvars>>
talk == <<bvars, svars, kvars, desk>>
sums == <<mvars, cvars, dvars>>

\* One server edited by two admins; two admins adding servers; and a server edited, or
\* removed, while another is added.
Editing == [acts |-> 2, adds |-> 0, loads |-> 2, paid |-> 1, looks |-> 1, now |-> 2, crashes |-> 0, moves |-> 0]
Adding == [acts |-> 0, adds |-> 2, loads |-> 0, paid |-> 0, looks |-> 0, now |-> 0, crashes |-> 1, moves |-> 0]
Moving == [acts |-> 1, adds |-> 1, loads |-> 1, paid |-> 0, looks |-> 0, now |-> 0, crashes |-> 0, moves |-> 1]
EditingOrAdding == {Editing, Adding, Moving}
\* Three addresses in two blocks.
TwoBlocks == <<1, 1, 2>>
\* An announcement from an hour on, and one up to it.
OpenRanges == {[starts |-> 1, ends |-> NoTime], [starts |-> NoTime, ends |-> 1]}
\* Two addresses that ask, on two routes.
Limits == [q \in Asked |-> IF q = "login v" THEN 2 ELSE 1]
Windows == [q \in Asked |-> IF q = "otp v" THEN 3 ELSE 2]
SomeIp == CHOOSE ip \in Ips : TRUE

\* One beginning of the parts that are not in focus; with no server added only one address matters.
Init ==
    /\ focus \in Parts
    /\ T!Init /\ H!Init /\ (focus = "settings" \/ "smtp_host" \in keys)
    /\ E!Init /\ (count.adds > 0 \/ (fleet[1].ip = SomeIp /\ owner = [ip \in Ips |-> IF ip = SomeIp THEN 1 ELSE 0]))
    /\ focus = "servers" \/ (fleet[1].customer = 1 /\ count = Editing)
    /\ R!Init /\ G!Init /\ (focus = "signin" \/ way = "code")
    /\ B!Init /\ K!Init
    /\ focus = "smtp" \/ conf = [security |-> "starttls", auth |-> "LOGIN"]
    /\ S!Init
    /\ focus = "billing" \/ rates = [datacenter |-> Rates("total", 1, 2), server |-> Own(None, None)]
    /\ M!Init
    /\ C!Init /\ (focus = "calendar" \/ jalali.jy = 1402)
    /\ focus = "diff" \/ (a = <<"p">> /\ b = <<"p">>)
    /\ D!Init
    /\ \/ focus = "anchor"
       \/ /\ driver = "virtualizor" /\ truth = [i \in 1..Size |-> IF i = 1 THEN "anchor" ELSE "free"]
          /\ nrows = [i \in 1..Size |-> [released |-> FALSE, managed |-> FALSE]]
    /\ N!Init
    /\ focus = "backfill" \/ (text = <<[day |-> 1, amount |-> 2, fault |-> "none"]>> /\ unit = 1 /\ overwrite = FALSE)
    /\ L!Init

OnlyMessages == focus = "broadcast" /\ UNCHANGED <<focus, svars, kvars, desk, nvars, sums>>
OnlyMail == focus = "smtp" /\ UNCHANGED <<focus, bvars, kvars, desk, nvars, sums>>
OnlyTickets == focus = "tickets" /\ UNCHANGED <<focus, bvars, svars, desk, nvars, sums>>
OnlyAnchor == focus = "anchor" /\ UNCHANGED <<focus, talk, sums>>
OnlyBilling == focus = "billing" /\ UNCHANGED <<focus, talk, nvars, cvars, dvars>>
OnlyCalendar == focus = "calendar" /\ UNCHANGED <<focus, talk, nvars, mvars, dvars>>
OnlySignIn == focus = "signin" /\ UNCHANGED <<focus, bvars, svars, kvars, rvars, tvars, hvars, evars, lvars, nvars, sums>>
OnlyLimiter == focus = "limiter" /\ UNCHANGED <<focus, bvars, svars, kvars, gvars, tvars, hvars, evars, lvars, nvars, sums>>
OnlyAnnouncements == focus = "announcements" /\ UNCHANGED <<focus, bvars, svars, kvars, gvars, rvars, hvars, evars, lvars, nvars, sums>>
OnlySettings == focus = "settings" /\ UNCHANGED <<focus, bvars, svars, kvars, gvars, rvars, tvars, evars, lvars, nvars, sums>>
OnlyFleet == focus = "servers" /\ UNCHANGED <<focus, bvars, svars, kvars, gvars, rvars, tvars, hvars, lvars, nvars, sums>>
OnlyBackfill == focus = "backfill" /\ UNCHANGED <<focus, bvars, svars, kvars, gvars, rvars, tvars, hvars, evars, nvars, sums>>
OnlyDiff == focus = "diff" /\ UNCHANGED <<focus, talk, nvars, mvars, cvars>>

Next ==
    \/ OnlyMessages /\ B!Next
    \/ OnlyMail /\ S!Next
    \/ OnlyAnchor /\ N!Next
    \/ OnlyBilling /\ M!Next
    \/ OnlyCalendar /\ C!Next
    \/ OnlyDiff /\ D!Next
    \/ OnlyTickets /\ K!Next
    \/ OnlySignIn /\ G!Next
    \/ OnlyLimiter /\ R!Next
    \/ OnlyAnnouncements /\ T!Next
    \/ OnlySettings /\ H!Next
    \/ OnlyBackfill /\ L!Next
    \/ OnlyFleet /\ E!Next

Spec == Init /\ [][Next]_vars

-----------------------------------------------------------------------------
(* The properties of the parts, each stated in its module.                 *)

\* A message reaches nobody twice but for a restart, a lost answer or a retry; an
\* e-mail said to be sent was taken by the server; who has confirmed an announcement
\* stays recorded, and each customer is asked for himself.
MessagesHold ==
    /\ focus = "broadcast" => B!OnceUnlessCrash
    /\ focus = "smtp" => S!VerdictIsRight
    /\ focus = "announcements" => T!AnnouncementsHold
\* The anchor stays on the network, and what is recorded as attached was.
AnchorKept == focus = "anchor" => N!AnchorKept
\* The days of a bill add up to its month; every day has one date, and the months
\* shown meet; the days typed in are the days stored.
SumsHold ==
    /\ focus = "billing" => M!DaysAddUp
    /\ focus = "calendar" => C!EveryDayOnce
    /\ focus = "backfill" => L!BackfillHolds
\* The differences shown are right and as few as they can be.
DiffIsRight == focus = "diff" => D!DiffIsRight
\* A ticket is on the list of open ones when the customer has the last word.
OpenIsOurTurn == focus = "tickets" => K!OpenIsOurTurn
\* A code opens one session, the forms and the routes agree on when to ask, a password is changed by who
\* knows it; and no more requests pass in a window than the limit, unless the key was dropped.
SignInHolds ==
    /\ focus = "signin" => G!SignInHolds
    /\ focus = "limiter" => R!LimiterHolds
\* An old settings page does no harm, and what has been saved is what the panel goes by.
SettingsHold == focus = "settings" => H!SettingsHold
\* What was decided of a server stands, in whatever order saves, payments, reports and checks come.
ServersHold == focus = "servers" => E!ServersHold
=============================================================================
