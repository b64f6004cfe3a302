-------------------------------- MODULE Fleet --------------------------------
(* Fleet: the servers the panel keeps, the page that edits one, the agent    *)
(* that reports for it and the check that tries it.                          *)
(*                                                                           *)
(* The edit form is filled when the page of the server is loaded, not when   *)
(* it is opened, is never filled again, and sends all its fields on every    *)
(* save.  Meanwhile a payment moves the date of renewal, another admin sets   *)
(* the server under maintenance or archives it, and the check writes what it  *)
(* found for the status it read before it tried.  The date itself travels as  *)
(* the first ten digits of a UTC instant: a form holds the day before.        *)
(*                                                                           *)
(* Of the fields the form sends, the model keeps the main address, the date,  *)
(* the status and the customer; the others (name, prices) go back and forth   *)
(* the same way and nothing but the form writes them.  Dates are days.  The   *)
(* route that saves also takes the mark of an active server, and the one that *)
(* archives also removes a server for good: no page asks for either, another  *)
(* client may.                                                                *)
EXTENDS Integers, Sequences

CONSTANTS
    Admins,
    Ips,          \* the main addresses a server may be given
    Dates,        \* the dates of renewal an admin may type
    None,         \* no date of renewal
    Today,
    Period,       \* days a paid renewal adds
    TTL,          \* how long the panel takes a token from memory
    MaxServers,   \* bound: servers in the table
    Budgets       \* bounds, of which a behaviour has one: saves, archivings and new tokens; additions;
                  \* pages loaded; renewals paid; checks; ticks of the clock; restarts of the panel;
                  \* changes on the page of the addresses

FleetAssumption ==
    /\ {TTL, MaxServers} \subseteq Nat \ {0} /\ {Today, Period} \subseteq Nat /\ Dates \subseteq Int /\ None \in Int
    /\ Budgets \subseteq [acts : Nat, adds : Nat, loads : Nat, paid : Nat, looks : Nat, now : Nat, crashes : Nat, moves : Nat]
    /\ \A c \in Budgets, d \in Dates \cup {Today} : d - c.loads > None
    /\ "check" \notin Admins

Ids == 1..MaxServers
Greatest(p, q) == IF p > q THEN p ELSE q

VARIABLES
    fleet,        \* table servers, by id, with the rows as they were that are gone
    gone,         \* ids of the servers that were removed for good
    owner,        \* table ip_addresses: the server of an address, or 0
    agent,        \* the token the agent on the machine was installed with, or 0
    cache,        \* tokens in the memory of the panel: [id, token, age, after]
    forms,        \* the edit form of an admin's page, or NoForm
    additions,    \* a server an admin is adding: [step, ip, id], or NoAddition
    looked,       \* the statuses the check under way has read, or "none"
    count,        \* how many acts, additions, loads and so on are still to come at most
    word,         \* history: per server, the address and date promised, the status wished, what was lost
    behind,       \* history: what a form, or the check, was filled too early to know
    overdue,      \* history: the longest a replaced token was still taken
    met, torn,    \* history: addresses of additions that crossed, or broke off
    edited        \* history: addresses a save took or gave, or that were moved or left behind

Live == "watched"
NoForm == [id |-> 0, ip |-> "none", renews |-> None, status |-> "unknown", customer |-> 0]
NoAddition == [step |-> "none", ip |-> "none", id |-> 0]
Copies == Admins \cup {"check"}

\* A server as it is inserted: the form for a new one sends neither date nor customer id.
Fresh(ip) == [ip |-> ip, renews |-> None, status |-> "unknown", customer |-> 0, active |-> TRUE, token |-> 1]
Word(r) == [ip |-> r.ip, date |-> r.renews, loads |-> 0, status |-> Live, lost |-> {}]

Init ==
    /\ \E ip \in Ips, d \in Dates, c \in {0, 1} :
           /\ fleet = <<[Fresh(ip) EXCEPT !.renews = d, !.status = "up", !.customer = c]>>
           /\ owner \in {[j \in Ips |-> IF j = ip THEN 1 ELSE 0], [j \in Ips |-> 1]}
    /\ gone = {} /\ agent = [i \in Ids |-> IF i = 1 THEN 1 ELSE 0] /\ cache = {}
    /\ forms = [p \in Admins |-> NoForm] /\ additions = [p \in Admins |-> NoAddition]
    /\ looked = [i \in Ids |-> "none"]
    /\ count \in Budgets
    /\ word = [i \in Ids |-> IF i = 1 THEN Word(fleet[1]) ELSE Word(Fresh("none"))]
    /\ behind = [q \in Copies |-> {}]
    /\ overdue = 0 /\ met = {} /\ torn = {} /\ edited = {}

ghosts == <<overdue, met, torn, edited>>
\* The servers there are; what is said of one that is gone finds no row.
Standing == DOMAIN fleet \ gone
Counted(c) == count[c] > 0 /\ count' = [count EXCEPT ![c] = @ - 1]

-----------------------------------------------------------------------------
(* The page of a server.                                                     *)

\* The day a browser finds in the date the panel sends: midnight of the panel's zone
\* is still the day before in UTC.
Day(r) == IF r = None THEN None ELSE r - 1

\* The fields of the form, filled once from the server the page was loaded with.
Filled(i) ==
    [id |-> i, ip |-> fleet[i].ip, renews |-> Day(fleet[i].renews), status |-> fleet[i].status,
     customer |-> fleet[i].customer]

\* The page is loaded; it polls the server after that, the form stays as it was filled.
Load(p, i) ==
    /\ Counted("loads") /\ i \in Standing
    /\ forms' = [forms EXCEPT ![p] = Filled(i)]
    /\ behind' = [behind EXCEPT ![p] = {}]
    /\ word' = [word EXCEPT ![i].loads = @ + 1]
    /\ UNCHANGED <<gone, fleet, owner, agent, cache, additions, looked, ghosts>>

\* What may be typed before a save: at most one field, to keep the forms few.
Typed(f) ==
    {f} \cup {[f EXCEPT !.ip = ip] : ip \in Ips}
        \cup {[f EXCEPT !.renews = d] : d \in Dates \cup {None}}
        \cup {[f EXCEPT !.status = s] : s \in {"up", "maintenance"}}
        \cup {[f EXCEPT !.customer = c] : c \in {0, 1}}

\* A customer left empty arrives as null, becomes the number 0 and fails the foreign key:
\* the whole save is refused.
Accepts(g) == g.customer # 0

\* Mutant: an empty date leaves the one there is.
WrittenKeepDate(r, g) ==
    [r EXCEPT !.ip = g.ip, !.renews = IF g.renews = None THEN @ ELSE g.renews, !.status = g.status,
              !.customer = g.customer]

\* Every field the request carries is set: an empty date is null, and the address is
\* that of the form, whoever has it.  The list of addresses is not touched.
Written(r, g) == [r EXCEPT !.ip = g.ip, !.renews = g.renews, !.status = g.status, !.customer = g.customer]

Wish(s) == IF s = "maintenance" THEN "maintenance" ELSE Live

Holds(q, i) == IF q = "check" THEN looked[i] # "none" ELSE forms[q].id = i

\* What the other copies of server i do not know once p has decided the parts in news.
Overtaken(p, i, news) ==
    [q \in Copies |->
        IF q = p THEN behind[q] \ ({i} \X news)
        ELSE IF Holds(q, i) THEN behind[q] \cup ({i} \X news) ELSE behind[q]]

Facts == {"ip", "date", "status"}
\* What an admin has decided who typed g where the form had f.
Decided(f, g) ==
    {n \in Facts : \/ n = "ip" /\ g.ip # f.ip
                   \/ n = "date" /\ g.renews # f.renews
                   \/ n = "status" /\ g.status # f.status}

\* The word on a server once g is written of which only the news was decided: the rest is
\* lost where the form was behind.
Promised(w, g, news, old) ==
    [ip |-> IF "ip" \in news THEN g.ip ELSE w.ip,
     date |-> IF "date" \in news THEN g.renews ELSE w.date,
     loads |-> IF "date" \in news THEN 0 ELSE w.loads,
     status |-> IF "status" \in news THEN Wish(g.status) ELSE w.status,
     lost |-> (w.lost \ news) \cup (old \ news)]

Save(p) ==
    LET f == forms[p]  i == f.id IN
    /\ i \in Standing
    /\ \E g \in Typed(f) :
           LET news == Decided(f, g)  old == {n \in Facts : <<i, n>> \in behind[p]} IN
           /\ Accepts(g)
           /\ fleet' = [fleet EXCEPT ![i] = Written(@, g)]
           /\ forms' = [forms EXCEPT ![p] = g]
           /\ behind' = Overtaken(p, i, news)
           /\ word' = [word EXCEPT ![i] = Promised(@, g, news, old)]
           /\ edited' = IF g.ip = fleet[i].ip THEN edited ELSE edited \cup {fleet[i].ip, g.ip}
    /\ Counted("acts")
    /\ UNCHANGED <<gone, owner, agent, cache, additions, looked, overdue, met, torn>>

\* The tokens of a server in memory are no longer to be taken.
Ended(i) == {IF e.id = i /\ e.after < 0 THEN [e EXCEPT !.after = 0] ELSE e : e \in cache}

\* The button at the foot of the form; the browser then goes to the list.
Archive(p) ==
    LET i == forms[p].id IN
    /\ Counted("acts") /\ i \in Standing
    /\ fleet' = [fleet EXCEPT ![i].active = FALSE, ![i].status = "unknown"]
    /\ word' = [word EXCEPT ![i].status = "archived", ![i].lost = @ \ {"status"}]
    /\ behind' = [Overtaken(p, i, {"status"}) EXCEPT ![p] = {}]
    /\ forms' = [forms EXCEPT ![p] = NoForm]
    /\ cache' = Ended(i)
    /\ UNCHANGED <<gone, owner, agent, additions, looked, ghosts>>

\* A new token, from the page's part on the agent.
RotateToken(p) ==
    LET i == forms[p].id IN
    /\ Counted("acts") /\ i \in Standing
    /\ fleet' = [fleet EXCEPT ![i].token = @ + 1]
    /\ cache' = Ended(i)
    /\ UNCHANGED <<gone, owner, agent, forms, additions, looked, word, behind, ghosts>>

\* The token of a server that is active again is taken again.
Revived(i) ==
    {IF e.id = i /\ e.token = fleet[i].token THEN [e EXCEPT !.after = 0 - 1] ELSE e : e \in cache}

\* A request that only sets the mark of an active server.
SetActive(i, active) ==
    /\ Counted("acts") /\ i \in Standing
    /\ fleet' = [fleet EXCEPT ![i].active = active]
    /\ word' = [word EXCEPT ![i].status = IF active /\ @ = "archived" THEN Live ELSE @]
    /\ cache' = IF active THEN Revived(i) ELSE Ended(i)
    /\ UNCHANGED <<gone, owner, agent, forms, additions, looked, behind, ghosts>>

\* The server is removed for good; its addresses belong to nobody then, also one that
\* another server has too.
Remove(i) ==
    /\ Counted("acts") /\ i \in Standing
    /\ gone' = gone \cup {i}
    /\ owner' = [ip \in Ips |-> IF owner[ip] = i THEN 0 ELSE owner[ip]]
    /\ edited' = edited \cup {ip \in Ips : ip = fleet[i].ip /\ \E j \in Standing \ {i} : fleet[j].ip = ip}
    /\ UNCHANGED <<fleet, agent, cache, forms, additions, looked, word, behind, overdue, met, torn>>

-----------------------------------------------------------------------------
(* What else writes a server.                                                *)

\* Mutant: the months are counted from the day of the payment.
ExtendedFromToday(r) == Today + Period

\* Months are added to the end of what is paid for, or to today if that is later.
Extended(r) == Greatest(IF r = None THEN Today ELSE r, Today) + Period

\* An invoice for the renewal is paid; the form of a page loaded before does not know.
Pay(i) ==
    /\ Counted("paid") /\ i \in Standing /\ fleet[i].customer # 0
    /\ fleet' = [fleet EXCEPT ![i].renews = Extended(@)]
    /\ word' = [word EXCEPT ![i].date = Greatest(IF @ = None THEN Today ELSE @, Today) + Period]
    /\ behind' = [q \in Copies |-> IF q # "check" /\ Holds(q, i) THEN behind[q] \cup {<<i, "date">>} ELSE behind[q]]
    /\ UNCHANGED <<gone, owner, agent, cache, forms, additions, looked, ghosts>>

\* The commands of the page are run on the machine.
Install(i) ==
    /\ i \in Standing /\ agent[i] # fleet[i].token
    /\ agent' = [agent EXCEPT ![i] = fleet[i].token]
    /\ UNCHANGED <<gone, fleet, owner, cache, forms, additions, looked, count, word, behind, ghosts>>

\* Mutant: a report ends maintenance.
ReportedPlain(s) == "up"

\* A report makes a server reachable, but for one under maintenance.
Reported(s) == IF s = "maintenance" THEN s ELSE "up"

\* Mutant: each report starts the time of the token in memory anew.
ServedAnew(e) == [e EXCEPT !.age = 0]

\* A token found in memory stays there as old as it was.
Served(e) == e

\* A report of the agent.  A token in memory is taken as it is, whatever became of the
\* server since; only another one is looked up, and remembered.  What it measured of a
\* server that is gone is refused with the rest.
Report(i) ==
    LET hits == {e \in cache : e.id = i /\ e.token = agent[i]} IN
    /\ i \in Standing /\ agent[i] # 0
    /\ hits # {} \/ (fleet[i].active /\ fleet[i].token = agent[i])
    /\ cache' = IF hits # {} THEN (cache \ hits) \cup {Served(e) : e \in hits}
                ELSE cache \cup {[id |-> i, token |-> agent[i], age |-> 0, after |-> 0 - 1]}
    /\ overdue' = IF \E e \in hits : e.after > overdue THEN (CHOOSE e \in hits : TRUE).after ELSE overdue
    /\ fleet' = [fleet EXCEPT ![i].status = Reported(@)]
    /\ word' = IF fleet[i].active THEN word ELSE [word EXCEPT ![i].lost = @ \cup {"status"}]
    /\ UNCHANGED <<gone, owner, agent, forms, additions, looked, count, behind, met, torn, edited>>

\* The check reads the servers that are active, and then tries them one by one.
Look ==
    /\ Counted("looks") /\ \A i \in Ids : looked[i] = "none"
    /\ looked' = [i \in Ids |-> IF i \in Standing /\ fleet[i].active THEN fleet[i].status ELSE "none"]
    /\ \E i \in Ids : looked'[i] # "none"
    /\ behind' = [behind EXCEPT !["check"] = {}]
    /\ UNCHANGED <<gone, fleet, owner, agent, cache, forms, additions, word, ghosts>>

\* Mutant: the check tries servers under maintenance too.
SkippedNone(s) == FALSE

\* A server that was under maintenance when the check read it is left alone.
Skipped(s) == s = "maintenance"

\* What it found is written when it differs from what it had read.
Verdict(i, found) ==
    /\ looked[i] # "none"
    /\ looked' = [looked EXCEPT ![i] = "none"]
    /\ LET writes == i \in Standing /\ ~Skipped(looked[i]) /\ looked[i] # found IN
       /\ fleet' = IF writes THEN [fleet EXCEPT ![i].status = found] ELSE fleet
       /\ word' = IF writes /\ <<i, "status">> \in behind["check"]
                  THEN [word EXCEPT ![i].lost = @ \cup {"status"}] ELSE word
    /\ behind' = [behind EXCEPT !["check"] = @ \ ({i} \X Facts)]
    /\ UNCHANGED <<gone, owner, agent, cache, forms, additions, count, ghosts>>

Tick ==
    /\ Counted("now")
    /\ cache' = {[e EXCEPT !.age = @ + 1, !.after = IF @ < 0 THEN @ ELSE @ + 1] : e \in {c \in cache : c.age + 1 < TTL}}
    /\ UNCHANGED <<gone, fleet, owner, agent, forms, additions, looked, word, behind, ghosts>>

-----------------------------------------------------------------------------
(* Adding a server.                                                          *)

\* Mutant: an address may be given to a second server.
UnusedAny(ip) == TRUE

\* No server has the address, active or archived.
Unused(ip) == \A i \in Standing : fleet[i].ip # ip

\* The form is sent, and the address looked up.
Add(p) ==
    /\ Counted("adds") /\ additions[p] = NoAddition /\ Len(fleet) < MaxServers
    /\ \E ip \in Ips : Unused(ip) /\ additions' = [additions EXCEPT ![p] = [step |-> "insert", ip |-> ip, id |-> 0]]
    /\ UNCHANGED <<gone, fleet, owner, agent, cache, forms, looked, word, behind, ghosts>>

\* The server is inserted: nothing in the table keeps two from having one address.
Insert(p) ==
    LET ip == additions[p].ip IN
    /\ additions[p].step = "insert" /\ Len(fleet) < MaxServers
    /\ met' = IF \E q \in Admins \ {p} : additions[q].ip = ip THEN met \cup {ip} ELSE met
    /\ fleet' = Append(fleet, Fresh(ip))
    /\ additions' = [additions EXCEPT ![p].step = "address", ![p].id = Len(fleet) + 1]
    /\ word' = [word EXCEPT ![Len(fleet) + 1] = Word(Fresh(ip))]
    /\ UNCHANGED <<gone, owner, agent, cache, forms, looked, count, behind, overdue, torn, edited>>

\* Mutant: an address that is on the list already is left as it is.
TiedIfFree(was, id) == IF was = 0 THEN id ELSE was

\* The address goes to the new server, whosever it was.
Tied(was, id) == id

\* That of a server removed meanwhile is refused.
Address(p) ==
    /\ additions[p].step = "address"
    /\ owner' = IF additions[p].id \in gone THEN owner
                ELSE [owner EXCEPT ![additions[p].ip] = Tied(@, additions[p].id)]
    /\ additions' = [additions EXCEPT ![p] = NoAddition]
    /\ UNCHANGED <<gone, fleet, agent, cache, forms, looked, count, word, behind, ghosts>>

\* The panel restarts: the memory is empty, requests under way end where they are.
Restart ==
    /\ Counted("crashes")
    /\ cache' = {} /\ additions' = [p \in Admins |-> NoAddition]
    /\ torn' = torn \cup {additions[p].ip : p \in {q \in Admins : additions[q].step = "address"}}
    /\ UNCHANGED <<gone, fleet, owner, agent, forms, looked, word, behind, overdue, met, edited>>

\* The page of the addresses gives one to another server, or to none, or strikes it off.
Move(ip) ==
    /\ Counted("moves")
    /\ \E id \in Standing \cup {0} : owner' = [owner EXCEPT ![ip] = id]
    /\ edited' = edited \cup {ip}
    /\ UNCHANGED <<gone, fleet, agent, cache, forms, additions, looked, word, behind, overdue, met, torn>>

-----------------------------------------------------------------------------
Next ==
    \/ \E p \in Admins :
        \/ \E i \in DOMAIN fleet : Load(p, i)
        \/ Save(p)
        \/ Archive(p)
        \/ RotateToken(p)
        \/ Add(p)
        \/ Insert(p)
        \/ Address(p)
    \/ \E i \in DOMAIN fleet :
        \/ Pay(i)
        \/ Install(i)
        \/ Report(i)
        \/ \E found \in {"up", "down"} : Verdict(i, found)
        \/ \E active \in BOOLEAN : SetActive(i, active)
        \/ Remove(i)
    \/ \E ip \in Ips : Move(ip)
    \/ Look
    \/ Tick
    \/ Restart

-----------------------------------------------------------------------------
\* The date of renewal is the one last typed, moved by every payment since, less at
\* most a day for each time the page was loaded; more is lost only when a page
\* loaded before the payment, or before the typing, was saved.
DateKept(i) ==
    \/ "date" \in word[i].lost
    \/ fleet[i].renews = word[i].date
    \/ /\ None \notin {fleet[i].renews, word[i].date}
       /\ word[i].date - fleet[i].renews \in 0..word[i].loads

\* A server stays under maintenance, or archived with its status unknown, until an
\* admin says otherwise, unless he saved a page older than that, or the check, or the
\* memory of the panel, was.
StatusKept(i) ==
    \/ "status" \in word[i].lost
    \/ /\ (fleet[i].status = "maintenance") = (word[i].status = "maintenance")
       /\ word[i].status = "archived" => fleet[i].status = "unknown" /\ ~fleet[i].active

\* The main address of a server is the one last typed, unless an older page was saved
\* since.  It belongs to the server, or to the one that crossed it, once both statements
\* of the addition are done, and two servers have one address only if their additions
\* crossed; but for an address that was edited since: a save looks neither at the other
\* servers nor at the list of addresses.
AddressKept(i) ==
    LET ip == fleet[i].ip IN
    /\ "ip" \in word[i].lost \/ ip = word[i].ip
    /\ \/ ip \in torn \cup edited
       \/ \E p \in Admins : additions[p].step = "address" /\ additions[p].ip = ip /\ additions[p].id \notin gone
       \/ owner[ip] \in Standing /\ fleet[owner[ip]].ip = ip
    /\ \A j \in Standing : j # i /\ fleet[j].ip = ip => ip \in met \cup edited

\* The servers of the panel say what was decided of them, whatever the order of the
\* saves, payments, reports and checks; and a token that was replaced, or whose server
\* was archived, is taken for less than the lifetime of the memory.
ServersHold ==
    /\ \A i \in Standing : DateKept(i) /\ StatusKept(i) /\ AddressKept(i)
    /\ overdue < TTL

=============================================================================
