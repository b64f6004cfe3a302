----------------------------- MODULE SwitchPoll -----------------------------
(***************************************************************************)
(* The periodic reading of one switch by the worker (worker/switches.mjs   *)
(* with the driver worker/snmp.mjs): a reading is many requests, of which  *)
(* some may go unanswered; its result is compared with the stored row of   *)
(* the port, the difference of the counters is counted as traffic, and the *)
(* incidents port_down and switch_down are opened and closed.              *)
(*                                                                         *)
(* One port is followed.  It has two names, that of ifName and that of     *)
(* ifDescr, and hence up to two rows.  Time is counted in ticks; the link  *)
(* carries at most Speed octets a tick and a 32-bit counter counts modulo  *)
(* Wrap.                                                                   *)
(***************************************************************************)
EXTENDS Integers

CONSTANTS
    Wrap,       \* 2^32 in the code
    Speed,      \* octets the link carries in a tick
    Grace,      \* PORT_DOWN_GRACE_SEC, in ticks
    HasHC,      \* whether a switch has the 64-bit counters (ifHCInOctets): {TRUE}, {FALSE} or both
    Losable,    \* the columns whose walk may fail: {"ifName", "ifAdmin", "ifHC"}
    Servers,    \* servers the port may be linked to
    NoServer,
    MaxTime,    \* bound on the clock
    MaxEvents   \* bound on what happens to the device and in the panel

PollAssumption ==
    /\ Wrap \in Nat \ {0} /\ Speed \in Nat /\ Grace \in Nat
    /\ HasHC \subseteq BOOLEAN
    /\ Losable \subseteq {"ifName", "ifAdmin", "ifHC"}
    /\ NoServer \notin Servers
    /\ MaxTime \in Nat /\ MaxEvents \in Nat

VARIABLES
    dev,      \* the device: 64-bit counters, reachable, port open, link, octets since boot
    now,      \* the clock
    counted,  \* traffic counted, by name of the port
    sw,       \* the row of the switch: active, fail_streak
    row,      \* the rows of switch_ports, by name
    inc,      \* name -> servers for which a port_down incident is open
    down,     \* whether a switch_down incident is open
    poll,     \* the reading in progress
    events    \* how many events have happened

vars == <<dev, now, counted, sw, row, inc, down, poll, events>>

Names == {"ifName", "ifDescr"}
Null == "null"      \* SQL NULL in a column that is otherwise Boolean
UpDown(b) == IF b THEN "up" ELSE "down"

NoRow == [known |-> FALSE, present |-> FALSE, admin |-> Null, oper |-> Null, octets |-> 0, at |-> 0,
          changed |-> 0, server |-> NoServer, alert |-> FALSE]
Idle == [pc |-> "idle", lost |-> {}, shut |-> FALSE, admin |-> Null, oper |-> Null, octets |-> 0,
         at |-> 0, prev |-> [n \in Names |-> NoRow]]

TypeOK ==
    /\ dev \in [hc : BOOLEAN, up : BOOLEAN, admin : BOOLEAN, link : BOOLEAN, octets : Nat]
    /\ now \in 0..MaxTime /\ events \in 0..MaxEvents /\ counted \in [Names -> Nat]
    /\ sw \in [active : BOOLEAN, streak : 0..2]
    /\ \A n \in Names : /\ row[n].oper \in {"up", "down", Null}
                        /\ row[n].admin \in {"up", "down", Null}
                        /\ row[n].at \in 0..now /\ row[n].changed \in 0..now
    /\ inc \in [Names -> SUBSET (Servers \union {NoServer})]
    /\ down \in BOOLEAN
    /\ poll.pc \in {"idle", "first", "rest", "rows", "store", "ports", "close"}

\* The port is known under its first name, linked to a server and alerted.
Init ==
    /\ \E hc \in HasHC : dev = [hc |-> hc, up |-> TRUE, admin |-> TRUE, link |-> TRUE, octets |-> 0]
    /\ now = 0 /\ counted = [n \in Names |-> 0] /\ events = 0
    /\ sw = [active |-> TRUE, streak |-> 0]
    /\ \E s \in Servers :
          row = [n \in Names |-> IF n = "ifName" THEN [NoRow EXCEPT !.known = TRUE, !.present = TRUE, !.admin = "up",
                                                        !.oper = "up", !.server = s, !.alert = TRUE] ELSE NoRow]
    /\ inc = [n \in Names |-> {}]
    /\ down = FALSE
    /\ poll = Idle

-----------------------------------------------------------------------------
(* The device and the panel.                                               *)

\* A tick: a link that is up carries some octets.
Tick ==
    /\ now < MaxTime
    /\ now' = now + 1
    /\ \E n \in 0..(IF dev.admin /\ dev.link THEN Speed ELSE 0) : dev' = [dev EXCEPT !.octets = @ + n]
    /\ UNCHANGED <<counted, sw, row, inc, down, poll, events>>

Event == events < MaxEvents /\ events' = events + 1

\* The link goes down or up, the port is shut or opened, the switch is lost
\* or found, the switch restarts and its counters begin again.
DeviceEvent ==
    /\ Event
    /\ \/ dev' = [dev EXCEPT !.link = ~@]
       \/ dev' = [dev EXCEPT !.admin = ~@]
       \/ dev' = [dev EXCEPT !.up = ~@]
       \/ dev.octets > 0 /\ dev' = [dev EXCEPT !.octets = 0]
    /\ UNCHANGED <<now, counted, sw, row, inc, down, poll>>

\* An admin links the port to a server or not, with its alert on or off
\* (PATCH /api/switch-ports).
SetPort ==
    \E n \in Names, s \in Servers \union {NoServer}, alert \in BOOLEAN :
        /\ Event
        /\ row[n].known
        /\ <<s, alert>> # <<row[n].server, row[n].alert>>
        /\ row' = [row EXCEPT ![n].server = s, ![n].alert = alert]
        /\ UNCHANGED <<dev, now, counted, sw, inc, down, poll>>

\* An admin takes the switch out of service or back (PUT /api/switches).
SetActive ==
    /\ Event
    /\ sw' = [sw EXCEPT !.active = ~@]
    /\ UNCHANGED <<dev, now, counted, row, inc, down, poll>>

-----------------------------------------------------------------------------
(* The reading.                                                            *)

\* pollSwitches: the incidents of a switch out of service are closed, and the
\* switches in service are read.
PollSwitches ==
    /\ poll.pc = "idle"
    /\ IF sw.active
       THEN poll' = [Idle EXCEPT !.pc = "first"] /\ UNCHANGED <<inc, down>>
       ELSE /\ inc # [n \in Names |-> {}] \/ down
            /\ inc' = [n \in Names |-> {}] /\ down' = FALSE
            /\ UNCHANGED poll
    /\ UNCHANGED <<dev, now, counted, sw, row, events>>

\* The failures from which on the switch counts as out of reach.
Unreachable(streak) == streak >= 2

\* markFailure: two failures in a row mean that the switch is out of reach;
\* from then on each failure sees to it that the incident is open.
MarkFailure ==
    LET streak == IF sw.streak < 2 THEN sw.streak + 1 ELSE 2
    IN  /\ sw' = [sw EXCEPT !.streak = streak]
        /\ down' = (down \/ Unreachable(streak))
        /\ poll' = Idle

\* collect, the first part: the system group, then the columns up to
\* ifAdminStatus.  Without an answer the reading has failed; a column that is
\* not required may be missing from it.
CollectFirst ==
    /\ poll.pc = "first"
    /\ \/ /\ ~dev.up
          /\ MarkFailure
          /\ UNCHANGED events
       \/ /\ dev.up
          /\ \E lost \in SUBSET Losable :
                /\ IF lost = {} THEN UNCHANGED events ELSE Event
                /\ poll' = [poll EXCEPT !.pc = "rest", !.lost = lost, !.shut = ~dev.admin,
                                        !.admin = IF "ifAdmin" \in lost THEN Null ELSE UpDown(dev.admin)]
          /\ UNCHANGED <<sw, down>>
    /\ UNCHANGED <<dev, now, counted, row, inc>>

\* collect, the rest: ifOperStatus, which is required, and the counters; the
\* 32-bit ones stand in where the 64-bit ones did not come.
CollectRest ==
    /\ poll.pc = "rest"
    /\ \/ ~dev.up /\ MarkFailure
       \/ /\ dev.up
          /\ poll' = [poll EXCEPT !.pc = "rows",
                                  !.oper = UpDown(dev.admin /\ dev.link),
                                  !.octets = IF dev.hc /\ "ifHC" \notin poll.lost THEN dev.octets ELSE dev.octets % Wrap]
          /\ UNCHANGED <<sw, down>>
    /\ UNCHANGED <<dev, now, counted, row, inc, events>>

\* pollOne reads the stored rows of the switch.
ReadRows ==
    /\ poll.pc = "rows"
    /\ poll' = [poll EXCEPT !.pc = "store", !.at = now, !.prev = row]
    /\ UNCHANGED <<dev, now, counted, sw, row, inc, down, events>>

\* buildPorts: the name of the port is that of ifName, or else of ifDescr.
NameRead == IF "ifName" \in poll.lost THEN "ifDescr" ELSE "ifName"
BitsRead == IF dev.hc /\ "ifHC" \notin poll.lost THEN 64 ELSE 32

\* Mutant: a counter that went back is taken for one that went round, with 64
\* bits as with 32.
CounterDeltaAlways(prev, cur, bits) ==
    IF cur >= prev THEN cur - prev ELSE cur + Wrap * Wrap - prev

\* counterDelta: a counter that went back means a restart and counts zero,
\* unless it has 32 bits, when it has gone round.
CounterDelta(prev, cur, bits) ==
    IF cur >= prev THEN cur - prev
    ELSE IF bits = 32 /\ prev < Wrap THEN cur + Wrap - prev ELSE 0

\* The traffic of one reading: nothing without an earlier one or without
\* elapsed time, and nothing when a 32-bit difference is more than the link
\* can have carried (with a margin of a fifth).
Delta(p0) ==
    LET elapsed == poll.at - p0.at
        d == CounterDelta(p0.octets, poll.octets, BitsRead)
    IN  IF ~p0.known \/ elapsed <= 0 THEN 0
        ELSE IF BitsRead = 32 /\ 5 * d > 6 * Speed * elapsed THEN 0 ELSE d

\* The port as the reading saw it is stored under its name (a new row for a
\* new name, the server and the alert left as they are); the port of the
\* other name is not present any more; the difference is counted; the switch
\* is up again and its incident closed.
Store ==
    LET n == NameRead
        p0 == poll.prev[n]
        new == [row[n] EXCEPT !.known = TRUE, !.present = TRUE, !.admin = poll.admin, !.oper = poll.oper,
                              !.octets = poll.octets, !.at = poll.at,
                              !.changed = IF row[n].known /\ row[n].oper = poll.oper THEN @ ELSE poll.at]
    IN  /\ poll.pc = "store"
        /\ row' = [m \in Names |->
                     IF m = n THEN new
                     ELSE IF row[m].present THEN [row[m] EXCEPT !.present = FALSE, !.oper = Null] ELSE row[m]]
        /\ counted' = [counted EXCEPT ![n] = @ + Delta(p0)]
        /\ sw' = [sw EXCEPT !.streak = 0]
        /\ down' = FALSE
        /\ poll' = [poll EXCEPT !.pc = "ports"]
        /\ UNCHANGED <<dev, now, inc, events>>

\* How long the link has been down at this reading.
DownFor(p0) == IF p0.oper # poll.oper THEN 0 ELSE poll.at - p0.changed

\* Mutant: a port that was shut is treated like one that went down.
DownAndNotShutOnlyDown == poll.oper = "down"

\* The link is down and nobody shut the port.
DownAndNotShut == poll.admin # "down" /\ poll.oper = "down"

\* evaluatePorts: the incident is opened once the link has been down for the
\* grace period, and closed when it is up or the port has been shut.  The
\* server and the alert are those of the row read before the reading was
\* stored; a port without an earlier row is left alone.
EvaluatePorts ==
    LET n == NameRead
        p0 == poll.prev[n]
    IN  /\ poll.pc = "ports"
        /\ inc' = [inc EXCEPT ![n] =
                     IF ~p0.known \/ ~p0.alert THEN @
                     ELSE IF DownAndNotShut THEN (IF DownFor(p0) < Grace THEN @ ELSE @ \union {p0.server})
                     ELSE IF poll.oper = "up" \/ poll.admin = "down" THEN @ \ {p0.server}
                     ELSE @]
        /\ poll' = [poll EXCEPT !.pc = "close"]
        /\ UNCHANGED <<dev, now, counted, sw, row, down, events>>

\* Mutant: the incidents of a port whose server was changed stay open.
CloseStrayOfPresent(n) == IF ~row[n].present \/ ~row[n].alert THEN {} ELSE inc[n]

\* The incidents that remain of a port as it is now: none of a port that is
\* not present or has no alert, and none of a server it is not linked to.
CloseStray(n) == IF ~row[n].present \/ ~row[n].alert THEN {} ELSE inc[n] \intersect {row[n].server}

ClosePorts ==
    /\ poll.pc = "close"
    /\ inc' = [n \in Names |-> CloseStray(n)]
    /\ poll' = Idle
    /\ UNCHANGED <<dev, now, counted, sw, row, down, events>>

-----------------------------------------------------------------------------

Poll == PollSwitches \/ CollectFirst \/ CollectRest \/ ReadRows \/ Store \/ EvaluatePorts \/ ClosePorts

Next == Tick \/ DeviceEvent \/ SetPort \/ SetActive \/ Poll

\* The worker's loop goes on (schedule in worker/index.mjs) and time passes.
Spec == Init /\ [][Next]_vars /\ WF_vars(Poll) /\ WF_vars(Tick)

-----------------------------------------------------------------------------
(* What must hold.                                                         *)

\* The traffic counted is never more than the link can have carried, give or
\* take the margin: neither a restart of the switch nor a counter that goes
\* round yields "a negative or astronomical number" (worker/nxapi.mjs).
NeverAstronomical == TypeOK /\ \A n \in Names : 5 * counted[n] <= 6 * Speed * now

\* A port that was shut when the reading began is not reported as down, however
\* long it is shut.
ShutIsQuiet == [][(\E n \in Names : ~(inc'[n] \subseteq inc[n])) => ~poll.shut]_vars

\* What should be open of a port: one incident, of the server it is linked to.
Due(n) ==
    IF row[n].present /\ row[n].alert /\ row[n].oper = "down" /\ row[n].admin # "down" /\ now - row[n].changed >= Grace
    THEN {row[n].server} ELSE {}

\* Once nothing changes any more the incidents agree with what is: that of the
\* port is open if and only if it is down, alerted and not shut, under the
\* server it has now, and none is left behind under another server or another
\* name; those of a switch out of service are closed; a switch in service is
\* reported if and only if it is out of reach, also when it was out of service
\* in between.
IncidentsSettle ==
    <>[](IF sw.active
         THEN /\ down <=> ~dev.up
              /\ dev.up => \A n \in Names : inc[n] = Due(n)
         ELSE ~down /\ \A n \in Names : inc[n] = {})
=============================================================================
