---------------------------- MODULE SwitchProofs ----------------------------
(***************************************************************************)
(* What the worker and the panel do with switches, for any bounds: the     *)
(* traffic counted is carried by the link, a port shut on purpose makes no *)
(* incident, a command shuts no other port, and a transfer delivers the    *)
(* whole file or none.                                                     *)
(***************************************************************************)
EXTENDS MCReading, SequenceTheorems, WellFoundedInduction, TLAPS

\* The transfer with variables of its own, and files of any length.
CONSTANTS Blocks, MaxRetries, Ways, Ports
VARIABLES job, slot, ses, file, tdev, net, panel
X == INSTANCE Transfer WITH dev <- tdev, Last <- Blocks
-----------------------------------------------------------------------------
(* Reading the ports.                                                      *)

(***************************************************************************)
(* Products of natural numbers: what a link of some speed carries in some  *)
(* time.                                                                   *)
(***************************************************************************)
LEMMA Carried ==
    ASSUME NEW u \in Nat, NEW t \in Nat
    PROVE  /\ u * t \in Nat /\ 6 * u * t = 6 * (u * t) /\ 6 * u * t \in Nat
           /\ u * (t + 1) = u * t + u
<1>1. u * t \in Nat /\ u * (t + 1) = u * t + u
    OBVIOUS
<1>2. 6 * u * t = 6 * (u * t)
    OBVIOUS
<1> QED BY <1>1, <1>2

(***************************************************************************)
(* It carries no less in a longer time, and in two spans what it carries   *)
(* in each.                                                                *)
(***************************************************************************)
LEMMA CarriedLonger ==
    ASSUME NEW u \in Nat, NEW t \in Nat, NEW w \in Nat, t <= w
    PROVE  u * t <= u * w /\ 6 * u * t + 6 * u * (w - t) = 6 * u * w /\ 6 * u * t <= 6 * u * w
<1> DEFINE x == w - t
<1>1. x \in Nat /\ w = t + x
    OBVIOUS
<1>2. u * (t + x) = u * t + u * x /\ u * x \in Nat /\ u * t \in Nat
    BY <1>1
<1>3. 6 * u * t = 6 * (u * t) /\ 6 * u * x = 6 * (u * x) /\ 6 * u * w = 6 * (u * w)
    BY <1>1, Carried
<1> HIDE DEF x
<1>4. u * w = u * t + u * x
    BY <1>1, <1>2
<1>5. 6 * u * t + 6 * u * x = 6 * u * w
    BY <1>2, <1>3, <1>4
<1>6. u * t <= u * w /\ 6 * u * t <= 6 * u * w
    BY <1>2, <1>3, <1>4
<1> QED BY <1>5, <1>6 DEF x

(***************************************************************************)
(* How far a counter is ahead of another.                                  *)
(***************************************************************************)
Ahead(x, y) == IF x > y THEN x - y ELSE 0

(***************************************************************************)
(* The rows of a port and the reading, as records.                         *)
(***************************************************************************)
States == {"up", "down", "null"}
PortRows == [known : BOOLEAN, present : BOOLEAN, admin : States, oper : States, octets : Nat, at : Nat,
             changed : Nat, server : Linked \cup {NoServer}, alert : BOOLEAN]
Readings == [pc : {"idle", "first", "rest", "rows", "store", "ports", "close"}, lost : SUBSET Losable,
             shut : BOOLEAN, admin : States, oper : States, octets : Nat, at : Nat, prev : [P!Names -> PortRows]]

PollTyped ==
    /\ pdev \in [hc : BOOLEAN, up : BOOLEAN, admin : BOOLEAN, link : BOOLEAN, octets : Nat]
    /\ now \in 0 .. MaxTime /\ pevents \in 0 .. MaxHappenings /\ counted \in [P!Names -> Nat]
    /\ sw \in [active : BOOLEAN, streak : 0 .. 2]
    /\ row \in [P!Names -> PortRows]
    /\ \A n \in P!Names : row[n].at <= now /\ row[n].changed <= now
    /\ inc \in [P!Names -> SUBSET (Linked \cup {NoServer})]
    /\ down \in BOOLEAN
    /\ poll \in Readings

(***************************************************************************)
(* What a reading holds: the rows as they still are, but for what an admin *)
(* may set, from no later than now.                                        *)
(***************************************************************************)
RowsAsRead ==
    poll.pc = "store" =>
        /\ poll.at <= now
        /\ \A n \in P!Names : /\ poll.prev[n].known = row[n].known /\ poll.prev[n].octets = row[n].octets
                              /\ poll.prev[n].at = row[n].at /\ row[n].at <= poll.at

(***************************************************************************)
(* A 64-bit counter: what was counted of a port and what its counter is    *)
(* ahead of the stored one, by way of the counter that was read, is no     *)
(* more than the link has carried.                                         *)
(***************************************************************************)
CountedWide(n) ==
    /\ row[n].known => counted[n] + Ahead(pdev.octets, row[n].octets) <= Speed * now
    /\ row[n].known /\ poll.pc \in {"rows", "store"} =>
          counted[n] + Ahead(poll.octets, row[n].octets) + Ahead(pdev.octets, poll.octets) <= Speed * now

(***************************************************************************)
(* A 32-bit counter: what was counted of a port is no more than the link   *)
(* carries, with the margin, up to the time of its row.                    *)
(***************************************************************************)
CountedNarrow(n) == 5 * counted[n] <= 6 * Speed * row[n].at

(***************************************************************************)
(* A reading that found the port shut, when it began, knows that somebody  *)
(* shut it.                                                                *)
(***************************************************************************)
ShutIsKnown == poll.pc \notin {"idle", "first"} /\ poll.shut => poll.admin = "down"

(***************************************************************************)
(* The inductive invariant of the readings: what is counted is right where *)
(* the 64-bit counters come with every reading, and a shut port is known   *)
(* where its state does.                                                   *)
(***************************************************************************)
PollInv ==
    /\ PollTyped /\ RowsAsRead
    /\ pdev.octets <= Speed * now
    /\ "ifHC" \notin Losable =>
          \A n \in P!Names : /\ ~row[n].known => counted[n] = 0
                             /\ pdev.hc => CountedWide(n)
                             /\ ~pdev.hc => CountedNarrow(n)
    /\ "ifAdmin" \notin Losable => ShutIsKnown

(***************************************************************************)
(* What the assumption on the constants says of the reading.               *)
(***************************************************************************)
LEMMA PollConstants ==
    /\ Wrap \in Nat \ {0} /\ Speed \in Nat /\ Grace \in Nat /\ HasHC \subseteq BOOLEAN
    /\ MaxTime \in Nat /\ MaxHappenings \in Nat /\ P!Names = {"ifName", "ifDescr"} /\ NoServer \notin Linked
    /\ Losable \subseteq {"ifName", "ifAdmin", "ifHC"}
BY ReadingAssumption DEF ReadingAssumption, P!PollAssumption, P!Names

(***************************************************************************)
(* The row of a port that has gone keeps what is counted from.             *)
(***************************************************************************)
LEMMA RowGone ==
    ASSUME NEW r \in PortRows, NEW op \in States, NEW t, t = [r EXCEPT !.present = FALSE, !.oper = op]
    PROVE  t \in PortRows /\ t.known = r.known /\ t.octets = r.octets /\ t.at = r.at /\ t.changed = r.changed
BY DEF PortRows

(***************************************************************************)
(* No reading is under way.                                                *)
(***************************************************************************)
LEMMA IdleTyped == P!Idle \in Readings /\ P!NoRow \in PortRows /\ P!Idle.pc = "idle" /\ P!Idle.lost = {}
<1>1. P!NoRow \in PortRows
    BY DEF P!NoRow, PortRows, States, P!Null
<1>2. P!Idle \in Readings
    BY <1>1 DEF P!Idle, Readings, States, P!Null
<1> QED BY <1>1, <1>2 DEF P!Idle

(***************************************************************************)
(* The worker starts with no row, no reading and nothing counted.          *)
(***************************************************************************)
LEMMA InitPoll == Init => PollInv
<1> SUFFICES ASSUME P!Init PROVE PollInv
    BY DEF Init
<1> USE PollConstants
<1>1. PICK hc \in HasHC : pdev = [hc |-> hc, up |-> TRUE, admin |-> TRUE, link |-> TRUE, octets |-> 0]
    BY DEF P!Init
<1>2. PICK s \in Linked :
         row = [n \in P!Names |-> IF n = "ifName" THEN [P!NoRow EXCEPT !.known = TRUE, !.present = TRUE, !.admin = "up",
                                                        !.oper = "up", !.server = s, !.alert = TRUE] ELSE P!NoRow]
    BY DEF P!Init
<1> DEFINE new == [P!NoRow EXCEPT !.known = TRUE, !.present = TRUE, !.admin = "up",
                                  !.oper = "up", !.server = s, !.alert = TRUE]
<1>3. new \in PortRows /\ new.at = 0 /\ new.changed = 0 /\ new.octets = 0
    BY DEF P!NoRow, PortRows, States, P!Null
<1>4. P!NoRow \in PortRows /\ P!NoRow.at = 0 /\ P!NoRow.changed = 0
    BY IdleTyped DEF P!NoRow
<1> HIDE DEF new
<1>5. \A n \in P!Names : row[n] = IF n = "ifName" THEN new ELSE P!NoRow
    BY <1>2 DEF new
<1>6. row \in [P!Names -> PortRows]
    BY <1>2, <1>3, <1>4 DEF new
<1>7. /\ now = 0 /\ counted = [n \in P!Names |-> 0] /\ pevents = 0 /\ sw = [active |-> TRUE, streak |-> 0]
      /\ inc = [n \in P!Names |-> {}] /\ down = FALSE /\ poll = P!Idle
    BY DEF P!Init
<1>8. \A n \in P!Names : row[n].at = 0 /\ row[n].changed = 0 /\ (row[n].known => row[n].octets = 0)
    BY <1>3, <1>4, <1>5 DEF P!NoRow
<1>9. PollTyped
    <2>1. pdev \in [hc : BOOLEAN, up : BOOLEAN, admin : BOOLEAN, link : BOOLEAN, octets : Nat]
        BY <1>1
    <2>2. \A n \in P!Names : row[n].at <= now /\ row[n].changed <= now
        BY <1>7, <1>8
    <2>3. now \in 0 .. MaxTime /\ pevents \in 0 .. MaxHappenings /\ counted \in [P!Names -> Nat]
        BY <1>7
    <2>4. sw \in [active : BOOLEAN, streak : 0 .. 2]
        BY <1>7
    <2>5. inc \in [P!Names -> SUBSET (Linked \cup {NoServer})] /\ down \in BOOLEAN /\ poll \in Readings
        BY <1>7, IdleTyped
    <2> QED BY <1>6, <2>1, <2>2, <2>3, <2>4, <2>5 DEF PollTyped
<1>10. RowsAsRead /\ ShutIsKnown
    BY <1>7, IdleTyped DEF RowsAsRead, ShutIsKnown
<1>11. pdev.octets = 0 /\ Speed * now = 0 /\ 6 * Speed * 0 = 0
    BY <1>1, <1>7
<1>12. ASSUME NEW n \in P!Names
       PROVE  (~row[n].known => counted[n] = 0) /\ CountedWide(n) /\ CountedNarrow(n)
    <2>1. counted[n] = 0
        BY <1>7
    <2>2. CountedWide(n)
        BY <2>1, <1>8, <1>11, <1>7, IdleTyped DEF CountedWide, Ahead
    <2> QED BY <2>1, <2>2, <1>8, <1>11 DEF CountedNarrow
<1> QED BY <1>9, <1>10, <1>11, <1>12 DEF PollInv

(***************************************************************************)
(* The clock goes on and the link carries something.                       *)
(***************************************************************************)
LEMMA TickPoll == ASSUME PollInv, P!Tick PROVE PollInv'
<1> USE PollConstants
<1>1. /\ now < MaxTime /\ now' = now + 1
      /\ UNCHANGED <<counted, sw, row, inc, down, poll, pevents>>
    BY DEF P!Tick
<1>2. PICK k \in 0 .. (IF pdev.admin /\ pdev.link THEN Speed ELSE 0) : pdev' = [pdev EXCEPT !.octets = @ + k]
    BY DEF P!Tick
<1>3. pdev \in [hc : BOOLEAN, up : BOOLEAN, admin : BOOLEAN, link : BOOLEAN, octets : Nat] /\ now \in Nat
    BY DEF PollInv, PollTyped
<1>4. k \in Nat /\ k <= Speed
    OBVIOUS
<1>5. /\ pdev' \in [hc : BOOLEAN, up : BOOLEAN, admin : BOOLEAN, link : BOOLEAN, octets : Nat]
      /\ pdev'.octets = pdev.octets + k /\ pdev'.hc = pdev.hc
    BY <1>2, <1>3, <1>4
<1>6. Speed * now' = Speed * now + Speed /\ Speed * now \in Nat
    BY <1>1, <1>3, Carried
<1>7. PollTyped'
    BY <1>1, <1>5 DEF PollInv, PollTyped, PortRows
<1>8. RowsAsRead'
    BY <1>1, <1>3 DEF PollInv, RowsAsRead, PollTyped, Readings
<1>9. ASSUME "ifHC" \notin Losable, NEW n \in P!Names, pdev.hc PROVE CountedWide(n)'
    <2> DEFINE c == counted[n]
               r == row[n].octets
               o == pdev.octets
               q == poll.octets
    <2>1. c \in Nat /\ r \in Nat /\ o \in Nat /\ q \in Nat
        BY DEF PollInv, PollTyped, PortRows, Readings
    <2>2. CountedWide(n)
        BY <1>9 DEF PollInv
    <2> HIDE DEF c, r, o, q
    <2>3. Ahead(o + k, r) <= Ahead(o, r) + Speed /\ Ahead(o + k, q) <= Ahead(o, q) + Speed
        BY <2>1, <1>4 DEF Ahead
    <2>4. Ahead(o, r) \in Nat /\ Ahead(o, q) \in Nat /\ Ahead(q, r) \in Nat /\ Ahead(o + k, r) \in Nat /\ Ahead(o + k, q) \in Nat
        BY <2>1, <1>4 DEF Ahead
    <2>5. c + Ahead(o, r) <= Speed * now => c + Ahead(o + k, r) <= Speed * now'
        BY <2>1, <2>3, <2>4, <1>6
    <2>6. c + Ahead(q, r) + Ahead(o, q) <= Speed * now => c + Ahead(q, r) + Ahead(o + k, q) <= Speed * now'
        BY <2>1, <2>3, <2>4, <1>6
    <2> QED BY <2>2, <2>5, <2>6, <1>1, <1>5 DEF CountedWide, c, r, o, q
<1>10. ASSUME "ifHC" \notin Losable, NEW n \in P!Names, ~pdev.hc PROVE CountedNarrow(n)'
    BY <1>10, <1>1 DEF PollInv, CountedNarrow
<1>11. pdev'.octets <= Speed * now'
    <2>1. pdev.octets \in Nat /\ pdev.octets <= Speed * now
        BY <1>3 DEF PollInv
    <2> QED BY <2>1, <1>4, <1>5, <1>6
<1>20. ShutIsKnown => ShutIsKnown'
    BY <1>1 DEF ShutIsKnown
<1> QED BY <1>20, <1>1, <1>5, <1>7, <1>8, <1>9, <1>10, <1>11 DEF PollInv

(***************************************************************************)
(* The link, the port, the switch change, or its counters begin again.     *)
(***************************************************************************)
LEMMA DevicePoll == ASSUME PollInv, P!DeviceEvent PROVE PollInv'
<1> USE PollConstants
<1>1. UNCHANGED <<now, counted, sw, row, inc, down, poll>> /\ pevents' \in 0 .. MaxHappenings
    BY DEF P!DeviceEvent, P!Event, PollInv, PollTyped
<1>2. /\ pdev' \in [hc : BOOLEAN, up : BOOLEAN, admin : BOOLEAN, link : BOOLEAN, octets : Nat]
      /\ pdev'.hc = pdev.hc /\ pdev'.octets <= pdev.octets
    <2> DEFINE Device == [hc : BOOLEAN, up : BOOLEAN, admin : BOOLEAN, link : BOOLEAN, octets : Nat]
               Same == pdev' \in Device /\ pdev'.hc = pdev.hc /\ pdev'.octets \in {pdev.octets, 0}
    <2>1. pdev \in Device
        BY DEF PollInv, PollTyped
    <2>2. (~pdev.link) \in BOOLEAN /\ (~pdev.admin) \in BOOLEAN /\ (~pdev.up) \in BOOLEAN
        BY Zenon
    <2>3. ASSUME NEW b \in BOOLEAN, pdev' = [pdev EXCEPT !.link = b] PROVE Same
        BY <2>1, <2>3
    <2>4. ASSUME NEW b \in BOOLEAN, pdev' = [pdev EXCEPT !.admin = b] PROVE Same
        BY <2>1, <2>4
    <2>5. ASSUME NEW b \in BOOLEAN, pdev' = [pdev EXCEPT !.up = b] PROVE Same
        BY <2>1, <2>5
    <2>6. ASSUME pdev' = [pdev EXCEPT !.octets = 0] PROVE Same
        BY <2>1, <2>6
    <2>7. Same
        BY <2>2, <2>3, <2>4, <2>5, <2>6 DEF P!DeviceEvent
    <2> QED BY <2>1, <2>7
<1>3. PollTyped' /\ RowsAsRead'
    BY <1>1, <1>2 DEF PollInv, PollTyped, RowsAsRead
<1>4. Speed * now \in Nat /\ pdev.octets \in Nat /\ pdev'.octets \in Nat
    BY <1>2, Carried DEF PollInv, PollTyped
<1>5. ASSUME "ifHC" \notin Losable, NEW n \in P!Names, pdev.hc PROVE CountedWide(n)'
    <2> DEFINE c == counted[n]
               r == row[n].octets
               o == pdev.octets
               z == pdev'.octets
               q == poll.octets
    <2>1. c \in Nat /\ r \in Nat /\ o \in Nat /\ q \in Nat /\ z \in Nat /\ z <= o
        BY <1>2 DEF PollInv, PollTyped, PortRows, Readings
    <2>2. CountedWide(n)
        BY <1>5 DEF PollInv
    <2> HIDE DEF c, r, o, q, z
    <2>3. Ahead(z, r) <= Ahead(o, r) /\ Ahead(z, q) <= Ahead(o, q)
        BY <2>1 DEF Ahead
    <2>4. Ahead(o, r) \in Nat /\ Ahead(o, q) \in Nat /\ Ahead(q, r) \in Nat /\ Ahead(z, r) \in Nat /\ Ahead(z, q) \in Nat
        BY <2>1 DEF Ahead
    <2>5. c + Ahead(o, r) <= Speed * now => c + Ahead(z, r) <= Speed * now
        BY <2>1, <2>3, <2>4, <1>4
    <2>6. c + Ahead(q, r) + Ahead(o, q) <= Speed * now => c + Ahead(q, r) + Ahead(z, q) <= Speed * now
        BY <2>1, <2>3, <2>4, <1>4
    <2> QED BY <2>2, <2>5, <2>6, <1>1, <1>2 DEF CountedWide, c, r, o, q, z
<1>6. ASSUME "ifHC" \notin Losable, NEW n \in P!Names, ~pdev.hc PROVE CountedNarrow(n)'
    BY <1>6, <1>1 DEF PollInv, CountedNarrow
<1>20. ShutIsKnown => ShutIsKnown'
    BY <1>1 DEF ShutIsKnown
<1> QED BY <1>20, <1>1, <1>2, <1>3, <1>4, <1>5, <1>6 DEF PollInv

(***************************************************************************)
(* What an admin sets of the row is not what is counted from.              *)
(***************************************************************************)
LEMMA SetPoll == ASSUME PollInv, P!SetPort PROVE PollInv'
<1> USE PollConstants
<1>1. PICK n \in P!Names, s \in Linked \cup {NoServer}, alert \in BOOLEAN :
          /\ P!Event /\ row' = [row EXCEPT ![n].server = s, ![n].alert = alert]
          /\ UNCHANGED <<pdev, now, counted, sw, inc, down, poll>>
    BY DEF P!SetPort
<1>2. row \in [P!Names -> PortRows] /\ pevents' \in 0 .. MaxHappenings
    BY <1>1 DEF PollInv, PollTyped, P!Event
<1> DEFINE new == [row[n] EXCEPT !.server = s, !.alert = alert]
<1>3. /\ new \in PortRows /\ new.known = row[n].known /\ new.octets = row[n].octets /\ new.at = row[n].at
      /\ new.changed = row[n].changed
    <2> DEFINE r == row[n]
    <2>1. r \in PortRows
        BY <1>2
    <2> DEFINE t == [r EXCEPT !.server = s, !.alert = alert]
    <2>2. t = new /\ t = [r EXCEPT !.server = s, !.alert = alert]
        BY DEF r
    <2> HIDE DEF r, t
    <2>3. t \in PortRows /\ t.known = r.known /\ t.octets = r.octets /\ t.at = r.at /\ t.changed = r.changed
        BY <2>1, <2>2 DEF PortRows
    <2> QED BY <2>2, <2>3 DEF r
<1>4. row' = [row EXCEPT ![n] = new]
    BY <1>1
<1> HIDE DEF new
<1>5. /\ row' \in [P!Names -> PortRows]
      /\ \A m \in P!Names : /\ row'[m].known = row[m].known /\ row'[m].octets = row[m].octets
                            /\ row'[m].at = row[m].at /\ row'[m].changed = row[m].changed
    BY <1>2, <1>3, <1>4
<1>6. PollTyped'
    BY <1>1, <1>2, <1>5 DEF PollInv, PollTyped
<1>7. RowsAsRead'
    BY <1>1, <1>5 DEF PollInv, RowsAsRead
<1>8. ASSUME NEW m \in P!Names
      PROVE  (CountedWide(m) => CountedWide(m)') /\ (CountedNarrow(m) => CountedNarrow(m)')
    BY <1>1, <1>5 DEF CountedWide, CountedNarrow
<1>20. ShutIsKnown => ShutIsKnown'
    BY <1>1 DEF ShutIsKnown
<1> QED BY <1>20, <1>1, <1>5, <1>6, <1>7, <1>8 DEF PollInv

(***************************************************************************)
(* Steps that touch neither the counters nor the rows: taking the switch   *)
(* out of service, the beginning of a reading, its failure, its first      *)
(* answer, and its incidents.                                              *)
(***************************************************************************)
LEMMA QuietPoll ==
    ASSUME PollInv, UNCHANGED <<pdev, now, counted, row>>, PollTyped', poll'.pc \notin {"rows", "store"},
           "ifAdmin" \notin Losable => ShutIsKnown'
    PROVE  PollInv'
<1>1. RowsAsRead'
    BY DEF RowsAsRead
<1>2. ASSUME NEW n \in P!Names
      PROVE  (CountedWide(n) => CountedWide(n)') /\ (CountedNarrow(n) => CountedNarrow(n)')
    BY DEF CountedWide, CountedNarrow
<1> QED BY <1>1, <1>2 DEF PollInv

(***************************************************************************)
(* The switch is taken out of service or back.                             *)
(***************************************************************************)
LEMMA ActivePoll == ASSUME PollInv, P!SetActive PROVE PollInv'
<1>1. /\ UNCHANGED <<pdev, now, counted, row, inc, down, poll>>
      /\ pevents' \in 0 .. MaxHappenings /\ sw' = [sw EXCEPT !.active = ~@]
    BY PollConstants DEF P!SetActive, P!Event, PollInv, PollTyped
<1>2. sw' \in [active : BOOLEAN, streak : 0 .. 2]
    BY <1>1 DEF PollInv, PollTyped
<1>3. PollTyped' /\ RowsAsRead'
    BY <1>1, <1>2 DEF PollInv, PollTyped, RowsAsRead
<1>4. ASSUME NEW n \in P!Names
      PROVE  (CountedWide(n) => CountedWide(n)') /\ (CountedNarrow(n) => CountedNarrow(n)')
    BY <1>1 DEF CountedWide, CountedNarrow
<1>20. ShutIsKnown => ShutIsKnown'
    BY <1>1 DEF ShutIsKnown
<1> QED BY <1>20, <1>1, <1>3, <1>4 DEF PollInv

(***************************************************************************)
(* A reading begins, or the incidents of a switch out of service close.    *)
(***************************************************************************)
LEMMA BeginPoll == ASSUME PollInv, P!PollSwitches PROVE PollInv'
<1>1. UNCHANGED <<pdev, now, counted, sw, row, pevents>> /\ poll.pc = "idle"
    BY DEF P!PollSwitches
<1>2. P!Idle.pc = "idle" /\ [P!Idle EXCEPT !.pc = "first"] \in Readings /\ [P!Idle EXCEPT !.pc = "first"].pc = "first"
    BY IdleTyped DEF Readings, P!Idle
<1>3. poll' \in Readings /\ poll'.pc \in {"idle", "first"}
    BY <1>1, <1>2 DEF P!PollSwitches, PollInv, PollTyped
<1>4. inc' \in [P!Names -> SUBSET (Linked \cup {NoServer})] /\ down' \in BOOLEAN
    BY DEF P!PollSwitches, PollInv, PollTyped
<1>5. PollTyped'
    BY <1>1, <1>3, <1>4 DEF PollInv, PollTyped
<1> QED BY <1>1, <1>3, <1>5, QuietPoll DEF ShutIsKnown

(***************************************************************************)
(* A reading that got no answer.                                           *)
(***************************************************************************)
LEMMA FailPoll ==
    ASSUME PollInv, P!MarkFailure, UNCHANGED <<pdev, now, counted, row, inc, pevents>>
    PROVE  PollInv'
<1>1. poll' = P!Idle /\ down' \in BOOLEAN /\ sw' = [sw EXCEPT !.streak = IF sw.streak < 2 THEN sw.streak + 1 ELSE 2]
    BY DEF P!MarkFailure, P!Unreachable, PollInv, PollTyped
<1>2. sw' \in [active : BOOLEAN, streak : 0 .. 2]
    BY <1>1 DEF PollInv, PollTyped
<1>3. PollTyped'
    BY <1>1, <1>2, IdleTyped DEF PollInv, PollTyped
<1> QED BY <1>1, <1>3, IdleTyped, QuietPoll DEF ShutIsKnown

(***************************************************************************)
(* The first answers of a reading.                                         *)
(***************************************************************************)
LEMMA FirstPoll == ASSUME PollInv, P!CollectFirst PROVE PollInv'
<1>1. UNCHANGED <<pdev, now, counted, row, inc>>
    BY DEF P!CollectFirst
<1>2. CASE ~pdev.up
    BY <1>1, <1>2, FailPoll DEF P!CollectFirst
<1>3. CASE pdev.up
    <2>1. PICK lost \in SUBSET Losable :
              /\ IF lost = {} THEN UNCHANGED pevents ELSE P!Event
              /\ poll' = [poll EXCEPT !.pc = "rest", !.lost = lost, !.shut = ~pdev.admin,
                                      !.admin = IF "ifAdmin" \in lost THEN P!Null ELSE P!UpDown(pdev.admin)]
        BY <1>3 DEF P!CollectFirst
    <2>2. UNCHANGED <<sw, down>> /\ pevents' \in 0 .. MaxHappenings
        <3>1. UNCHANGED <<sw, down>>
            BY <1>3 DEF P!CollectFirst
        <3>2. pevents \in 0 .. MaxHappenings /\ MaxHappenings \in Nat
            BY PollConstants DEF PollInv, PollTyped
        <3>3. pevents' = pevents \/ (pevents < MaxHappenings /\ pevents' = pevents + 1)
            BY <2>1 DEF P!Event
        <3> QED BY <3>1, <3>2, <3>3
    <2> DEFINE ad == IF "ifAdmin" \in lost THEN P!Null ELSE P!UpDown(pdev.admin)
    <2>3. ad \in States /\ (~pdev.admin) \in BOOLEAN
        BY DEF States, P!Null, P!UpDown
    <2>6. "ifAdmin" \notin Losable /\ ~pdev.admin => ad = "down"
        BY DEF P!UpDown
    <2> HIDE DEF ad
    <2>4. poll' \in Readings /\ poll'.pc = "rest" /\ poll'.shut = (~pdev.admin) /\ poll'.admin = ad
        BY <2>1, <2>3 DEF ad, PollInv, PollTyped, Readings
    <2>5. PollTyped'
        BY <1>1, <2>2, <2>4 DEF PollInv, PollTyped
    <2>7. "ifAdmin" \notin Losable => ShutIsKnown'
        BY <2>4, <2>6 DEF ShutIsKnown
    <2> QED BY <1>1, <2>2, <2>4, <2>5, <2>7, QuietPoll
<1> QED BY <1>2, <1>3

(***************************************************************************)
(* The counters are read.                                                  *)
(***************************************************************************)
LEMMA RestPoll == ASSUME PollInv, P!CollectRest PROVE PollInv'
<1> USE PollConstants
<1>1. UNCHANGED <<pdev, now, counted, row, inc, pevents>>
    BY DEF P!CollectRest
<1>4. poll.pc = "rest"
    BY DEF P!CollectRest
<1>2. CASE P!MarkFailure
    BY <1>1, <1>2, FailPoll
<1>3. ASSUME poll' = [poll EXCEPT !.pc = "rows", !.oper = P!UpDown(pdev.admin /\ pdev.link),
                                 !.octets = IF pdev.hc /\ "ifHC" \notin poll.lost THEN pdev.octets ELSE pdev.octets % Wrap],
             UNCHANGED <<sw, down>>
      PROVE  PollInv'
    <2>1. poll.lost \subseteq Losable /\ pdev.octets \in Nat /\ poll \in Readings
        BY DEF PollInv, PollTyped, Readings
    <2> DEFINE oc == IF pdev.hc /\ "ifHC" \notin poll.lost THEN pdev.octets ELSE pdev.octets % Wrap
               op == P!UpDown(pdev.admin /\ pdev.link)
    <2>2. oc \in Nat /\ ("ifHC" \notin Losable /\ pdev.hc => oc = pdev.octets)
        BY <2>1
    <2>3. op \in States
        BY DEF States, P!UpDown
    <2> HIDE DEF oc, op
    <2>4. poll' = [poll EXCEPT !.pc = "rows", !.oper = op, !.octets = oc]
        BY <1>3 DEF oc, op
    <2>5. poll' \in Readings /\ poll'.pc = "rows" /\ poll'.octets = oc /\ poll'.shut = poll.shut /\ poll'.admin = poll.admin
        BY <2>1, <2>2, <2>3, <2>4 DEF Readings
    <2>6. PollTyped' /\ RowsAsRead'
        BY <1>1, <1>3, <2>5 DEF PollInv, PollTyped, RowsAsRead
    <2>7. ASSUME "ifHC" \notin Losable, NEW n \in P!Names, pdev.hc PROVE CountedWide(n)'
        <3>1. CountedWide(n) /\ oc = pdev.octets
            BY <2>2, <2>7 DEF PollInv
        <3>2. counted[n] \in Nat /\ row[n].octets \in Nat
            BY DEF PollInv, PollTyped, PortRows
        <3>3. Ahead(pdev.octets, pdev.octets) = 0 /\ Ahead(pdev.octets, row[n].octets) \in Nat
            BY <2>1, <3>2 DEF Ahead
        <3> QED BY <1>1, <2>5, <3>1, <3>2, <3>3 DEF CountedWide
    <2>8. ASSUME "ifHC" \notin Losable, NEW n \in P!Names, ~pdev.hc PROVE CountedNarrow(n)'
        BY <1>1, <2>8 DEF PollInv, CountedNarrow
    <2>9. "ifAdmin" \notin Losable => ShutIsKnown'
        BY <1>4, <2>5 DEF PollInv, ShutIsKnown
    <2> QED BY <1>1, <2>6, <2>7, <2>8, <2>9 DEF PollInv
<1> QED BY <1>2, <1>3 DEF P!CollectRest

(***************************************************************************)
(* The rows are read.                                                      *)
(***************************************************************************)
LEMMA RowsPoll == ASSUME PollInv, P!ReadRows PROVE PollInv'
<1> USE PollConstants
<1>1. /\ UNCHANGED <<pdev, now, counted, sw, row, inc, down, pevents>> /\ poll.pc = "rows"
      /\ poll' = [poll EXCEPT !.pc = "store", !.at = now, !.prev = row]
    BY DEF P!ReadRows
<1>2. now \in Nat /\ poll \in Readings /\ row \in [P!Names -> PortRows]
    BY DEF PollInv, PollTyped
<1>3. poll' \in Readings /\ poll'.octets = poll.octets /\ poll'.at = now /\ poll'.prev = row /\ poll'.pc = "store"
      /\ poll'.shut = poll.shut /\ poll'.admin = poll.admin
    BY <1>1, <1>2 DEF Readings
<1>4. PollTyped'
    BY <1>1, <1>3 DEF PollInv, PollTyped
<1>5. RowsAsRead'
    BY <1>1, <1>2, <1>3 DEF PollInv, PollTyped, RowsAsRead
<1>6. ASSUME NEW n \in P!Names
      PROVE  (CountedWide(n) => CountedWide(n)') /\ (CountedNarrow(n) => CountedNarrow(n)')
    BY <1>1, <1>3 DEF CountedWide, CountedNarrow
<1>7. "ifAdmin" \notin Losable => ShutIsKnown'
    BY <1>1, <1>3 DEF PollInv, ShutIsKnown
<1> QED BY <1>1, <1>4, <1>5, <1>6, <1>7 DEF PollInv

(***************************************************************************)
(* What a reading adds: no more than the counter has gone on, with 64      *)
(* bits, or than the link carries since the row, with 32.                  *)
(***************************************************************************)
LEMMA Added ==
    ASSUME PollInv, poll.pc = "store", NEW n \in P!Names
    PROVE  /\ P!Delta(poll.prev[n]) \in Nat
           /\ ~row[n].known => P!Delta(poll.prev[n]) = 0
           /\ "ifHC" \notin Losable /\ pdev.hc => P!Delta(poll.prev[n]) <= Ahead(poll.octets, row[n].octets)
           /\ ~pdev.hc => 5 * P!Delta(poll.prev[n]) <= 6 * Speed * (poll.at - row[n].at)
<1> USE PollConstants
<1> DEFINE p0 == poll.prev[n]
           elapsed == poll.at - p0.at
           d == P!CounterDelta(p0.octets, poll.octets, P!BitsRead)
<1>1. /\ p0.known = row[n].known /\ p0.octets = row[n].octets /\ p0.at = row[n].at /\ row[n].at <= poll.at
      /\ p0.octets \in Nat /\ p0.at \in Nat /\ poll.octets \in Nat /\ poll.at \in Nat
    BY DEF PollInv, RowsAsRead, PollTyped, PortRows, Readings
<1>2. (~pdev.hc => P!BitsRead = 32) /\ ("ifHC" \notin Losable /\ pdev.hc => P!BitsRead = 64)
    BY DEF P!BitsRead, PollInv, PollTyped, Readings
<1>3. d \in Nat /\ ("ifHC" \notin Losable /\ pdev.hc => d <= Ahead(poll.octets, row[n].octets))
    BY <1>1, <1>2 DEF P!CounterDelta, Ahead
<1>4. elapsed \in Nat /\ 6 * Speed * elapsed \in Nat /\ Ahead(poll.octets, row[n].octets) \in Nat
    BY <1>1, Carried DEF Ahead
<1>5. P!Delta(p0) = IF ~p0.known \/ elapsed <= 0 THEN 0
                    ELSE IF P!BitsRead = 32 /\ 5 * d > 6 * Speed * elapsed THEN 0 ELSE d
    BY DEF P!Delta
<1> HIDE DEF d, elapsed
<1>6. P!Delta(p0) \in {0, d} /\ (~p0.known => P!Delta(p0) = 0)
    BY <1>5
<1>7. ~pdev.hc => 5 * P!Delta(p0) <= 6 * Speed * elapsed
    BY <1>2, <1>3, <1>4, <1>5
<1>8. 6 * Speed * elapsed = 6 * Speed * (poll.at - row[n].at)
    BY <1>1 DEF elapsed
<1> QED BY <1>1, <1>3, <1>4, <1>6, <1>7, <1>8

(***************************************************************************)
(* The reading is stored and the difference counted.                       *)
(***************************************************************************)
LEMMA StorePoll == ASSUME PollInv, P!Store PROVE PollInv'
<1> USE PollConstants
<1> DEFINE n == P!NameRead
           new == [row[n] EXCEPT !.known = TRUE, !.present = TRUE, !.admin = poll.admin, !.oper = poll.oper,
                                 !.octets = poll.octets, !.at = poll.at,
                                 !.changed = IF row[n].known /\ row[n].oper = poll.oper THEN @ ELSE poll.at]
           other(m) == IF row[m].present THEN [row[m] EXCEPT !.present = FALSE, !.oper = P!Null] ELSE row[m]
           delta == P!Delta(poll.prev[n])
<1>1. /\ poll.pc = "store" /\ n \in P!Names
      /\ row' = [m \in P!Names |-> IF m = n THEN new ELSE other(m)]
      /\ counted' = [counted EXCEPT ![n] = @ + delta]
      /\ sw' = [sw EXCEPT !.streak = 0] /\ down' = FALSE
      /\ poll' = [poll EXCEPT !.pc = "ports"]
      /\ UNCHANGED <<pdev, now, inc, pevents>>
    BY DEF P!Store, P!NameRead
<1>2. /\ row \in [P!Names -> PortRows] /\ poll \in Readings /\ now \in Nat /\ counted \in [P!Names -> Nat]
      /\ poll.at <= now /\ poll.at \in Nat /\ poll.octets \in Nat /\ poll.admin \in States /\ poll.oper \in States
    BY <1>1 DEF PollInv, PollTyped, RowsAsRead, Readings
<1>3. /\ delta \in Nat
      /\ ~row[n].known => delta = 0
      /\ "ifHC" \notin Losable /\ pdev.hc => delta <= Ahead(poll.octets, row[n].octets)
      /\ ~pdev.hc => 5 * delta <= 6 * Speed * (poll.at - row[n].at)
    BY <1>1, Added
<1> HIDE DEF n, delta
<1>4. /\ new \in PortRows /\ new.known /\ new.octets = poll.octets /\ new.at = poll.at
      /\ new.changed <= now
    <2> DEFINE r == row[n]
    <2>1. r \in PortRows /\ r.changed <= now
        BY <1>1, <1>2 DEF PollInv, PollTyped
    <2> HIDE DEF r
    <2> DEFINE changed == IF r.known /\ r.oper = poll.oper THEN r.changed ELSE poll.at
    <2>3. changed \in Nat /\ changed <= now
        BY <1>2, <2>1 DEF PortRows
    <2> HIDE DEF changed
    <2> DEFINE t == [r EXCEPT !.known = TRUE, !.present = TRUE, !.admin = poll.admin, !.oper = poll.oper,
                              !.octets = poll.octets, !.at = poll.at, !.changed = changed]
    <2>6. t = [r EXCEPT !.known = TRUE, !.present = TRUE, !.admin = poll.admin, !.oper = poll.oper,
                        !.octets = poll.octets, !.at = poll.at, !.changed = changed]
        OBVIOUS
    <2> HIDE DEF t
    <2>4. t \in PortRows /\ t.known /\ t.octets = poll.octets /\ t.at = poll.at /\ t.changed = changed
        BY <1>2, <2>1, <2>3, <2>6 DEF PortRows
    <2>5. new = t
        BY DEF changed, r, t
    <2> HIDE DEF new
    <2> QED BY <2>3, <2>4, <2>5
<1>5. ASSUME NEW m \in P!Names
      PROVE  /\ other(m) \in PortRows /\ other(m).known = row[m].known /\ other(m).octets = row[m].octets
             /\ other(m).at = row[m].at /\ other(m).changed = row[m].changed
    <2> DEFINE r == row[m]
    <2>1. r \in PortRows
        BY <1>2
    <2> HIDE DEF r
    <2> DEFINE gone == [r EXCEPT !.present = FALSE, !.oper = P!Null]
    <2>3. other(m) = IF r.present THEN gone ELSE r
        BY DEF r
    <2>4. P!Null \in States
        BY DEF P!Null, States
    <2>5. gone \in PortRows /\ gone.known = r.known /\ gone.octets = r.octets /\ gone.at = r.at /\ gone.changed = r.changed
        BY <2>1, <2>4, RowGone
    <2> HIDE DEF other, gone
    <2>6. r = row[m]
        BY DEF r
    <2> HIDE DEF r
    <2> QED BY <2>1, <2>3, <2>5, <2>6
<1> HIDE DEF new, other
<1>6. /\ row' \in [P!Names -> PortRows]
      /\ \A m \in P!Names : row'[m] = IF m = n THEN new ELSE other(m)
    BY <1>1, <1>4, <1>5
<1>7. \A m \in P!Names : row'[m].at <= now /\ row'[m].changed <= now
    <2> TAKE m \in P!Names
    <2>1. row[m].at <= now /\ row[m].changed <= now
        BY DEF PollInv, PollTyped
    <2> QED BY <1>2, <1>4, <1>5, <1>6, <2>1
<1>8. counted' \in [P!Names -> Nat] /\ \A m \in P!Names : counted'[m] = IF m = n THEN counted[n] + delta ELSE counted[m]
    BY <1>1, <1>2, <1>3
<1>9. poll' \in Readings /\ poll'.pc = "ports" /\ poll'.shut = poll.shut /\ poll'.admin = poll.admin
      /\ sw' \in [active : BOOLEAN, streak : 0 .. 2]
    <2>1. sw \in [active : BOOLEAN, streak : 0 .. 2]
        BY DEF PollInv, PollTyped
    <2> QED BY <1>1, <1>2, <2>1 DEF Readings
<1>10. PollTyped'
    BY <1>1, <1>6, <1>7, <1>8, <1>9 DEF PollInv, PollTyped
<1>11. RowsAsRead'
    BY <1>9 DEF RowsAsRead
<1>12. Speed * now \in Nat /\ pdev.octets \in Nat /\ pdev.octets <= Speed * now
    BY <1>2, Carried DEF PollInv, PollTyped
<1>13. ASSUME "ifHC" \notin Losable, NEW m \in P!Names, pdev.hc PROVE CountedWide(m)'
    <2>1. CountedWide(m) /\ counted[m] \in Nat /\ row[m].octets \in Nat
        BY <1>13, <1>2 DEF PollInv, PortRows
    <2> DEFINE c == counted[m]
               r == row[m].octets
               o == pdev.octets
               q == poll.octets
    <2>2. c \in Nat /\ r \in Nat /\ o \in Nat /\ q \in Nat
        BY <1>2, <1>12, <2>1
    <2>3. row[m].known => c + Ahead(q, r) + Ahead(o, q) <= Speed * now /\ c + Ahead(o, r) <= Speed * now
        BY <1>1, <2>1 DEF CountedWide
    <2>4. ~row[m].known => c = 0
        BY <1>13 DEF PollInv
    <2> HIDE DEF c, r, o, q
    <2>5. Ahead(o, q) \in Nat /\ Ahead(q, r) \in Nat /\ Ahead(o, q) <= o
        BY <2>2 DEF Ahead
    <2>6. CASE m = n
        <3>1. row'[m].octets = q /\ counted'[m] = c + delta
            BY <1>4, <1>6, <1>8, <2>6 DEF q, c
        <3>2. c + delta + Ahead(o, q) <= Speed * now
            <4>1. CASE row[m].known
                <5>1. delta <= Ahead(q, r)
                    BY <1>3, <1>13, <2>6 DEF q, r
                <5> QED BY <4>1, <5>1, <1>3, <1>12, <2>2, <2>3, <2>5
            <4>2. CASE ~row[m].known
                <5>1. delta = 0 /\ c = 0
                    BY <1>3, <2>4, <2>6, <4>2
                <5>2. o <= Speed * now
                    BY <1>12 DEF o
                <5> QED BY <5>1, <5>2, <1>12, <2>2, <2>5
            <4> QED BY <4>1, <4>2
        <3> QED BY <3>1, <3>2, <1>1, <1>9 DEF CountedWide, o
    <2>7. CASE m # n
        <3>1. row'[m].octets = r /\ counted'[m] = c /\ row'[m].known = row[m].known
            BY <1>5, <1>6, <1>8, <2>7 DEF r, c
        <3> QED BY <3>1, <2>3, <1>1, <1>9 DEF CountedWide, o
    <2> QED BY <2>6, <2>7
<1>14. ASSUME "ifHC" \notin Losable, NEW m \in P!Names, ~pdev.hc PROVE CountedNarrow(m)'
    <2>1. CountedNarrow(m) /\ counted[m] \in Nat /\ row[m].at \in Nat /\ row[m].at <= poll.at
        BY <1>14, <1>1, <1>2 DEF PollInv, PortRows, RowsAsRead
    <2>2. CASE m = n
        <3> DEFINE c == counted[n]
                   t == row[n].at
                   w == poll.at
        <3>1. row'[m].at = w /\ counted'[m] = c + delta
            BY <1>4, <1>6, <1>8, <2>2
        <3>2. /\ c \in Nat /\ t \in Nat /\ w \in Nat /\ t <= w /\ 5 * c <= 6 * Speed * t
              /\ 5 * delta <= 6 * Speed * (w - t)
            BY <1>2, <1>3, <1>14, <2>1, <2>2 DEF CountedNarrow
        <3> HIDE DEF c, t, w
        <3>3. 6 * Speed * t + 6 * Speed * (w - t) = 6 * Speed * w
            BY <3>2, CarriedLonger
        <3>4. 6 * Speed * t \in Nat /\ 6 * Speed * (w - t) \in Nat /\ 6 * Speed * w \in Nat
            <4>1. w - t \in Nat
                BY <3>2
            <4> QED BY <3>2, <4>1, Carried
        <3>5. 5 * (c + delta) <= 6 * Speed * w
            BY <3>2, <3>3, <3>4, <1>3
        <3> QED BY <3>1, <3>5 DEF CountedNarrow
    <2>3. CASE m # n
        BY <1>5, <1>6, <1>8, <2>1, <2>3 DEF CountedNarrow
    <2> QED BY <2>2, <2>3
<1>15. ASSUME "ifHC" \notin Losable, NEW m \in P!Names, ~row'[m].known PROVE counted'[m] = 0
    <2>1. m # n
        BY <1>4, <1>6, <1>15
    <2>2. ~row[m].known
        BY <1>5, <1>6, <1>15, <2>1
    <2> QED BY <1>8, <1>15, <2>1, <2>2 DEF PollInv
<1>16. "ifAdmin" \notin Losable => ShutIsKnown'
    BY <1>1, <1>9 DEF PollInv, ShutIsKnown
<1> QED BY <1>1, <1>10, <1>11, <1>12, <1>13, <1>14, <1>15, <1>16 DEF PollInv

(***************************************************************************)
(* The incidents of the port.                                              *)
(***************************************************************************)
LEMMA PortsPoll == ASSUME PollInv, P!EvaluatePorts PROVE PollInv'
<1>0. poll.pc = "ports"
    BY DEF P!EvaluatePorts
<1> DEFINE n == P!NameRead
           p0 == poll.prev[n]
<1>1. /\ UNCHANGED <<pdev, now, counted, sw, row, down, pevents>> /\ poll' = [poll EXCEPT !.pc = "close"]
      /\ n \in P!Names
      /\ inc' = [inc EXCEPT ![n] =
                     IF ~p0.known \/ ~p0.alert THEN @
                     ELSE IF P!DownAndNotShut THEN (IF P!DownFor(p0) < Grace THEN @ ELSE @ \union {p0.server})
                     ELSE IF poll.oper = "up" \/ poll.admin = "down" THEN @ \ {p0.server}
                     ELSE @]
    BY DEF P!EvaluatePorts, P!NameRead, P!Names
<1>2. p0.server \in Linked \cup {NoServer} /\ poll \in Readings /\ inc \in [P!Names -> SUBSET (Linked \cup {NoServer})]
    BY <1>1 DEF PollInv, PollTyped, Readings, PortRows
<1> HIDE DEF n, p0
<1>3. inc' \in [P!Names -> SUBSET (Linked \cup {NoServer})]
    BY <1>1, <1>2
<1>4. poll' \in Readings /\ poll'.pc = "close" /\ poll'.shut = poll.shut /\ poll'.admin = poll.admin
    BY <1>1, <1>2 DEF Readings
<1>5. PollTyped'
    BY <1>1, <1>3, <1>4 DEF PollInv, PollTyped
<1>6. "ifAdmin" \notin Losable => ShutIsKnown'
    BY <1>0, <1>4 DEF PollInv, ShutIsKnown
<1> QED BY <1>1, <1>4, <1>5, <1>6, QuietPoll

(***************************************************************************)
(* Those that remain.                                                      *)
(***************************************************************************)
LEMMA ClosePoll == ASSUME PollInv, P!ClosePorts PROVE PollInv'
<1>1. /\ UNCHANGED <<pdev, now, counted, sw, row, down, pevents>> /\ poll' = P!Idle
      /\ inc' = [m \in P!Names |-> P!CloseStray(m)]
    BY DEF P!ClosePorts
<1>2. \A m \in P!Names : P!CloseStray(m) \subseteq inc[m]
    BY DEF P!CloseStray
<1>3. inc' \in [P!Names -> SUBSET (Linked \cup {NoServer})]
    BY <1>1, <1>2 DEF PollInv, PollTyped
<1>4. PollTyped'
    BY <1>1, <1>3, IdleTyped DEF PollInv, PollTyped
<1> QED BY <1>1, <1>4, IdleTyped, QuietPoll DEF ShutIsKnown

(***************************************************************************)
(* Every step keeps the form, whichever part moves.                        *)
(***************************************************************************)
LEMMA PollStep == PollInv /\ [Next]_vars => PollInv'
<1> SUFFICES ASSUME PollInv, [Next]_vars PROVE PollInv'
    OBVIOUS
<1>1. CASE P!Next
    BY <1>1, TickPoll, DevicePoll, SetPoll, ActivePoll, BeginPoll, FirstPoll, RestPoll, RowsPoll, StorePoll, PortsPoll,
       ClosePoll DEF P!Next, P!Poll
<1>2. ASSUME UNCHANGED pvars PROVE PollInv'
    <2>1. UNCHANGED <<pdev, now, counted, sw, row, inc, down, poll, pevents>>
        BY <1>2 DEF pvars
    <2>2. PollTyped' /\ RowsAsRead'
        BY <2>1 DEF PollInv, PollTyped, RowsAsRead
    <2>3. ASSUME NEW n \in P!Names
          PROVE  (CountedWide(n) => CountedWide(n)') /\ (CountedNarrow(n) => CountedNarrow(n)')
        BY <2>1 DEF CountedWide, CountedNarrow
    <2>4. ShutIsKnown => ShutIsKnown'
        BY <2>1 DEF ShutIsKnown
    <2> QED BY <2>1, <2>2, <2>3, <2>4 DEF PollInv
<1> QED BY <1>1, <1>2 DEF Next, vars, OnlyPoll, OnlyBackups, OnlyHealth, OnlyCommands

(***************************************************************************)
(* What was counted is in proportion to the time that has gone by.         *)
(***************************************************************************)
LEMMA PollCounts == "ifHC" \notin Losable /\ PollInv => NeverAstronomical
<1> SUFFICES ASSUME "ifHC" \notin Losable, PollInv PROVE NeverAstronomical
    OBVIOUS
<1> USE PollConstants
<1>1. P!TypeOK
    BY DEF PollInv, PollTyped, P!TypeOK, PortRows, States, P!Null, Readings
<1>2. ASSUME NEW n \in P!Names PROVE 5 * counted[n] <= 6 * Speed * now
    <2> DEFINE c == counted[n]
               t == row[n].at
    <2>1. c \in Nat /\ t \in Nat /\ now \in Nat /\ t <= now /\ pdev.hc \in BOOLEAN
        BY DEF PollInv, PollTyped, PortRows
    <2>2. /\ pdev.hc => (row[n].known => c + Ahead(pdev.octets, row[n].octets) <= Speed * now) /\ (~row[n].known => c = 0)
          /\ ~pdev.hc => 5 * c <= 6 * Speed * t
        BY DEF PollInv, CountedWide, CountedNarrow
    <2>3. Ahead(pdev.octets, row[n].octets) \in Nat
        BY DEF PollInv, PollTyped, PortRows, Ahead
    <2> HIDE DEF c, t
    <2>4. Speed * now \in Nat /\ 6 * Speed * now = 6 * (Speed * now) /\ 6 * Speed * t <= 6 * Speed * now /\ 6 * Speed * t \in Nat
        BY <2>1, Carried, CarriedLonger
    <2>5. pdev.hc => c <= Speed * now
        BY <2>1, <2>2, <2>3, <2>4
    <2>6. 5 * c <= 6 * Speed * now
        BY <2>1, <2>2, <2>4, <2>5
    <2> QED BY <2>6 DEF c
<1> QED BY <1>1, <1>2 DEF NeverAstronomical, P!NeverAstronomical

(* The invariant holds always.                                             *)
(***************************************************************************)
LEMMA PollInvariance == Spec => []PollInv
    BY InitPoll, PollStep, PTL DEF Spec

(***************************************************************************)
(* NeverAstronomical, for any speed, wrap, grace, servers and times: what  *)
(* is counted of a port (counterDelta and the bound on its result) is no   *)
(* more than the link can have carried, where a switch that has the 64-bit *)
(* counters gives them in every reading.                                   *)
(***************************************************************************)
THEOREM CountedIsCarried == ASSUME "ifHC" \notin Losable PROVE Spec => []NeverAstronomical
    BY PollInvariance, PollCounts, PTL

(***************************************************************************)
(* ShutIsQuiet, for any of these: no incident of a port is opened after a  *)
(* reading that began when it was shut, where every reading learns whether *)
(* ports are shut (evaluatePorts).                                         *)
(***************************************************************************)
THEOREM ShutIsQuietHolds == ASSUME "ifAdmin" \notin Losable PROVE Spec => ShutIsQuiet
<1> DEFINE More == \E n \in P!Names : ~(inc'[n] \subseteq inc[n])
<1>1. ASSUME "ifAdmin" \notin Losable, PollInv, [Next]_vars PROVE [More => ~poll.shut]_(P!vars)
    <2> SUFFICES ASSUME NEW n \in P!Names, ~(inc'[n] \subseteq inc[n]), P!Next PROVE ~poll.shut
        BY <1>1 DEF Next, vars, pvars, P!vars, OnlyPoll, OnlyBackups, OnlyHealth, OnlyCommands
    <2>1. inc \in [P!Names -> SUBSET (Linked \cup {NoServer})] /\ ShutIsKnown
        BY <1>1 DEF PollInv, PollTyped
    <2>2. ~P!ClosePorts
        BY DEF P!ClosePorts, P!CloseStray
    <2>3. ~P!PollSwitches
        BY DEF P!PollSwitches
    <2>4. P!EvaluatePorts
        BY <2>2, <2>3 DEF P!Next, P!Poll, P!Tick, P!DeviceEvent, P!SetPort, P!SetActive, P!CollectFirst, P!CollectRest,
                          P!ReadRows, P!Store
    <2>5. P!DownAndNotShut
        BY <2>1, <2>4 DEF P!EvaluatePorts
    <2> QED BY <2>1, <2>4, <2>5 DEF P!EvaluatePorts, P!DownAndNotShut, ShutIsKnown
<1> QED BY <1>1, PollInvariance, PTL DEF Spec, ShutIsQuiet, P!ShutIsQuiet
-----------------------------------------------------------------------------
(* Commands.                                                               *)

(***************************************************************************)
(* The types of the commands: the rows of the requests and the request in  *)
(* hand, which is one of them.                                             *)
(***************************************************************************)
Requests == [status : {"none", "pending", "running", "done", "failed"}, kind : C!Kinds, limit : BOOLEAN]
Works == [pc : {"idle", "check", "name", "send", "limit", "limit on", "read"}, id : 0 .. MaxActions, prot : BOOLEAN,
          index : Nat, named : Nat, again : BOOLEAN]
Dialogs == [pc : {"none", "form", "refused", "running", "done", "gaveup"}, kind : C!Kinds, id : 0 .. MaxActions,
            shut : BOOLEAN, prot : BOOLEAN]
Shown == [shut : BOOLEAN, limit : C!Limits, prot : BOOLEAN, index : Nat]
Switches == [proto : Protocols, shut : BOOLEAN, other : BOOLEAN, limit : C!Limits, index : Nat]

CommandTyped ==
    /\ cdev \in Switches
    /\ cport \in Shown
    /\ cactive \in BOOLEAN
    /\ queue \in [C!Ids -> Requests]
    /\ work \in Works
    /\ cpoll \in [pc : {"idle", "store"}, shut : BOOLEAN, index : Nat]
    /\ dlg \in Dialogs
    /\ cevents \in Nat

(***************************************************************************)
(* The worker's request is one that runs, so that it is not asked anew;    *)
(* once it was checked it may be sent, and over SNMP it is sent to the     *)
(* number whose name was compared.                                         *)
(***************************************************************************)
InHand == work.pc # "idle" => work.id \in C!Ids /\ queue[work.id].status = "running"
MayBeSent ==
    /\ work.pc \in {"name", "send"} => (queue[work.id].kind # "no_shutdown" => ~work.prot)
    /\ work.pc = "send" /\ cdev.proto = "snmp" => work.named = work.index

CommandInv == CommandTyped /\ InHand /\ MayBeSent

(***************************************************************************)
(* What is assumed of the constants.                                       *)
(***************************************************************************)
LEMMA CommandConstants ==
    /\ Protocols \subseteq {"nxapi", "snmp"} /\ MaxActions \in Nat /\ MaxEvents \in Nat
    /\ C!Ids = 1 .. MaxActions /\ C!NoLimit \in C!Limits
    /\ C!Kinds = {"shutdown", "no_shutdown", "rate_limit"}
    /\ C!NoWork \in Works /\ C!NoWork.pc = "idle"
BY ReadingAssumption DEF ReadingAssumption, C!CommandsAssumption, C!Ids, C!NoLimit, C!Limits, C!Kinds, C!NoWork, Works

(***************************************************************************)
(* The least of a set of numbers.                                          *)
(***************************************************************************)
LEMMA Least ==
    ASSUME NEW F \in SUBSET Nat, F # {}
    PROVE  \E i \in F : \A j \in F : i <= j
<1>1. PICK i \in F : \A j \in F : <<j, i>> \notin OpToRel(<, Nat)
    BY NatLessThanWellFounded, WFMin, Zenon
<1>2. \A j \in F : ~ j < i
    BY <1>1 DEF OpToRel
<1> QED BY <1>2

(***************************************************************************)
(* No request is in hand at the beginning.                                 *)
(***************************************************************************)
LEMMA InitCommands == Init => CommandInv
<1> SUFFICES ASSUME C!Init PROVE CommandInv
    BY DEF Init
<1> USE CommandConstants DEF C!Init
<1>1. PICK proto \in Protocols :
          cdev = [proto |-> proto, shut |-> FALSE, other |-> FALSE, limit |-> C!NoLimit, index |-> 0]
    OBVIOUS
<1>2. cdev \in Switches /\ cactive \in BOOLEAN /\ cevents \in Nat
    BY <1>1 DEF Switches
<1>3. cport \in Shown
    BY DEF Shown
<1>4. queue \in [C!Ids -> Requests]
    BY DEF C!NoRequest, Requests
<1>5. /\ cpoll \in [pc : {"idle", "store"}, shut : BOOLEAN, index : Nat]
      /\ dlg \in Dialogs
    BY DEF C!NoPoll, C!NoDialog, Dialogs
<1>6. work \in Works /\ work.pc = "idle"
    OBVIOUS
<1> QED BY <1>2, <1>3, <1>4, <1>5, <1>6 DEF CommandInv, CommandTyped, InHand, MayBeSent

(***************************************************************************)
(* Steps that leave the requests, the request in hand and the protocol.    *)
(***************************************************************************)
LEMMA OthersStep ==
    CommandInv /\ (C!Load \/ C!OpenDialog \/ C!Follow \/ C!SetProtected \/ C!DeviceEvent \/ C!Reading) => CommandInv'
<1> SUFFICES ASSUME CommandInv, C!Load \/ C!OpenDialog \/ C!Follow \/ C!SetProtected \/ C!DeviceEvent \/ C!Reading
             PROVE  CommandInv'
    OBVIOUS
<1> USE CommandConstants DEF CommandInv, CommandTyped
<1>1. UNCHANGED <<queue, work>>
    BY DEF C!Load, C!OpenDialog, C!Follow, C!SetProtected, C!DeviceEvent, C!Reading, C!PollRead, C!PollStore
<1>2. cevents' \in Nat
    BY DEF C!Load, C!OpenDialog, C!Follow, C!SetProtected, C!DeviceEvent, C!Reading, C!PollRead, C!PollStore, C!Event
<1>3. cdev' \in Switches /\ cdev'.proto = cdev.proto /\ cactive' \in BOOLEAN
    <2>1. CASE C!DeviceEvent
        <3>1. (~cdev.shut) \in BOOLEAN /\ (~cactive) \in BOOLEAN
            BY Zenon
        <3>2. ASSUME NEW b \in BOOLEAN, cdev' = [cdev EXCEPT !.shut = b] PROVE cdev' \in Switches /\ cdev'.proto = cdev.proto
            BY <3>2 DEF Switches
        <3>3. ASSUME cdev' = [cdev EXCEPT !.index = cevents'] PROVE cdev' \in Switches /\ cdev'.proto = cdev.proto
            BY <1>2, <3>3 DEF Switches
        <3> QED BY <2>1, <3>1, <3>2, <3>3 DEF C!DeviceEvent
    <2> QED BY <2>1 DEF C!Load, C!OpenDialog, C!Follow, C!SetProtected, C!Reading, C!PollRead, C!PollStore
<1>4. cport' \in Shown
    <2>1. CASE C!SetProtected
        <3>1. (~cport.prot) \in BOOLEAN
            BY Zenon
        <3>2. ASSUME NEW b \in BOOLEAN, cport' = [cport EXCEPT !.prot = b]
              PROVE  cport' \in Shown
            BY <3>2 DEF Shown
        <3> QED BY <2>1, <3>1, <3>2 DEF C!SetProtected
    <2>2. CASE C!PollStore
        <3>1. cport' = [cport EXCEPT !.shut = cpoll.shut, !.index = cpoll.index] /\ cpoll.shut \in BOOLEAN /\ cpoll.index \in Nat
            BY <2>2 DEF C!PollStore, C!Stored
        <3> QED BY <3>1 DEF Shown
    <2> QED BY <2>1, <2>2 DEF C!Load, C!OpenDialog, C!Follow, C!DeviceEvent, C!Reading, C!PollRead
<1>5. cpoll' \in [pc : {"idle", "store"}, shut : BOOLEAN, index : Nat]
    <2>1. CASE C!PollRead
        BY <2>1 DEF C!PollRead, Switches
    <2>2. CASE C!PollStore
        BY <2>2 DEF C!PollStore, C!NoPoll
    <2> QED BY <2>1, <2>2 DEF C!Load, C!OpenDialog, C!Follow, C!SetProtected, C!DeviceEvent, C!Reading
<1>6. dlg' \in Dialogs
    <2>1. CASE C!Load
        <3>1. dlg' = [dlg EXCEPT !.shut = cport.shut, !.prot = cport.prot] /\ cport.shut \in BOOLEAN /\ cport.prot \in BOOLEAN
            BY <2>1 DEF C!Load, Shown
        <3> QED BY <3>1 DEF Dialogs
    <2>2. CASE C!OpenDialog
        <3>1. PICK kind \in C!Kinds : dlg' = [dlg EXCEPT !.pc = "form", !.kind = kind, !.id = 0]
            BY <2>2 DEF C!OpenDialog
        <3>2. 0 \in 0 .. MaxActions
            OBVIOUS
        <3>3. dlg \in Dialogs
            OBVIOUS
        <3> HIDE DEF CommandInv, CommandTyped
        <3> QED BY ONLY <3>1, <3>2, <3>3 DEF Dialogs
    <2>3. CASE C!Follow
        BY <2>3 DEF C!Follow, Dialogs
    <2> QED BY <2>1, <2>2, <2>3 DEF C!SetProtected, C!DeviceEvent, C!Reading, C!PollRead, C!PollStore
<1> QED BY <1>1, <1>2, <1>3, <1>4, <1>5, <1>6 DEF InHand, MayBeSent

(***************************************************************************)
(* A request is a new row, and not that in hand.                           *)
(***************************************************************************)
LEMMA AskStep == CommandInv /\ C!Ask => CommandInv'
<1> SUFFICES ASSUME CommandInv, C!Ask PROVE CommandInv'
    OBVIOUS
<1> USE CommandConstants DEF CommandInv, CommandTyped
<1>1. UNCHANGED <<cdev, cport, cactive, work, cpoll, cevents>> /\ C!Free # {}
    BY DEF C!Ask
<1>2. CASE dlg' = [dlg EXCEPT !.pc = "refused"] /\ UNCHANGED queue
    <2>1. dlg' \in Dialogs
        BY <1>2 DEF Dialogs
    <2> QED BY <1>1, <1>2, <2>1 DEF InHand, MayBeSent
<1>3. CASE ~(~cactive \/ C!Refused(dlg.kind, cport.prot) \/ \E a \in C!Ids : C!Open(a))
    <2> DEFINE a == CHOOSE b \in C!Free : \A f \in C!Free : b <= f
    <2>1. C!Free \subseteq Nat
        BY DEF C!Free
    <2>2. \E b \in C!Free : \A f \in C!Free : b <= f
        BY <1>1, <2>1, Least
    <2>3. a \in C!Free
        BY <2>2
    <2>4. PICK limit \in BOOLEAN :
              queue' = [queue EXCEPT ![a] = [status |-> "pending", kind |-> dlg.kind, limit |-> limit]]
        BY <1>3 DEF C!Ask
    <2>5. dlg' = [dlg EXCEPT !.pc = "running", !.id = a]
        BY <1>3 DEF C!Ask
    <2> HIDE DEF a
    <2>6. a \in C!Ids /\ queue[a].status = "none"
        BY <2>3 DEF C!Free
    <2>7. [status |-> "pending", kind |-> dlg.kind, limit |-> limit] \in Requests
        BY DEF Requests, Dialogs
    <2>8. queue' \in [C!Ids -> Requests] /\ \A b \in C!Ids : b # a => queue'[b] = queue[b]
        BY <2>4, <2>6, <2>7
    <2>9. dlg' \in Dialogs
        <3>1. a \in 0 .. MaxActions /\ dlg \in Dialogs
            BY <2>6
        <3> QED BY ONLY <2>5, <3>1 DEF Dialogs
    <2>10. CommandTyped'
        BY <1>1, <2>8, <2>9
    <2>11. work.pc # "idle" => queue'[work.id] = queue[work.id]
        BY <2>6, <2>8 DEF InHand
    <2> QED BY <1>1, <2>10, <2>11 DEF InHand, MayBeSent
<1> QED BY <1>2, <1>3 DEF C!Ask

(***************************************************************************)
(* A request that has ended is not in hand any more.                       *)
(***************************************************************************)
LEMMA FinishStep ==
    ASSUME CommandInv, work.pc # "idle", NEW s \in {"done", "failed"}, C!Finish(s), UNCHANGED <<cactive, cpoll, dlg, cevents>>,
           cdev' \in Switches, cport' \in Shown
    PROVE  CommandInv'
<1> USE CommandConstants DEF CommandInv, CommandTyped
<1>1. work' \in Works /\ work'.pc = "idle"
    BY DEF C!Finish
<1>2. queue' \in [C!Ids -> Requests]
    <2> DEFINE i == work.id
               new == [queue[i] EXCEPT !.status = s]
    <2>1. i \in C!Ids /\ queue[i] \in Requests
        BY DEF InHand
    <2>2. new \in Requests
        BY <2>1 DEF Requests
    <2>3. queue' = [queue EXCEPT ![i] = new]
        BY DEF C!Finish
    <2> HIDE DEF new, i
    <2> QED BY <2>1, <2>2, <2>3
<1> QED BY <1>1, <1>2 DEF InHand, MayBeSent

(***************************************************************************)
(* The request in hand goes on to a later step.                            *)
(***************************************************************************)
LEMMA GoOnStep ==
    ASSUME CommandInv, UNCHANGED <<queue, cactive, cpoll, dlg, cevents>>, work.pc # "idle",
           work' \in Works, work'.id = work.id, work'.pc \in {"limit", "limit on", "read"},
           cdev' \in Switches, cport' \in Shown
    PROVE  CommandInv'
BY DEF CommandInv, CommandTyped, InHand, MayBeSent

(***************************************************************************)
(* A request is taken in hand, or one that nobody has is given up.         *)
(***************************************************************************)
LEMMA TakeStep == CommandInv /\ (C!Expire \/ C!Claim) => CommandInv'
<1> SUFFICES ASSUME CommandInv, C!Expire \/ C!Claim PROVE CommandInv'
    OBVIOUS
<1> USE CommandConstants DEF CommandInv, CommandTyped
<1>1. UNCHANGED <<cdev, cport, cactive, cpoll, dlg, cevents>> /\ work.pc = "idle"
    BY DEF C!Expire, C!Claim
<1>2. PICK a \in C!Ids, s \in {"running", "failed"} :
         /\ queue' = [queue EXCEPT ![a].status = s]
         /\ work' = work \/ (s = "running" /\ work' = [C!NoWork EXCEPT !.pc = "check", !.id = a])
    BY DEF C!Expire, C!Claim
<1> DEFINE new == [queue[a] EXCEPT !.status = s]
<1>3. new \in Requests /\ new.status = s
    BY DEF Requests
<1>4. queue' = [queue EXCEPT ![a] = new]
    BY <1>2
<1> HIDE DEF new
<1>5. queue' \in [C!Ids -> Requests] /\ queue'[a].status = s
    BY <1>3, <1>4
<1>6. work' \in Works /\ work'.pc \in {"idle", "check"} /\ (work'.pc = "check" => work'.id = a /\ s = "running")
    <2>1. ASSUME work' = [C!NoWork EXCEPT !.pc = "check", !.id = a]
          PROVE  work' \in Works /\ work'.pc = "check" /\ work'.id = a
        <3> DEFINE none == C!NoWork
        <3>1. a \in 0 .. MaxActions /\ none \in Works /\ work' = [none EXCEPT !.pc = "check", !.id = a]
            BY <2>1
        <3> HIDE DEF none
        <3> QED BY ONLY <3>1 DEF Works
    <2> QED BY <1>1, <1>2, <2>1
<1> QED BY <1>1, <1>5, <1>6 DEF InHand, MayBeSent

(***************************************************************************)
(* What was asked for may be sent once it was checked.                     *)
(***************************************************************************)
LEMMA CheckStep == CommandInv /\ C!Check => CommandInv'
<1> SUFFICES ASSUME CommandInv, C!Check PROVE CommandInv'
    OBVIOUS
<1> USE CommandConstants DEF CommandInv, CommandTyped
<1>1. UNCHANGED <<cdev, cport, cactive, cpoll, dlg, cevents>> /\ work.pc = "check"
    BY DEF C!Check
<1>2. CASE C!Finish("failed")
    BY <1>1, <1>2, FinishStep
<1>3. ASSUME ~C!RefusedNow(C!Kind, cport.prot), UNCHANGED queue,
             work' = [work EXCEPT !.prot = cport.prot, !.index = cport.index,
                                  !.pc = IF C!Kind = "rate_limit" THEN "limit"
                                         ELSE IF cdev.proto = "snmp" THEN "name" ELSE "send"]
      PROVE  CommandInv'
    <2> DEFINE pc == IF C!Kind = "rate_limit" THEN "limit" ELSE IF cdev.proto = "snmp" THEN "name" ELSE "send"
               pr == cport.prot
               ix == cport.index
    <2>1. pr \in BOOLEAN /\ ix \in Nat /\ pc \in {"limit", "name", "send"} /\ (pc = "send" => cdev.proto # "snmp")
        BY DEF Shown
    <2>2. C!Kind # "no_shutdown" => ~pr
        BY <1>3 DEF C!RefusedNow, C!Refused
    <2> HIDE DEF pc, pr, ix
    <2>3. work' = [work EXCEPT !.prot = pr, !.index = ix, !.pc = pc]
        BY <1>3 DEF pc, pr, ix
    <2>4. work' \in Works /\ work'.pc = pc /\ work'.prot = pr /\ work'.id = work.id
        BY <2>1, <2>3 DEF Works
    <2> QED BY <1>1, <1>3, <2>1, <2>2, <2>4 DEF InHand, MayBeSent, C!Kind
<1> QED BY <1>1, <1>2, <1>3 DEF C!Check

(***************************************************************************)
(* The number is that whose name was compared.                             *)
(***************************************************************************)
LEMMA NameStep == CommandInv /\ C!NameCheck => CommandInv'
<1> SUFFICES ASSUME CommandInv, C!NameCheck PROVE CommandInv'
    OBVIOUS
<1> USE CommandConstants DEF CommandInv, CommandTyped
<1>1. UNCHANGED <<cdev, cport, cactive, cpoll, dlg, cevents>> /\ work.pc = "name"
    BY DEF C!NameCheck
<1>2. CASE C!Finish("failed")
    BY <1>1, <1>2, FinishStep
<1>3. ASSUME C!IfName, UNCHANGED queue, work' = [work EXCEPT !.pc = "send", !.named = cdev.index] PROVE CommandInv'
    <2>1. cdev.index \in Nat /\ cdev.index = work.index
        BY <1>3 DEF Switches, C!IfName
    <2>2. /\ work' \in Works /\ work'.pc = "send" /\ work'.named = work'.index
          /\ work'.prot = work.prot /\ work'.id = work.id
        BY <1>3, <2>1 DEF Works
    <2> QED BY <1>1, <1>3, <2>2 DEF InHand, MayBeSent
<1> QED BY <1>2, <1>3 DEF C!NameCheck

(***************************************************************************)
(* The command is sent, or a limit is changed; and what the switch has     *)
(* then is read back.                                                      *)
(***************************************************************************)
LEMMA SendStep ==
    CommandInv /\ (C!Send \/ C!LimitOff \/ C!LimitOn \/ C!LimitPushed \/ C!ReadLimit \/ C!ReadPort) => CommandInv'
<1> SUFFICES ASSUME CommandInv, C!Send \/ C!LimitOff \/ C!LimitOn \/ C!LimitPushed \/ C!ReadLimit \/ C!ReadPort
             PROVE  CommandInv'
    OBVIOUS
<1> USE CommandConstants DEF CommandInv, CommandTyped
<1>1. UNCHANGED <<cactive, cpoll, dlg, cevents>> /\ work.pc \in {"send", "limit", "limit on", "read"}
    BY DEF C!Send, C!LimitOff, C!LimitOn, C!LimitPushed, C!ReadLimit, C!ReadPort
<1>2. cdev' \in Switches
    <2>1. ASSUME NEW b \in BOOLEAN, cdev' = [cdev EXCEPT !.shut = b] PROVE cdev' \in Switches
        BY <2>1 DEF Switches
    <2>2. ASSUME NEW b \in BOOLEAN, cdev' = [cdev EXCEPT !.other = b] PROVE cdev' \in Switches
        BY <2>2 DEF Switches
    <2>3. ASSUME NEW l \in C!Limits, cdev' = [cdev EXCEPT !.limit = l] PROVE cdev' \in Switches
        BY <2>3 DEF Switches
    <2>4. CASE C!Send
        <3>1. (C!Kind = "shutdown") \in BOOLEAN
            OBVIOUS
        <3> QED BY <2>1, <2>2, <2>4, <3>1 DEF C!Send
    <2>5. CASE C!LimitOff
        BY <2>3, <2>5 DEF C!LimitOff
    <2>6. \A in, out \in BOOLEAN : [in |-> in, out |-> out] \in C!Limits
        BY DEF C!Limits
    <2>7. CASE C!LimitOn
        BY <2>3, <2>6, <2>7 DEF C!LimitOn
    <2>8. CASE C!LimitPushed
        BY <2>3, <2>6, <2>8 DEF C!LimitPushed
    <2> QED BY <2>4, <2>5, <2>7, <2>8 DEF C!ReadLimit, C!ReadPort
<1>3. cport' \in Shown
    <2>1. CASE C!ReadLimit
        <3>1. cdev.limit \in C!Limits
            BY DEF Switches
        <3>2. UNCHANGED cport \/ cport' = [cport EXCEPT !.limit = cdev.limit]
            BY <2>1 DEF C!ReadLimit, C!LimitSeen
        <3> QED BY <3>1, <3>2 DEF Shown
    <2>2. CASE C!ReadPort
        <3>1. cdev.shut \in BOOLEAN
            BY DEF Switches
        <3>2. UNCHANGED cport \/ cport' = [cport EXCEPT !.shut = cdev.shut]
            BY <2>2 DEF C!ReadPort
        <3> QED BY <3>1, <3>2 DEF Shown
    <2> QED BY <2>1, <2>2 DEF C!Send, C!LimitOff, C!LimitOn, C!LimitPushed
<1>4. \/ \E s \in {"done", "failed"} : C!Finish(s)
      \/ UNCHANGED queue /\ \E pc \in {"limit on", "read"} : work' = [work EXCEPT !.pc = pc]
      \/ UNCHANGED queue /\ work' = [work EXCEPT !.again = TRUE] /\ work.pc = "read"
    BY DEF C!Send, C!LimitOff, C!LimitOn, C!LimitPushed, C!ReadLimit, C!ReadPort
<1>5. CASE \E s \in {"done", "failed"} : C!Finish(s)
    BY <1>1, <1>2, <1>3, <1>5, FinishStep
<1>6. ASSUME NEW pc \in {"limit on", "read"}, UNCHANGED queue, work' = [work EXCEPT !.pc = pc] PROVE CommandInv'
    <2>1. work' \in Works /\ work'.id = work.id /\ work'.pc = pc
        BY <1>6 DEF Works
    <2> QED BY <1>1, <1>2, <1>3, <1>6, <2>1, GoOnStep
<1>7. ASSUME UNCHANGED queue, work' = [work EXCEPT !.again = TRUE], work.pc = "read" PROVE CommandInv'
    <2>1. work' \in Works /\ work'.id = work.id /\ work'.pc = "read"
        BY <1>7 DEF Works
    <2> QED BY <1>1, <1>2, <1>3, <1>7, <2>1, GoOnStep
<1> QED BY <1>4, <1>5, <1>6, <1>7

(***************************************************************************)
(* The worker restarts with nothing in hand.                               *)
(***************************************************************************)
LEMMA CrashStep == CommandInv /\ C!Crash => CommandInv'
<1> SUFFICES ASSUME CommandInv, C!Crash PROVE CommandInv'
    OBVIOUS
<1> USE CommandConstants DEF CommandInv, CommandTyped
<1>1. UNCHANGED <<cdev, cport, cactive, queue, dlg>> /\ work' = C!NoWork /\ cpoll' = C!NoPoll /\ cevents' \in Nat
    BY DEF C!Crash, C!Event
<1>2. cpoll' \in [pc : {"idle", "store"}, shut : BOOLEAN, index : Nat]
    BY <1>1 DEF C!NoPoll
<1> QED BY <1>1, <1>2 DEF InHand, MayBeSent

(***************************************************************************)
(* The invariant of the commands holds always, whichever part moves.       *)
(***************************************************************************)
LEMMA CommandInvariance == Spec => []CommandInv
<1>1. CommandInv /\ [Next]_vars => CommandInv'
    <2> SUFFICES ASSUME CommandInv, [Next]_vars PROVE CommandInv'
        OBVIOUS
    <2>1. CASE C!Next
        BY <2>1, OthersStep, AskStep, TakeStep, CheckStep, NameStep, SendStep, CrashStep DEF C!Next, C!Worker
    <2>2. ASSUME UNCHANGED cvars PROVE CommandInv'
        BY <2>2 DEF cvars, CommandInv, CommandTyped, InHand, MayBeSent
    <2> QED BY <2>1, <2>2 DEF Next, vars, OnlyPoll, OnlyBackups, OnlyHealth, OnlyCommands
<1> QED BY <1>1, InitCommands, PTL DEF Spec

(***************************************************************************)
(* OnlyTheAsked, for any number of requests and of what the admins, the    *)
(* switch and crashes do: a command of the worker shuts the port only if   *)
(* that was asked for and the port was not protected when the worker       *)
(* looked, and another port only if the switch numbered its ports anew     *)
(* after the worker compared the name (runAction, setAdmin).               *)
(***************************************************************************)
THEOREM OnlyTheAskedHolds == Spec => OnlyTheAsked
<1> DEFINE Rightly == /\ C!Commanding /\ ~cdev.shut /\ cdev'.shut => ~work.prot
                      /\ C!Commanding /\ ~cdev.other /\ cdev'.other => work.named # cdev.index
<1>1. ASSUME CommandInv, [Next]_vars PROVE [Rightly]_(C!vars)
    <2> SUFFICES ASSUME C!Next, C!Commanding PROVE Rightly
        BY <1>1 DEF Next, vars, cvars, C!vars, OnlyPoll, OnlyBackups, OnlyHealth, OnlyCommands
    <2>1. work.pc = "send" /\ work'.pc # "send"
        BY DEF C!Commanding
    <2>2. C!Crash \/ C!Send
        BY <2>1 DEF C!Next, C!Load, C!OpenDialog, C!Ask, C!Follow, C!SetProtected, C!DeviceEvent, C!Worker, C!Reading,
                    C!Expire, C!Claim, C!Check, C!NameCheck, C!LimitOff, C!LimitOn, C!LimitPushed, C!ReadLimit, C!ReadPort,
                    C!PollRead, C!PollStore
    <2>3. CASE C!Crash
        BY <2>3 DEF C!Crash
    <2>4. CASE UNCHANGED cdev
        BY <2>4
    <2>5. CASE cdev' = [cdev EXCEPT !.shut = (C!Kind = "shutdown")]
        <3>1. cdev'.other = cdev.other /\ cdev'.shut = (C!Kind = "shutdown")
            BY <1>1, <2>5 DEF CommandInv, CommandTyped, Switches
        <3>2. C!Kind # "no_shutdown" => ~work.prot
            BY <1>1, <2>1 DEF CommandInv, MayBeSent, C!Kind
        <3> QED BY <3>1, <3>2
    <2>6. CASE cdev' = [cdev EXCEPT !.other = (C!Kind = "shutdown")] /\ ~(cdev.proto = "nxapi" \/ work.index = cdev.index)
        <3>1. cdev'.shut = cdev.shut /\ cdev.proto = "snmp"
            BY <1>1, <2>6, CommandConstants DEF CommandInv, CommandTyped, Switches
        <3>2. work.named = work.index
            BY <1>1, <2>1, <3>1 DEF CommandInv, MayBeSent
        <3> QED BY <2>6, <3>1, <3>2
    <2> QED BY <2>2, <2>3, <2>4, <2>5, <2>6 DEF C!Send
<1> QED BY <1>1, CommandInvariance, PTL DEF Spec, OnlyTheAsked, C!OnlyTheAsked
-----------------------------------------------------------------------------
(* Transfers.                                                              *)

(* The first n blocks of the file.                                         *)
Prefix(n) == [b \in 1..n |-> b]

(* What the copy table of the switch shows of the copy.                     *)
CopyStates == {"none", "running", "successful", "partial", "failed"}

(* Every variable of the transfer has the right type.                       *)
TransferTyped ==
    /\ job \in [dir : {"pull", "push"}, by : {"tftp", "sftp"}]
    /\ slot \in BOOLEAN
    /\ ses \in [1..Ports -> [on : BOOLEAN, block : Nat, retries : Nat, chunks : Seq(Nat)]]
    /\ tdev \in [row : CopyStates, port : Nat, got : Seq(Nat)]
    /\ panel \in [pc : {"create", "poll", "read", "done", "failed"}, way : Nat]

(* What a session to the panel has kept is what it acknowledged.            *)
KeptInOrder ==
    job.dir = "pull" => \A p \in 1..Ports : ses[p].chunks = Prefix(ses[p].block)

(* The file is not there, refused, or whole.                                *)
FileWhole == file \in {X!None, X!Rejected, X!Whole}

(* The switch takes the blocks in order, and its copy runs until the last.   *)
TakenInOrder ==
    /\ tdev.got = Prefix(Len(tdev.got)) /\ Len(tdev.got) <= Blocks
    /\ tdev.row = "running" => Len(tdev.got) < Blocks
    /\ job.dir = "push" /\ tdev.row \in {"successful", "partial"} => Len(tdev.got) = Blocks
    /\ panel.pc = "create" => tdev.row = "none" /\ Len(tdev.got) = 0
    /\ panel.pc = "read" => job.dir = "pull"

(* The inductive invariant of the transfer, with what is assumed of its     *)
(* constants.                                                               *)
TransferInv == X!TransferAssumption /\ TransferTyped /\ KeptInOrder /\ FileWhole /\ TakenInOrder
-----------------------------------------------------------------------------
(* A prefix of the file is a sequence of that length.                       *)
LEMMA FirstIs ==
    ASSUME NEW n \in Nat
    PROVE  Prefix(n) \in Seq(Nat) /\ Len(Prefix(n)) = n
<1>1. Prefix(n) \in [1..n -> Nat]
    BY DEF Prefix
<1> QED BY <1>1, SeqDef

(* The next block continues it.                                             *)
LEMMA FirstGrows ==
    ASSUME NEW n \in Nat
    PROVE  Append(Prefix(n), n + 1) = Prefix(n + 1)
<1>1. Prefix(n) \in Seq(Nat) /\ Len(Prefix(n)) = n
    BY FirstIs
<1>2. Prefix(n + 1) \in Seq(Nat) /\ Len(Prefix(n + 1)) = n + 1
    BY FirstIs
<1>3. /\ Append(Prefix(n), n + 1) \in Seq(Nat) /\ Len(Append(Prefix(n), n + 1)) = n + 1
      /\ \A i \in 1..n : Append(Prefix(n), n + 1)[i] = Prefix(n)[i]
      /\ Append(Prefix(n), n + 1)[n + 1] = n + 1
    BY <1>1, AppendProperties
<1>4. \A i \in 1..(n + 1) : Append(Prefix(n), n + 1)[i] = Prefix(n + 1)[i]
    BY <1>3 DEF Prefix
<1> QED BY <1>2, <1>3, <1>4, SeqEqual

(* The whole file is all its blocks, which is neither nothing nor a         *)
(* rejection.                                                               *)
LEMMA WholeIs ==
    ASSUME X!TransferAssumption
    PROVE  /\ Blocks \in Nat /\ Blocks > 0 /\ X!Whole = Prefix(Blocks) /\ X!Whole \in Seq(Nat) /\ Len(X!Whole) = Blocks
           /\ X!Whole # X!None /\ X!Whole # X!Rejected /\ Prefix(0) = <<>>
<1>1. Blocks \in Nat /\ Blocks > 0
    BY DEF X!TransferAssumption
<1>2. X!Whole = Prefix(Blocks)
    BY DEF X!Whole, Prefix
<1>3. X!Whole \in Seq(Nat) /\ Len(X!Whole) = Blocks /\ Prefix(0) \in Seq(Nat) /\ Len(Prefix(0)) = 0
    BY <1>1, <1>2, FirstIs
<1>4. X!Whole[1] = 1
    BY <1>1 DEF X!Whole
<1>5. X!Whole # X!None
    BY <1>1, <1>3 DEF X!None
<1>6. X!Whole # X!Rejected
    BY <1>4 DEF X!Rejected
<1>7. Prefix(0) = <<>>
    BY <1>3, EmptySeq
<1> QED BY <1>1, <1>2, <1>3, <1>5, <1>6, <1>7

(* The inductive invariant holds before the copy is asked for.              *)
LEMMA InitTransfer == X!TransferAssumption /\ X!Init => TransferInv
<1> SUFFICES ASSUME X!TransferAssumption, X!Init PROVE TransferInv
    OBVIOUS
<1> USE DEF X!Init
<1>1. X!NoSession \in [on : BOOLEAN, block : Nat, retries : Nat, chunks : Seq(Nat)]
    BY DEF X!NoSession
<1>2. TransferTyped
    BY <1>1 DEF TransferTyped, CopyStates, X!TransferAssumption
<1>3. KeptInOrder
    BY WholeIs DEF KeptInOrder, X!NoSession
<1>4. FileWhole
    BY DEF FileWhole
<1>5. TakenInOrder
    BY WholeIs DEF TakenInOrder
<1> QED BY <1>2, <1>3, <1>4, <1>5 DEF TransferInv

(* The panel's steps leave the sessions and the blocks alone.               *)
LEMMA PanelStep == TransferInv /\ X!Panel => TransferInv'
<1> SUFFICES ASSUME TransferInv, X!Panel PROVE TransferInv'
    OBVIOUS
<1> USE DEF TransferInv
<1>1. UNCHANGED <<job, ses, file, net>>
    BY DEF X!Panel, X!Create, X!Poll, X!Read
<1>2. /\ slot' \in BOOLEAN
      /\ \/ tdev' = tdev
         \/ tdev' = [tdev EXCEPT !.row = "none"]
         \/ panel.pc = "create" /\ panel'.pc # "create" /\ tdev' = [tdev EXCEPT !.row = "running"]
      /\ panel' \in [pc : {"create", "poll", "read", "done", "failed"}, way : Nat]
      /\ panel'.pc = "create" => panel.pc = "create"
      /\ panel'.pc = "read" => job.dir = "pull"
    <2>1. CASE X!Create
        <3>1. panel.pc = "create" /\ panel.way + 1 \in Nat
            BY <2>1 DEF X!Create, TransferTyped
        <3>2. CASE panel' = [panel EXCEPT !.way = @ + 1] /\ UNCHANGED <<slot, tdev>>
            BY <3>1, <3>2 DEF TransferTyped
        <3>3. CASE X!Verdict("failed")
            BY <3>3 DEF X!Verdict, TransferTyped
        <3>4. CASE /\ \E pc \in {"poll", "failed"} : panel' = [panel EXCEPT !.pc = pc]
                   /\ slot' \in BOOLEAN /\ tdev' = [tdev EXCEPT !.row = "running"]
            BY <3>1, <3>4 DEF TransferTyped
        <3> QED BY <2>1, <3>2, <3>3, <3>4 DEF X!Create, TransferTyped
    <2>2. CASE X!Poll
        BY <2>2 DEF X!Poll, X!Verdict, TransferTyped, TakenInOrder
    <2>3. CASE X!Read
        BY <2>3 DEF X!Read, X!Verdict, TransferTyped, TakenInOrder
    <2> QED BY <2>1, <2>2, <2>3 DEF X!Panel
<1>3. tdev' \in [row : CopyStates, port : Nat, got : Seq(Nat)] /\ tdev'.got = tdev.got
    BY <1>2 DEF TransferTyped, CopyStates
<1>4. TransferTyped'
    BY <1>1, <1>2, <1>3 DEF TransferTyped
<1>5. KeptInOrder' /\ FileWhole'
    BY <1>1 DEF KeptInOrder, FileWhole, Prefix
<1>6. TakenInOrder'
    <2>1. TakenInOrder /\ job' = job /\ tdev'.got = tdev.got /\ Prefix(0) = <<>>
        BY <1>1, <1>3, WholeIs
    <2>2. Prefix(Len(tdev.got))' = Prefix(Len(tdev.got))
        BY <2>1 DEF Prefix
    <2>3. panel'.pc = "create" => tdev'.row = "none" /\ Len(tdev.got) = 0
        BY <1>2, <2>1 DEF TakenInOrder, TransferTyped
    <2>4. /\ tdev'.row = "running" => Len(tdev.got) < Blocks
          /\ job.dir = "push" /\ tdev'.row \in {"successful", "partial"} => Len(tdev.got) = Blocks
        BY <1>2, <2>1, WholeIs DEF TakenInOrder, TransferTyped
    <2> QED BY <1>2, <2>1, <2>2, <2>3, <2>4 DEF TakenInOrder
<1> QED BY <1>4, <1>5, <1>6

(* The server's steps keep the order of the sessions, and settle the promise *)
(* with the whole file.                                                     *)
LEMMA ServerStep == TransferInv /\ X!Server => TransferInv'
<1> SUFFICES ASSUME TransferInv, NEW p \in 1..Ports,
                    \/ X!Open(p)
                    \/ \E block \in 1..Blocks : X!ReceiveData(p, block) \/ X!ReceiveAck(p, block)
                    \/ X!Retry(p) \/ X!ReceiveError(p)
             PROVE  TransferInv'
    BY DEF X!Server
<1> USE DEF TransferInv
<1> DEFINE Session == [on : BOOLEAN, block : Nat, retries : Nat, chunks : Seq(Nat)]
<1>1. X!NoSession \in Session /\ X!NoSession.block = 0 /\ X!NoSession.chunks = Prefix(0)
    BY WholeIs DEF X!NoSession
<1>2. UNCHANGED <<job, slot, tdev, panel>>
    BY DEF X!Open, X!ReceiveData, X!ReceiveAck, X!Retry, X!ReceiveError
<1>3. \/ UNCHANGED ses
      \/ \E s \in Session : ses' = [ses EXCEPT ![p] = s]
                            /\ (job.dir = "pull" => s.chunks = Prefix(s.block))
    <2>1. CASE X!Open(p)
        <3> DEFINE pulled == [X!NoSession EXCEPT !.on = TRUE]
                   pushed == [X!NoSession EXCEPT !.on = TRUE, !.block = 1]
        <3>1. pulled \in Session /\ pulled.chunks = Prefix(pulled.block) /\ pushed \in Session
            BY <1>1
        <3>2. CASE ~slot
            BY <3>2, <2>1 DEF X!Open
        <3>3. CASE slot /\ job.dir = "pull"
            BY <3>3, <3>1, <2>1 DEF X!Open
        <3>4. CASE slot /\ job.dir # "pull"
            BY <3>4, <3>1, <2>1 DEF X!Open
        <3> QED BY <3>2, <3>3, <3>4
    <2>2. ASSUME NEW block \in 1..Blocks, X!ReceiveData(p, block)
          PROVE  \E s \in Session : ses' = [ses EXCEPT ![p] = s] /\ s.chunks = Prefix(s.block)
        <3>1. /\ ses[p] \in Session /\ ses[p].chunks = Prefix(ses[p].block)
              /\ block = ses[p].block + 1 /\ ses[p].block \in Nat
            BY <2>2 DEF X!ReceiveData, X!Expected, TransferTyped, KeptInOrder
        <3>2. Append(ses[p].chunks, block) = Prefix(block) /\ Prefix(block) \in Seq(Nat)
            <4>1. Append(Prefix(ses[p].block), ses[p].block + 1) = Prefix(ses[p].block + 1)
                BY <3>1, FirstGrows
            <4>2. block \in Nat
                OBVIOUS
            <4>3. Prefix(block) \in Seq(Nat)
                BY <4>2, FirstIs
            <4> QED BY <3>1, <4>1, <4>3
        <3>3. CASE block = Blocks
            BY <3>3, <2>2, <1>1 DEF X!ReceiveData
        <3>4. CASE block # Blocks
            <4> DEFINE s == [on |-> TRUE, block |-> block, retries |-> 0, chunks |-> Prefix(block)]
            <4>1. ses' = [ses EXCEPT ![p] = s]
                BY <3>2, <3>4, <2>2 DEF X!ReceiveData
            <4>2. s \in Session /\ s.chunks = Prefix(s.block)
                BY <3>1, <3>2
            <4> QED BY <4>1, <4>2
        <3> QED BY <3>3, <3>4
    <2>3. ASSUME NEW block \in 1..Blocks, X!ReceiveAck(p, block)
          PROVE  job.dir = "push" /\ \E s \in Session : ses' = [ses EXCEPT ![p] = s]
        <3>1. CASE block = Blocks
            BY <3>1, <2>3, <1>1 DEF X!ReceiveAck
        <3>2. CASE block # Blocks
            <4> DEFINE s == [ses[p] EXCEPT !.block = block + 1, !.retries = 0]
            <4>1. ses' = [ses EXCEPT ![p] = s]
                BY <3>2, <2>3 DEF X!ReceiveAck
            <4>2. ses[p] \in Session /\ block + 1 \in Nat
                BY DEF TransferTyped
            <4>3. s \in Session
                BY <4>2
            <4> QED BY <4>1, <4>3, <2>3 DEF X!ReceiveAck
        <3> QED BY <3>1, <3>2, <2>3 DEF X!ReceiveAck
    <2>4. CASE X!Retry(p)
        <3>1. CASE ses[p].retries >= MaxRetries
            BY <3>1, <2>4, <1>1 DEF X!Retry
        <3>2. CASE ~(ses[p].retries >= MaxRetries)
            <4> DEFINE s == [ses[p] EXCEPT !.retries = @ + 1]
            <4>3. ses[p] \in Session
                BY DEF TransferTyped
            <4>4. s \in Session /\ s.chunks = ses[p].chunks /\ s.block = ses[p].block
                BY <4>3
            <4>1. ses' = [ses EXCEPT ![p] = s]
                BY <3>2, <2>4 DEF X!Retry
            <4>2. job.dir = "pull" => s.chunks = Prefix(s.block)
                BY <4>4 DEF KeptInOrder
            <4> QED BY <4>1, <4>2, <4>4
        <3> QED BY <3>1, <3>2
    <2>5. CASE X!ReceiveError(p)
        BY <2>5, <1>1 DEF X!ReceiveError
    <2> QED BY <2>1, <2>2, <2>3, <2>4, <2>5 DEF TransferTyped
<1>4. ses' \in [1..Ports -> Session]
    BY <1>3 DEF TransferTyped
<1>5. KeptInOrder'
    <2>1. CASE UNCHANGED ses
        BY <2>1, <1>2 DEF KeptInOrder, Prefix
    <2>2. ASSUME NEW s \in Session, ses' = [ses EXCEPT ![p] = s],
                 job.dir = "pull" => s.chunks = Prefix(s.block)
          PROVE  KeptInOrder'
        <3>1. \A q \in 1..Ports : ses'[q] = IF q = p THEN s ELSE ses[q]
            BY <2>2 DEF TransferTyped
        <3> QED BY <3>1, <2>2, <1>2 DEF KeptInOrder, Prefix
    <2> QED BY <2>1, <2>2, <1>3
<1>6. FileWhole'
    <2>1. ASSUME NEW block \in 1..Blocks, X!ReceiveData(p, block) PROVE FileWhole'
        <3>1. CASE block = Blocks
            <4>1. /\ ses[p].chunks = Prefix(ses[p].block)
                  /\ block = ses[p].block + 1 /\ ses[p].block \in Nat
                BY <2>1 DEF X!ReceiveData, X!Expected, TransferTyped, KeptInOrder
            <4>2. Append(ses[p].chunks, block) = X!Whole
                BY <4>1, <3>1, FirstGrows, WholeIs
            <4>3. file' = X!Resolve(X!Whole)
                BY <4>2, <3>1, <2>1 DEF X!ReceiveData
            <4> QED BY <4>3 DEF FileWhole, X!Resolve
        <3>2. CASE block # Blocks
            BY <3>2, <2>1 DEF X!ReceiveData, FileWhole
        <3> QED BY <3>1, <3>2
    <2>2. ASSUME file' = file \/ file' = X!Reject PROVE FileWhole'
        BY <2>2 DEF FileWhole, X!Reject, X!Resolve
    <2> QED BY <2>1, <2>2 DEF X!Open, X!ReceiveAck, X!Retry, X!ReceiveError
<1>7. TransferTyped' /\ TakenInOrder'
    BY <1>2, <1>4 DEF TransferTyped, TakenInOrder, Prefix
<1> QED BY <1>5, <1>6, <1>7

(* The switch takes the blocks in order, by either protocol.                *)
LEMMA SwitchStep == TransferInv /\ X!Switch => TransferInv'
<1> SUFFICES ASSUME TransferInv, X!Switch PROVE TransferInv'
    OBVIOUS
<1> USE DEF TransferInv
<1>1. UNCHANGED <<job, slot, ses, panel>> /\ tdev.row = "running"
    BY DEF X!Switch, X!ClientRequest, X!ClientSend, X!ClientTake, X!Sftp, X!CopyFails, X!Client
<1>2. panel.pc # "create" /\ Len(tdev.got) < Blocks
    BY <1>1 DEF TakenInOrder
<1>3. CASE X!ClientRequest
    <2>1. tdev' = [tdev EXCEPT !.port = @ + 1, !.got = <<>>] /\ UNCHANGED file
        BY <1>3 DEF X!ClientRequest
    <2>2. tdev' \in [row : CopyStates, port : Nat, got : Seq(Nat)] /\ tdev'.got = <<>> /\ tdev'.row = tdev.row
        <3>1. tdev \in [row : CopyStates, port : Nat, got : Seq(Nat)] /\ <<>> \in Seq(Nat)
            BY WholeIs, FirstIs DEF TransferTyped
        <3>2. tdev.port + 1 \in Nat
            BY <3>1
        <3> QED BY <2>1, <3>1, <3>2
    <2>3. tdev'.got = Prefix(Len(tdev'.got)) /\ Len(tdev'.got) = 0
        BY <2>2, WholeIs
    <2> QED BY <1>1, <1>2, <2>1, <2>2, <2>3, WholeIs
            DEF TransferTyped, KeptInOrder, FileWhole, TakenInOrder, Prefix
<1>4. ASSUME NEW block \in 0..Blocks, X!ClientSend(block) PROVE TransferInv'
    <2>1. /\ tdev' = tdev \/ tdev' = [tdev EXCEPT !.row = "successful"]
          /\ job.dir = "pull" /\ UNCHANGED file
        BY <1>4 DEF X!ClientSend
    <2>2. /\ tdev' \in [row : CopyStates, port : Nat, got : Seq(Nat)] /\ tdev'.got = tdev.got
          /\ tdev'.row \in {"running", "successful"}
        BY <2>1, <1>1 DEF TransferTyped, CopyStates
    <2> QED BY <1>1, <1>2, <2>1, <2>2 DEF TransferTyped, KeptInOrder, FileWhole, TakenInOrder, Prefix
<1>5. ASSUME NEW block \in 0..Blocks, NEW o \in {"successful", "partial"}, X!ClientTake(block, o) PROVE TransferInv'
    <2>1. /\ tdev' = [tdev EXCEPT !.got = Append(@, block), !.row = IF block = Blocks THEN o ELSE @]
          /\ block = Len(tdev.got) + 1 /\ UNCHANGED file
        BY <1>5 DEF X!ClientTake
    <2>2. Len(tdev.got) \in Nat /\ tdev.got = Prefix(Len(tdev.got))
        BY DEF TransferTyped, TakenInOrder
    <2>3. Append(tdev.got, block) = Prefix(block) /\ Prefix(block) \in Seq(Nat) /\ Len(Prefix(block)) = block
        <3> DEFINE n == Len(tdev.got)
        <3>1. n \in Nat /\ block = n + 1 /\ tdev.got = Prefix(n)
            BY <2>1, <2>2
        <3> HIDE DEF n
        <3>2. block \in Nat
            BY <3>1
        <3>3. Append(Prefix(n), n + 1) = Prefix(n + 1)
            BY <3>1, FirstGrows
        <3>4. Prefix(block) \in Seq(Nat) /\ Len(Prefix(block)) = block
            BY <3>2, FirstIs
        <3> QED BY <3>1, <3>3, <3>4
    <2>4. /\ tdev' \in [row : CopyStates, port : Nat, got : Seq(Nat)] /\ tdev'.got = Prefix(block)
          /\ tdev'.row = IF block = Blocks THEN o ELSE tdev.row
        BY <2>1, <2>3 DEF TransferTyped, CopyStates
    <2>5. TakenInOrder'
        <3>1. tdev'.got = Prefix(Len(tdev'.got)) /\ Len(tdev'.got) = block
            BY <2>3, <2>4
        <3>2. block <= Blocks /\ (tdev'.row = "running" => block # Blocks) /\ Blocks \in Nat
            BY <2>4, WholeIs
        <3>3. job'.dir = "push" /\ tdev'.row \in {"successful", "partial"} => block = Blocks
            BY <2>4, <1>1
        <3>4. panel'.pc # "create" /\ (panel'.pc = "read" => job'.dir = "pull")
            BY <1>1, <1>2 DEF TakenInOrder
        <3> QED BY <3>1, <3>2, <3>3, <3>4 DEF TakenInOrder, Prefix
    <2> QED BY <1>1, <2>1, <2>4, <2>5 DEF TransferTyped, KeptInOrder, FileWhole, Prefix
<1>6. CASE X!Sftp
    <2>1. CASE job.dir = "pull"
        <3>1. /\ tdev' = [tdev EXCEPT !.row = "successful"] /\ file' \in {file, X!Whole}
            BY <1>6, <2>1 DEF X!Sftp
        <3>2. /\ tdev' \in [row : CopyStates, port : Nat, got : Seq(Nat)] /\ tdev'.got = tdev.got
              /\ tdev'.row = "successful"
            BY <3>1 DEF TransferTyped, CopyStates
        <3> QED BY <1>1, <1>2, <2>1, <3>1, <3>2 DEF TransferTyped, KeptInOrder, FileWhole, TakenInOrder, Prefix
    <2>2. CASE job.dir # "pull"
        <3>1. tdev' = [tdev EXCEPT !.row = "successful", !.got = X!Whole] /\ UNCHANGED file
            BY <1>6, <2>2 DEF X!Sftp
        <3>2. /\ tdev' \in [row : CopyStates, port : Nat, got : Seq(Nat)] /\ tdev'.got = X!Whole
              /\ tdev'.row = "successful"
            BY <3>1, WholeIs DEF TransferTyped, CopyStates
        <3>3. tdev'.got = Prefix(Len(tdev'.got)) /\ Len(tdev'.got) = Blocks
            BY <3>2, WholeIs
        <3> QED BY <1>1, <1>2, <2>2, <3>1, <3>2, <3>3, WholeIs
                DEF TransferTyped, KeptInOrder, FileWhole, TakenInOrder, Prefix
    <2> QED BY <2>1, <2>2
<1>7. CASE X!CopyFails
    <2>1. tdev' = [tdev EXCEPT !.row = "failed"] /\ UNCHANGED file
        BY <1>7 DEF X!CopyFails
    <2>2. tdev' \in [row : CopyStates, port : Nat, got : Seq(Nat)] /\ tdev'.got = tdev.got /\ tdev'.row = "failed"
        BY <2>1 DEF TransferTyped, CopyStates
    <2> QED BY <1>1, <1>2, <2>1, <2>2 DEF TransferTyped, KeptInOrder, FileWhole, TakenInOrder, Prefix
<1> QED BY <1>3, <1>4, <1>5, <1>6, <1>7 DEF X!Switch

(* Every step keeps the invariant.                                         *)
LEMMA TransferStep == TransferInv /\ [X!Next]_(X!vars) => TransferInv'
<1> SUFFICES ASSUME TransferInv, UNCHANGED X!vars PROVE TransferInv'
    BY PanelStep, ServerStep, SwitchStep DEF X!Next
<1> QED BY DEF X!vars, TransferInv, TransferTyped, KeptInOrder, FileWhole, TakenInOrder, Prefix

(* It holds always.                                                         *)
LEMMA TransferInvariance == ASSUME X!TransferAssumption PROVE X!Spec => []TransferInv
    BY InitTransfer, TransferStep, PTL DEF X!Spec
-----------------------------------------------------------------------------
(* What the receiver has, in the words of the invariant.                    *)
LEMMA ReceivedIs ==
    ASSUME TransferInv
    PROVE  /\ job.dir = "pull" => X!Received = IF file = X!Whole THEN "whole" ELSE "none"
           /\ job.dir = "push" => X!Received = IF Len(tdev.got) = Blocks THEN "whole" ELSE "none"
<1>1. CASE job.dir = "pull"
    BY <1>1, WholeIs DEF X!Received, TransferInv, FileWhole
<1>2. CASE job.dir = "push"
    <2>1. tdev.got = X!Whole <=> Len(tdev.got) = Blocks
        BY WholeIs DEF TransferInv, TakenInOrder
    <2> QED BY <1>2, <2>1 DEF X!Received
<1> QED BY <1>1, <1>2

(* The receiver never has a damaged file, after a step neither.             *)
Undamaged == X!Received \in {"none", "whole"}

(* Where the invariant holds, and after its steps, what was received is the  *)
(* whole file or nothing.                                                   *)
LEMMA NeverDamaged == (TransferInv => Undamaged) /\ (TransferInv' => Undamaged')
<1>1. TransferInv => Undamaged
    BY ReceivedIs DEF TransferInv, TransferTyped, Undamaged
<1> QED BY <1>1, PTL

(* A step of the panel is a verdict or none: it says done only of a whole    *)
(* file.                                                                    *)
LEMMA PanelTells == TransferInv /\ TransferInv' /\ X!Panel => X!D!Tell \/ UNCHANGED X!D!vars
<1> SUFFICES ASSUME TransferInv, TransferInv', X!Panel PROVE X!D!Tell \/ UNCHANGED X!D!vars
    OBVIOUS
<1>1. UNCHANGED <<job, file>> /\ job.dir \in {"pull", "push"} /\ job.by \in {"tftp", "sftp"}
    BY DEF X!Panel, X!Create, X!Poll, X!Read, TransferInv, TransferTyped
<1>2. tdev'.got = tdev.got
    BY DEF X!Panel, X!Create, X!Poll, X!Read, X!Verdict, TransferInv, TransferTyped
<1>3. X!Received' = X!Received
    BY <1>1, <1>2, ReceivedIs DEF X!Received
<1>4. panel.pc \in {"create", "poll", "read"} /\ panel'.pc \in {"create", "poll", "read", "done", "failed"}
    BY DEF X!Panel, X!Create, X!Poll, X!Read, TransferInv, TransferTyped
<1>5. ASSUME panel'.pc = "done" PROVE X!Received = "whole"
    <2>1. CASE X!Poll
        <3>1. job.dir = "push" /\ X!Copied
            BY <1>5, <2>1, <1>1 DEF X!Poll, X!Verdict, TransferInv, TransferTyped
        <3> QED BY <3>1, ReceivedIs DEF X!Copied, TransferInv, TakenInOrder
    <2>2. CASE X!Read
        <3>1. job.dir = "pull" /\ file \notin {X!None, X!Rejected}
            BY <1>5, <2>2 DEF X!Read, X!Verdict, TransferInv, TransferTyped, TakenInOrder
        <3> QED BY <3>1, ReceivedIs DEF TransferInv, FileWhole
    <2>3. ~X!Create
        BY <1>5 DEF X!Create, X!Verdict, TransferInv, TransferTyped
    <2> QED BY <2>1, <2>2, <2>3 DEF X!Panel
<1> QED BY <1>3, <1>4, <1>5 DEF X!D!Tell, X!D!vars, X!Told

(* A step of the server or the switch brings the whole file, or nothing.     *)
LEMMA FileArrives == TransferInv /\ TransferInv' /\ (X!Server \/ X!Switch) => X!D!Arrive \/ UNCHANGED X!D!vars
<1> SUFFICES ASSUME TransferInv, TransferInv', X!Server \/ X!Switch PROVE X!D!Arrive \/ UNCHANGED X!D!vars
    OBVIOUS
<1>1. UNCHANGED <<job, panel>> /\ job.dir \in {"pull", "push"}
    BY DEF X!Server, X!Open, X!ReceiveData, X!ReceiveAck, X!Retry, X!ReceiveError,
           X!Switch, X!ClientRequest, X!ClientSend, X!ClientTake, X!Sftp, X!CopyFails, TransferInv, TransferTyped
<1>2. X!Told' = X!Told
    BY <1>1 DEF X!Told
<1>3. file = X!Whole => file' = X!Whole
    BY WholeIs DEF TransferInv, X!Server, X!Open, X!ReceiveData, X!ReceiveAck, X!Retry, X!ReceiveError, X!Resolve, X!Reject,
           X!Switch, X!ClientRequest, X!ClientSend, X!ClientTake, X!Sftp, X!CopyFails
<1>4. Len(tdev.got) = Blocks => tdev'.got = tdev.got
    <2>1. CASE X!Server
        BY <2>1 DEF X!Server, X!Open, X!ReceiveData, X!ReceiveAck, X!Retry, X!ReceiveError
    <2>2. CASE X!Switch
        <3>1. tdev.row = "running"
            BY <2>2 DEF X!Switch, X!ClientRequest, X!ClientSend, X!ClientTake, X!Sftp, X!CopyFails, X!Client
        <3> QED BY <3>1, WholeIs DEF TransferInv, TakenInOrder
    <2> QED BY <2>1, <2>2
<1>5. X!Received \in {"none", "whole"} /\ X!Received' \in {"none", "whole"}
    BY NeverDamaged DEF Undamaged
<1>6. X!Received = "whole" => X!Received' = "whole"
    BY <1>1, <1>3, <1>4, ReceivedIs DEF X!Received
<1> QED BY <1>2, <1>5, <1>6 DEF X!D!Arrive, X!D!vars

(* The safety of Delivery: whatever datagrams are lost, repeated or         *)
(* reordered, whatever retries run out and however often the client begins   *)
(* anew, transfer.mjs and configCopy deliver the whole file or none, and     *)
(* done is said only of a file that is there.                               *)
THEOREM Implementation == ASSUME X!TransferAssumption PROVE X!Spec => X!DeliversSafely
<1>1. X!Init => X!D!Init
    <2> SUFFICES ASSUME X!Init PROVE X!D!Init
        OBVIOUS
    <2>1. X!Received = "none"
        BY InitTransfer, ReceivedIs, WholeIs DEF X!Init, X!None
    <2> QED BY <2>1 DEF X!D!Init, X!Init, X!Told
<1>2. TransferInv /\ TransferInv' /\ [X!Next]_(X!vars) => [X!D!Next]_(X!D!vars)
    <2>1. ASSUME UNCHANGED X!vars PROVE UNCHANGED X!D!vars
        BY <2>1 DEF X!vars, X!D!vars, X!Received, X!Told
    <2>2. TransferInv /\ TransferInv' /\ X!Next => [X!D!Next]_(X!D!vars)
        BY PanelTells, FileArrives DEF X!Next, X!D!Next
    <2> QED BY <2>1, <2>2
<1> QED BY <1>1, <1>2, TransferInvariance, PTL DEF X!Spec, X!DeliversSafely, X!D!Safely
=============================================================================
