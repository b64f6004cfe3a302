------------------------------ MODULE MCOrders ------------------------------
(* What has to arrive and to agree in the end: the file of a switch, the      *)
(* server a port is linked to, the words of a chat, the addresses of a        *)
(* hypervisor; checked one beside the other: in a behaviour only the part in  *)
(* focus moves.  Bounds are given with the instances.                         *)
EXTENDS Integers

VARIABLES
    focus,
    job, slot, ses, file, dev, net, panel,                          \* Transfer
    wire, port, disc, match, page, form, events,                    \* SwitchLinks
    link, codes, sent, offset, worker, missed, notice, mishaps, notices,   \* Telegram
    driver, pool, truth, anchored, block, row, idisc, ievents       \* Import

X == INSTANCE Transfer WITH Last <- 3, MaxRetries <- 1, Ways <- 2, Ports <- 2
On(near, macs, many, desc, aside) == [near |-> near, macs |-> macs, many |-> many, desc |-> desc, aside |-> aside]
L == INSTANCE SwitchLinks WITH Servers <- {"s1", "s2"}, NoServer <- "none", Drivers <- {"nxapi", "snmp"}, MaxEvents <- 2,
        Wires <- {
            On({}, {}, FALSE, {}, FALSE),                        \* nothing
            On({"s1"}, {}, FALSE, {"s2"}, FALSE),                \* a server names itself; the description is old
            On({}, {"s2"}, FALSE, {}, FALSE),                    \* an address behind the port
            On({"s1"}, {"s2"}, FALSE, {}, FALSE),                \* two servers speak
            On({}, {"s1"}, TRUE, {"s1"}, FALSE),                 \* too many addresses
            On({"s1"}, {"s2"}, TRUE, {}, FALSE),                 \* a node with its virtual machines
            On({"switch"}, {"s1"}, FALSE, {"s1"}, FALSE),        \* an uplink
            On({"s2", "switch"}, {"s1"}, FALSE, {}, FALSE),      \* a server behind a switch that speaks
            On({}, {}, FALSE, {"s1"}, FALSE),                    \* the description alone
            On({}, {}, FALSE, {"s1", "s2"}, FALSE),
            On({}, {"s1"}, FALSE, {}, TRUE)}                     \* a member of a port-channel
T == INSTANCE Telegram WITH Customers <- {"c", "d"}, Chats <- {"x"}, None <- "none",
        MaxCodes <- 2, MaxSent <- 2, MaxMishaps <- 2, MaxNotices <- 1
Pool(mask, range) == [gateway |-> 5, mask |-> mask, range |-> range]
I == INSTANCE Import WITH disc <- idisc, events <- ievents, Width <- 3, Shortest <- 1, Pools <- {Pool(6, TRUE), Pool(5, FALSE)},
        Drivers <- {"virtualizor", "solusvm2"}, Rows <- 3, Asked <- 2, Given <- 1, MaxEvents <- 2

ASSUME OrdersAssumption == X!TransferAssumption /\ L!LinksAssumption /\ T!TelegramAssumption /\ I!ImportAssumption

xvars == <<job, slot, ses, file, dev, net, panel>>
lvars == <<wire, port, disc, match, page, form, events>>
tvars == <<link, codes, sent, offset, worker, missed, notice, mishaps, notices>>
ivars == <<driver, pool, truth, anchored, block, row, idisc, ievents>>
vars == <<focus, xvars, lvars, tvars, ivars>>

\* One beginning of the parts that are not in focus.
Init ==
    /\ focus \in {"transfer", "links", "telegram", "import"}
    /\ T!Init
    /\ X!Init /\ (focus = "transfer" \/ job = [dir |-> "pull", by |-> "tftp"])
    /\ L!Init /\ (focus = "links" \/ wire.driver = "snmp")
    /\ I!Init /\ (focus = "import" \/ (driver = "virtualizor" /\ pool.range))

OnlyTransfer == focus = "transfer" /\ UNCHANGED <<focus, lvars, tvars, ivars>>
OnlyLinks == focus = "links" /\ UNCHANGED <<focus, xvars, tvars, ivars>>
OnlyTelegram == focus = "telegram" /\ UNCHANGED <<focus, xvars, lvars, ivars>>
OnlyImport == focus = "import" /\ UNCHANGED <<focus, xvars, lvars, tvars>>

Next ==
    \/ OnlyTransfer /\ X!Next
    \/ OnlyLinks /\ L!Next
    \/ OnlyTelegram /\ T!Next
    \/ OnlyImport /\ I!Next

\* The schedules of the worker and the timers of the pages go on, the loops of a
\* transfer end.
First ==
    \/ OnlyTransfer /\ X!Panel
    \/ OnlyLinks /\ L!Worker
    \/ OnlyTelegram /\ T!Worker
    \/ OnlyImport /\ I!Discovery
Second == OnlyLinks /\ (L!ReadPorts \/ L!WriteSuggestion)
Third == OnlyLinks /\ L!Load

Spec == Init /\ [][Next]_vars /\ WF_vars(First) /\ WF_vars(Second) /\ WF_vars(Third)

-----------------------------------------------------------------------------
(* The properties of the parts, each stated in its module.                 *)

\* Whatever is lost, repeated, reordered or begun anew, the receiver of a file has the
\* whole of it or none, the panel says done only when it is there, and it says
\* something in the end.
DeliversWhole == X!DeliversSafely /\ (focus = "transfer" => X!ComesToAVerdict)
\* The page offers the only server that what is on the port speaks for.
OffersTheOnlyOne == focus = "links" => L!OffersTheOnlyOne
\* A chat whose last word was to stop is linked to nobody in the end.
StopIsHeard == focus = "telegram" => T!StopIsHeard
\* The row of an address agrees with the hypervisor in the end.
ImportSettles == focus = "import" => I!ImportSettles
=============================================================================
