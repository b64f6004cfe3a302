----------------------------- MODULE SwitchLinks -----------------------------
(***************************************************************************)
(* Which server a port of a switch belongs to: the neighbours and MAC      *)
(* addresses seen on the port (storeDiscovery in worker/switches.mjs), the *)
(* suggestion made from them (worker/switch-match.mjs), and the page on    *)
(* which an admin accepts it, dismisses it or edits the port by hand       *)
(* (switches/[id]/port-modal.tsx, api/switch-ports).  Every one of them    *)
(* works on what it has read before.                                       *)
(***************************************************************************)
EXTENDS Integers, FiniteSets

CONSTANTS
    Servers,
    NoServer,
    Drivers,     \* subset of {"nxapi", "snmp"}: how a lost MAC table shows
    Wires,       \* what can be on the port
    MaxEvents    \* bound on what happens on the wire and on the page

\* Who names itself on the wire (LLDP and CDP; "switch" stands for a switch or router that
\* is no server), whose addresses are behind the port, whether there are more than
\* eight of them, which servers the description of the port names, and whether the port is
\* passed over: a member of a port-channel, or of another kind than Ethernet.
Seen == [near : SUBSET (Servers \union {"switch"}), macs : SUBSET Servers, many : BOOLEAN,
         desc : SUBSET Servers, aside : BOOLEAN]

Bare == [near |-> {}, macs |-> {}, many |-> FALSE, desc |-> {}, aside |-> FALSE]

LinksAssumption ==
    /\ NoServer \notin Servers /\ "switch" \notin Servers /\ Drivers \subseteq {"nxapi", "snmp"}
    /\ Bare \in Wires /\ Wires \subseteq Seen
    /\ MaxEvents \in Nat

VARIABLES
    wire,    \* the driver of the switch, and what is on the port
    port,    \* the row of switch_ports: server, protection, what was discovered, suggestion
    disc,    \* the reading that is being stored
    match,   \* the suggestion that is being stored
    page,    \* the port as the page last read it
    form,    \* the settings form, filled from the page when it was opened
    events

vars == <<wire, port, disc, match, page, form, events>>

Maybe == Servers \union {NoServer}
Empty == [pc |-> "idle"]
Settings == [server : Maybe, prot : BOOLEAN]

TypeOK ==
    /\ wire \in [driver : Drivers, on : Wires]
    /\ port \in [server : Maybe, prot : BOOLEAN, on : Seen, suggested : Maybe, dismissed : Maybe]
    /\ form = Empty \/ [server |-> form.server, prot |-> form.prot] \in Settings

\* What the page shows of the port.
Page == [server |-> port.server, prot |-> port.prot, suggested |-> port.suggested]

Init ==
    /\ wire \in [driver : Drivers, on : {Bare}]
    /\ port = [server |-> NoServer, prot |-> FALSE, on |-> Bare, suggested |-> NoServer, dismissed |-> NoServer]
    /\ disc = Empty /\ match = Empty /\ form = Empty
    /\ page = Page
    /\ events = 0

Event == events < MaxEvents /\ events' = events + 1

\* Cables are moved, servers come and go, descriptions are written.
Rewire ==
    /\ Event
    /\ \E w \in Wires \ {wire.on} : wire' = [wire EXCEPT !.on = w]
    /\ UNCHANGED <<port, disc, match, page, form>>

-----------------------------------------------------------------------------
(* The worker.                                                             *)

\* A reading with its discovery; the walk of the MAC table may get no answer.
Discover ==
    /\ disc = Empty
    /\ \E lost \in BOOLEAN :
          /\ IF lost THEN Event ELSE UNCHANGED events
          /\ disc' = [pc |-> "row", lost |-> lost,
                      on |-> IF lost THEN [wire.on EXCEPT !.macs = {}, !.many = FALSE] ELSE wire.on]
    /\ UNCHANGED <<wire, port, match, page, form>>

\* pollOne writes the row of the port: its description, what it is a member of.
Described(on) == [port EXCEPT !.on.desc = on.desc, !.on.aside = on.aside]

StoreRow ==
    /\ disc # Empty /\ disc.pc = "row"
    /\ port' = Described(disc.on)
    /\ disc' = [disc EXCEPT !.pc = "store"]
    /\ UNCHANGED <<wire, match, page, form, events>>

\* The readings in between, without a discovery, end with that.
Reading ==
    /\ disc = Empty
    /\ port' = Described(wire.on)
    /\ UNCHANGED <<wire, disc, match, page, form, events>>

\* storeDiscovery: a MAC table that was not read leaves the old one alone
\* (show mac address-table of NX-API); a walk of SNMP without an answer counts
\* as an empty table.
StoreDiscovery ==
    /\ disc # Empty /\ disc.pc = "store"
    /\ port' = IF disc.lost /\ wire.driver = "nxapi"
               THEN [port EXCEPT !.on.near = disc.on.near]
               ELSE [port EXCEPT !.on.near = disc.on.near, !.on.macs = disc.on.macs, !.on.many = disc.on.many]
    /\ disc' = Empty
    /\ UNCHANGED <<wire, match, page, form, events>>

\* An unknown switch at the other end, or too many addresses for a server.
UplinkLike(on) == "switch" \in on.near \/ on.many

\* A server that names itself; the addresses behind a port that is no uplink.
Strong(on) == (on.near \intersect Servers) \union (IF UplinkLike(on) THEN {} ELSE on.macs)

\* The description speaks where nothing strong does, and not for an uplink.
Weak(on) == IF UplinkLike(on) THEN {} ELSE on.desc

Signs(on) == IF Strong(on) # {} THEN Strong(on) ELSE Weak(on)

PassedOver(p) == p.server # NoServer \/ p.prot \/ p.on.aside

\* Mutant: a dismissed server is offered again.
OfferedAgain(p) ==
    IF PassedOver(p) \/ Cardinality(Signs(p.on)) # 1 THEN NoServer
    ELSE CHOOSE s \in Servers : s \in Signs(p.on)

\* suggestLinks: only where exactly one server remains that was not dismissed.
SuggestLinks(p) ==
    IF PassedOver(p) \/ Cardinality(Signs(p.on)) # 1 \/ p.dismissed \in Signs(p.on) THEN NoServer
    ELSE CHOOSE s \in Servers : s \in Signs(p.on)

\* refreshSuggestions reads the ports, and writes what it found for them.
ReadPorts ==
    /\ match = Empty
    /\ match' = [pc |-> "write", suggested |-> SuggestLinks(port)]
    /\ UNCHANGED <<wire, port, disc, page, form, events>>

WriteSuggestion ==
    /\ match # Empty
    /\ port' = [port EXCEPT !.suggested = match.suggested]
    /\ match' = Empty
    /\ UNCHANGED <<wire, disc, page, form, events>>

-----------------------------------------------------------------------------
(* The page.                                                               *)

\* The list is read every half minute.
Load ==
    /\ page # Page
    /\ page' = Page
    /\ UNCHANGED <<wire, port, disc, match, form, events>>

\* PATCH /api/switch-ports: the server, the protection; a server clears the
\* suggestion.
Patched(server, prot) ==
    [port EXCEPT !.server = server, !.prot = prot, !.suggested = IF server = NoServer THEN @ ELSE NoServer]

\* SuggestionBox.accept sends the server that was suggested and the protection
\* as the page knows it.
Accept ==
    /\ Event
    /\ page.server = NoServer /\ page.suggested # NoServer
    /\ port' = Patched(page.suggested, page.prot)
    /\ UNCHANGED <<wire, disc, match, page, form>>

\* SuggestionBox.dismiss: whatever is suggested by now is dismissed.
Dismiss ==
    /\ Event
    /\ page.server = NoServer /\ page.suggested # NoServer
    /\ port' = [port EXCEPT !.dismissed = port.suggested, !.suggested = NoServer]
    /\ UNCHANGED <<wire, disc, match, page, form>>

\* PortSettings is filled when the tab is opened and not again.
OpenForm ==
    /\ form = Empty
    /\ form' = [pc |-> "open", server |-> page.server, prot |-> page.prot]
    /\ UNCHANGED <<wire, port, disc, match, page, events>>

SaveForm ==
    /\ form # Empty /\ Event
    /\ \E s \in Settings :
          /\ s.server # form.server \/ s.prot # form.prot
          /\ port' = Patched(s.server, s.prot)
    /\ form' = Empty
    /\ UNCHANGED <<wire, disc, match, page>>

CloseForm ==
    /\ form # Empty
    /\ form' = Empty
    /\ UNCHANGED <<wire, port, disc, match, page, events>>

-----------------------------------------------------------------------------

Worker == Discover \/ StoreRow \/ StoreDiscovery

Next == Rewire \/ Worker \/ Reading \/ ReadPorts \/ WriteSuggestion
        \/ Load \/ Accept \/ Dismiss \/ OpenForm \/ SaveForm \/ CloseForm

\* The readings and the matching go on, and the page is read again.
Spec ==
    /\ Init /\ [][Next]_vars
    /\ WF_vars(Worker) /\ WF_vars(ReadPorts \/ WriteSuggestion) /\ WF_vars(Load)

-----------------------------------------------------------------------------
(* What must hold.                                                         *)

\* What is on the wire speaks for s and for nobody else: s names itself, and next to it
\* no address of another server is seen on a port that is no uplink; or nobody names
\* itself and the port is no uplink, and s is behind it, or nobody is and the
\* description names s.
SpeaksFor(s) ==
    LET on == wire.on
        uplink == on.many \/ "switch" \in on.near
        names == on.near \ {"switch"}
    IN /\ ~on.aside
       /\ \/ names = {s} /\ (uplink \/ on.macs \subseteq {s})
          \/ names = {} /\ ~uplink /\ (on.macs = {s} \/ (on.macs = {} /\ on.desc = {s}))

\* In the end the page offers a server if and only if it is the only one that
\* what is on the port speaks for, the port is free, and this server was not
\* dismissed: neither a suggestion computed before the admin's answer and
\* written after it nor a MAC table that got lost leaves its mark.
OffersTheOnlyOne ==
    <>[](TypeOK /\ \A s \in Servers :
            page.suggested = s <=> SpeaksFor(s) /\ port.server = NoServer /\ ~port.prot /\ port.dismissed # s)

=============================================================================
