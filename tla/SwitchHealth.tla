---------------------------- MODULE SwitchHealth ----------------------------
(***************************************************************************)
(* The health of a switch and of one of its ports (worker/switches.mjs):   *)
(* a reading adds a sample; from the samples of the last while it is       *)
(* decided whether the link is saturated, has errors or flaps, whether the *)
(* processor is busy, and from the parts that report a state whether the   *)
(* hardware is in order.  Each of the five is an incident that opens at a  *)
(* threshold and closes only well under it.  Admins change the port and    *)
(* the thresholds between any two steps of it.                             *)
(*                                                                         *)
(* Loads are in tenths of what the threshold allows.                       *)
(***************************************************************************)
EXTENDS Integers, FiniteSets, FiniteSetsExt

CONSTANTS
    Five, Fifteen, Thirty,  \* five, fifteen and thirty minutes, in readings
    MinSamples,             \* samples a mean is taken of (3)
    ErrLimit, FlapLimit,    \* switch_err_threshold and switch_flap_threshold
    Drivers,                \* where the states of the parts come from: "nxapi", "envmon", "fru"
    Servers, NoServer,
    MaxEvents

HealthAssumption ==
    /\ {Five, Fifteen, Thirty, MinSamples, ErrLimit, FlapLimit} \subseteq Nat \ {0}
    /\ Five <= Fifteen /\ Fifteen <= Thirty /\ MinSamples <= Five
    /\ Drivers \subseteq {"nxapi", "envmon", "fru"}
    /\ NoServer \notin Servers /\ MaxEvents \in Nat

VARIABLES
    dev,      \* the switch: reachable, load of the link, errors, flaps, load of the processor, state of a part
    driver,
    active,   \* switches.is_active
    limits,   \* the thresholds that are not 0
    port,     \* the row of the port: server, alert_util, whether protected or alert_down
    samples,  \* the samples of the last Thirty readings, the newest first; a failed reading left none
    inc,      \* the incidents open, <<kind, server>>
    poll,     \* the reading in progress: its step, the row selected, the incidents then open
    events

vars == <<dev, driver, active, limits, port, samples, inc, poll, events>>

Loads == {0, 9, 10}
PortKinds == {"port_saturated", "port_errors", "port_flapping"}
None == [load |-> 0-1, err |-> 0, flap |-> 0, cpu |-> 0-1]
Idle == [pc |-> "idle", port |-> [server |-> NoServer, util |-> FALSE, watch |-> FALSE], open |-> {}]

Init ==
    /\ dev = [up |-> TRUE, load |-> 0, err |-> 0, flap |-> 0, cpu |-> 0, part |-> "normal"]
    /\ driver \in Drivers
    /\ active = TRUE
    /\ limits = PortKinds \union {"switch_cpu"}
    /\ port = [server |-> NoServer, util |-> TRUE, watch |-> FALSE]
    /\ samples = [a \in 0..Thirty-1 |-> None]
    /\ inc = {} /\ poll = Idle /\ events = 0

-----------------------------------------------------------------------------
(* The switch and the panel.                                               *)

Event == events < MaxEvents /\ events' = events + 1

DeviceEvent ==
    /\ Event
    /\ \/ dev' = [dev EXCEPT !.up = ~@]
       \/ \E l \in Loads \ {dev.load} : dev' = [dev EXCEPT !.load = l]
       \/ \E l \in Loads \ {dev.cpu} : dev' = [dev EXCEPT !.cpu = l]
       \/ dev' = [dev EXCEPT !.err = 1 - @]
       \/ dev' = [dev EXCEPT !.flap = 1 - @]
       \/ \E s \in {"normal", "absent", "off", "failed"} \ {dev.part} : dev' = [dev EXCEPT !.part = s]
    /\ UNCHANGED <<driver, active, limits, port, samples, inc, poll>>

\* PATCH /api/switch-ports: the server, the alert of the load, the protection
\* and the alert of the link.
SetPort ==
    /\ Event
    /\ \/ \E s \in Servers \union {NoServer} : s # port.server /\ port' = [port EXCEPT !.server = s]
       \/ port' = [port EXCEPT !.util = ~@]
       \/ port' = [port EXCEPT !.watch = ~@]
    /\ UNCHANGED <<dev, driver, active, limits, samples, inc, poll>>

\* PATCH /api/settings: a threshold of 0 turns the alert off.
SetLimit ==
    /\ Event
    /\ \E k \in PortKinds : limits' = IF k \in limits THEN limits \ {k} ELSE limits \union {k}
    /\ UNCHANGED <<dev, driver, active, port, samples, inc, poll>>

SetActive ==
    /\ Event
    /\ active' = ~active
    /\ UNCHANGED <<dev, driver, limits, port, samples, inc, poll>>

-----------------------------------------------------------------------------
(* The reading.                                                            *)

\* pollSwitches: what is open of a switch out of service is closed.
CloseInactive ==
    /\ poll.pc = "idle" /\ ~active /\ inc # {}
    /\ inc' = {}
    /\ UNCHANGED <<dev, driver, active, limits, port, samples, poll, events>>

\* pollOne: a reading that is answered adds a sample, one that is not adds
\* none and decides nothing.
Sample ==
    /\ poll.pc = "idle" /\ active
    /\ samples' = [a \in DOMAIN samples |->
                     IF a > 0 THEN samples[a - 1]
                     ELSE IF dev.up THEN [load |-> dev.load, err |-> dev.err, flap |-> dev.flap, cpu |-> dev.cpu]
                     ELSE None]
    /\ poll' = IF dev.up THEN [poll EXCEPT !.pc = "env"] ELSE poll
    /\ UNCHANGED <<dev, driver, active, limits, port, inc, events>>

Taken(span) == {a \in 0..span-1 : samples[a].load >= 0}
SumOver(field, span) == MapThenSumSet(LAMBDA a : samples[a][field], Taken(span))

\* The incident of a kind for one server opens or closes.
Opened(kind, server) == inc \union {<<kind, server>>}
Closed(kind, server) == inc \ {<<kind, server>>}

\* parseEnvironment: by NX-API whatever is neither in order nor absent.
ParseEnvironment(part) == part \notin {"normal", "absent"}

\* buildEnvironment: by SNMP the same of the parts of the ENVMON table, which
\* reports them as shut down; of the units that can be replaced one that an
\* admin turned off is in order, and one that is absent is not listed.
BuildEnvironment(part) ==
    IF driver = "envmon" THEN part \notin {"normal", "absent"} ELSE part \notin {"normal", "absent", "off"}

Problem == IF driver = "nxapi" THEN ParseEnvironment(dev.part) ELSE BuildEnvironment(dev.part)

\* evaluateEnvironment, when the states came with this reading: they are asked
\* for every five minutes only, and may be missing.
EvaluateEnvironment ==
    /\ poll.pc = "env"
    /\ inc' = IF Problem THEN Opened("switch_env", NoServer) ELSE Closed("switch_env", NoServer)
    /\ poll' = [poll EXCEPT !.pc = "cpu"]
    /\ UNCHANGED <<dev, driver, active, limits, port, samples, events>>

SkipEnvironment ==
    /\ poll.pc = "env"
    /\ poll' = [poll EXCEPT !.pc = "cpu"]
    /\ UNCHANGED <<dev, driver, active, limits, port, samples, inc, events>>

\* evaluateCpu: by the mean of the last five minutes.
EvaluateCpu ==
    LET n == Cardinality(Taken(Five))
        sum == SumOver("cpu", Five)
    IN  /\ poll.pc = "cpu"
        /\ inc' = IF n < MinSamples THEN inc
                  ELSE IF sum >= 10 * n THEN Opened("switch_cpu", NoServer)
                  ELSE IF sum < 9 * n THEN Closed("switch_cpu", NoServer) ELSE inc
        /\ poll' = [poll EXCEPT !.pc = "ports"]
        /\ UNCHANGED <<dev, driver, active, limits, port, samples, events>>

\* Mutant: the incidents stay open when the port is given to another server.
SweepNone == inc

\* What is left of the incidents once those of a port that now has another
\* server are closed.
Sweep == {i \in inc : i[1] \in PortKinds => i[2] = port.server}

\* evaluatePorts, the closing statement.
EvaluatePorts ==
    /\ poll.pc = "ports"
    /\ inc' = Sweep
    /\ poll' = [poll EXCEPT !.pc = "select"]
    /\ UNCHANGED <<dev, driver, active, limits, port, samples, events>>

\* evaluatePortHealth selects the port with its sums, and then the incidents
\* that are open.
SelectPort ==
    /\ poll.pc = "select"
    /\ poll' = [poll EXCEPT !.pc = "open", !.port = port]
    /\ UNCHANGED <<dev, driver, active, limits, port, samples, inc, events>>

SelectOpen ==
    /\ poll.pc = "open"
    /\ poll' = [poll EXCEPT !.pc = "health", !.open = {i[1] : i \in inc}]
    /\ UNCHANGED <<dev, driver, active, limits, port, samples, inc, events>>

Watched(p) == p.server # NoServer \/ p.watch \/ p.util

\* Mutant: an incident whose alert was turned off is left open.
LineWhenOn(kind, p, opens, closes) ==
    IF kind \in limits /\ opens THEN "open" ELSE IF kind \in limits /\ closes THEN "close" ELSE "leave"

\* What becomes of the incident of one kind: without its alert it is closed,
\* at the threshold opened, well under it closed, and between the two left.
Line(kind, p, opens, closes) ==
    IF kind \notin limits \/ (kind # "port_saturated" /\ ~Watched(p)) THEN "close"
    ELSE IF opens THEN "open" ELSE IF closes THEN "close" ELSE "leave"

Verdict(kind, p) ==
    LET n == Cardinality(Taken(Five))
        sum == SumOver("load", Five)
        few == ~p.util \/ n < MinSamples
    IN  CASE kind = "port_saturated" -> Line(kind, p, ~few /\ sum >= 10 * n, few \/ sum < 9 * n)
          [] kind = "port_errors" -> Line(kind, p, SumOver("err", Fifteen) >= ErrLimit, SumOver("err", Thirty) = 0)
          [] kind = "port_flapping" -> Line(kind, p, SumOver("flap", Fifteen) >= FlapLimit, SumOver("flap", Fifteen) = 0)

\* evaluatePortHealth decides for each kind; an incident is opened and closed
\* under the server of the row selected.
EvaluatePortHealth ==
    LET p == poll.port
        said(v) == {k \in PortKinds : Verdict(k, p) = v}
    IN  /\ poll.pc = "health"
        /\ inc' = (inc \union {<<k, p.server>> : k \in said("open")})
                       \ {<<k, p.server>> : k \in said("close") \intersect poll.open}
        /\ poll' = Idle
        /\ UNCHANGED <<dev, driver, active, limits, port, samples, events>>

-----------------------------------------------------------------------------

Reading ==
    \/ CloseInactive \/ Sample \/ EvaluateEnvironment \/ SkipEnvironment
    \/ EvaluateCpu \/ EvaluatePorts \/ SelectPort \/ SelectOpen \/ EvaluatePortHealth

Next == DeviceEvent \/ SetPort \/ SetLimit \/ SetActive \/ Reading

\* The worker reads on, and the states of the parts come with some readings.
Spec == Init /\ [][Next]_vars /\ WF_vars(Reading) /\ SF_vars(EvaluateEnvironment)

-----------------------------------------------------------------------------
(* What must hold.                                                         *)

\* What the port and the switch do that an alert is on for, and what they do
\* not do at all.
Bad(kind) ==
    CASE kind = "port_saturated" -> kind \in limits /\ port.util /\ dev.load = 10
      [] kind = "port_errors" -> kind \in limits /\ Watched(port) /\ dev.err = 1
      [] kind = "port_flapping" -> kind \in limits /\ Watched(port) /\ dev.flap = 1
      [] kind = "switch_cpu" -> dev.cpu = 10
      [] kind = "switch_env" -> dev.part = "failed"

Good(kind) ==
    CASE kind = "port_saturated" -> kind \notin limits \/ ~port.util \/ dev.load = 0
      [] kind = "port_errors" -> kind \notin limits \/ ~Watched(port) \/ dev.err = 0
      [] kind = "port_flapping" -> kind \notin limits \/ ~Watched(port) \/ dev.flap = 0
      [] kind = "switch_cpu" -> dev.cpu = 0
      [] kind = "switch_env" -> dev.part \in {"normal", "absent"}

\* Once nothing changes any more, what is open agrees with the switch: an
\* incident of what is bad is open, under the server the port has now and no
\* other; none is left of what is good or of what has no alert any more,
\* whatever admins changed while a reading was deciding; of a switch out of
\* service none is left at all.
HealthSettles ==
    <>[](IF ~active THEN inc = {}
         ELSE dev.up =>
                \A k \in PortKinds \union {"switch_cpu", "switch_env"} :
                    LET servers == {i[2] : i \in {i \in inc : i[1] = k}}
                        own == IF k \in PortKinds THEN port.server ELSE NoServer
                    IN  /\ Bad(k) => servers = {own}
                        /\ Good(k) => servers = {}
                        /\ servers \subseteq {own})
=============================================================================
