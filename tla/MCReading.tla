----------------------------- MODULE MCReading -----------------------------
(* What the worker does with switches: the reading of the ports, the health *)
(* it decides from that, the backups and the commands people ask for;       *)
(* checked one beside the other: in a behaviour only the part in focus      *)
(* moves.  Bounds are given with the instances; those of the parts that are *)
(* proved about are constants.                                              *)
EXTENDS Integers

CONSTANTS
    Wrap, Speed, Grace, HasHC, Losable, Linked, NoServer, MaxTime, MaxHappenings,  \* SwitchPoll
    Protocols, MaxActions, MaxEvents                                               \* SwitchCommands

VARIABLES
    focus,
    pdev, now, counted, sw, row, inc, down, poll, pevents,    \* SwitchPoll
    config, history, order, fresh, auto, extra, events,       \* SwitchBackups
    dev, driver, active, limits, port, samples, hinc, hpoll, hevents,  \* SwitchHealth
    cdev, cport, cactive, queue, work, cpoll, dlg, cevents    \* SwitchCommands

P == INSTANCE SwitchPoll WITH dev <- pdev, events <- pevents, Servers <- Linked, MaxEvents <- MaxHappenings
B == INSTANCE SwitchBackups WITH Switches <- {"a", "b", "c"}, Unwritable <- {"c"}, Limit <- 2, MaxEvents <- 2
H == INSTANCE SwitchHealth WITH inc <- hinc, poll <- hpoll, events <- hevents,
        Five <- 2, Fifteen <- 2, Thirty <- 3, MinSamples <- 2, ErrLimit <- 2, FlapLimit <- 2,
        Drivers <- {"nxapi", "fru"}, Servers <- {"s1"}, NoServer <- "none", MaxEvents <- 2
C == INSTANCE SwitchCommands WITH dev <- cdev, port <- cport, active <- cactive, poll <- cpoll, events <- cevents

ASSUME ReadingAssumption ==
    P!PollAssumption /\ B!BackupsAssumption /\ H!HealthAssumption /\ C!CommandsAssumption

pvars == <<pdev, now, counted, sw, row, inc, down, poll, pevents>>
bvars == <<config, history, order, fresh, auto, extra, events>>
hvars == <<dev, driver, active, limits, port, samples, hinc, hpoll, hevents>>
cvars == <<cdev, cport, cactive, queue, work, cpoll, dlg, cevents>>
vars == <<focus, pvars, bvars, hvars, cvars>>

\* One beginning of each part that is not in focus.
Init ==
    /\ focus \in {"poll", "backups", "health", "commands"}
    /\ P!Init /\ B!Init /\ H!Init /\ C!Init
    /\ focus = "poll" \/ pdev.hc
    /\ focus = "backups" \/ order = <<"a", "b", "c">>
    /\ focus = "health" \/ driver = "nxapi"
    /\ focus = "commands" \/ cdev.proto = "snmp"

OnlyPoll == focus = "poll" /\ UNCHANGED <<focus, bvars, hvars, cvars>>
OnlyBackups == focus = "backups" /\ UNCHANGED <<focus, pvars, hvars, cvars>>
OnlyHealth == focus = "health" /\ UNCHANGED <<focus, pvars, bvars, cvars>>
OnlyCommands == focus = "commands" /\ UNCHANGED <<focus, pvars, bvars, hvars>>

Next ==
    \/ OnlyPoll /\ P!Next
    \/ OnlyBackups /\ B!Next
    \/ OnlyHealth /\ H!Next
    \/ OnlyCommands /\ C!Next

\* The schedules of the worker and the timers of the page go on, its loops end; the
\* states of the parts come with some readings.
First ==
    \/ (OnlyPoll /\ P!Poll) \/ (OnlyBackups /\ B!Schedule) \/ (OnlyHealth /\ H!Reading)
    \/ (OnlyCommands /\ C!Worker)
Second == (OnlyPoll /\ P!Tick) \/ (OnlyBackups /\ B!StoreExtra) \/ (OnlyCommands /\ C!Reading)
Third == OnlyCommands /\ C!Follow
Again == (OnlyBackups /\ B!Hours) \/ (OnlyHealth /\ H!EvaluateEnvironment)

Spec == Init /\ [][Next]_vars /\ WF_vars(First) /\ WF_vars(Second) /\ WF_vars(Third) /\ SF_vars(Again)

-----------------------------------------------------------------------------
(* The properties of the parts, each stated in its module.                 *)

\* Traffic is never counted that the link cannot have carried.
NeverAstronomical == P!NeverAstronomical
\* A port shut before the reading is not reported as down.
ShutIsQuiet == P!ShutIsQuiet
\* Only the port that was asked for is shut, and none that is protected.
OnlyTheAsked == C!OnlyTheAsked
\* The incidents agree in the end with the port and the switch, and so do those of their health.
IncidentsSettle ==
    /\ focus = "poll" => P!IncidentsSettle
    /\ focus = "health" => H!HealthSettles
\* The newest version kept is the configuration of the switch in the end.
NewestIsCurrent == focus = "backups" => B!NewestIsCurrent
\* Every request is answered in the end, and the row shows what is.
RequestsSettle == focus = "commands" => C!RequestsSettle
=============================================================================
