------------------------------ MODULE Metering ------------------------------
(***************************************************************************)
(* The traffic of one server on its way to the table that quota, billing   *)
(* and reports read: samples of the agent and of the switch port, hourly   *)
(* rows rewritten by the roll-up cycle statement by statement, daily rows  *)
(* made from them, days entered by hand, and the purge of old samples.     *)
(* Bytes are units; only one direction is counted; no samples means 0.     *)
(***************************************************************************)
EXTENDS Naturals, Functions

CONSTANTS
    LastHour,       \* bound on the hours that pass
    HoursPerDay,
    Window,         \* hours a roll-up recomputes: rollupHourly(3)
    DaysBack,       \* days a roll-up recomputes: rollupDaily(3)
    Retention,      \* setting raw_retention_days, in hours
    MaxSleep,       \* a roll-up ends at least once in so many hours
    MaxFlow,        \* bound on the traffic
    MaxEvents       \* bound on what admins and faults do

ASSUME HoursAssumption ==
    /\ LastHour \in Nat /\ HoursPerDay \in Nat \ {0} /\ DaysBack \in Nat \ {0}
    /\ MaxFlow \in Nat /\ MaxEvents \in Nat
(* A sample may arrive one hour late, so that a roll-up must follow it      *)
(* within the window; the purge stays out of the window; and an hour of the *)
(* window is in a day that is recomputed (3 hours, 3 days).                *)
ASSUME WindowAssumption ==
    /\ Window \in Nat /\ MaxSleep \in Nat /\ Retention \in Nat
    /\ MaxSleep < Window /\ Window < Retention
    /\ Window <= HoursPerDay * DaysBack

VARIABLES
    hour,
    flow,                   \* the traffic of the server so far
    unsent, resent,         \* the agent's pending volume; what it reported twice
    unread, cleared,        \* growth of the port's counter; was it reset?
    poll,                   \* a reading between its two statements
    agentRaw, portRaw,      \* server_metrics and switch_port_metrics, by hour
    agentSeen, portSeen,    \* the same, as if nothing were ever purged
    since, touched,         \* switch_ports.count_since; was it ever changed?
    portHourly, hourly,     \* switch_port_hourly, server_metrics_hourly
    daily,                  \* server_metrics_daily
    stage, began,           \* the roll-up: its next statement, its first hour
    lastDone,               \* the first hour of the last one that ended
    half, torn,             \* are the hourly statements begun and not done;
                            \* did the hour ever turn meanwhile?
    form,                   \* an entry by hand between its two statements
    events                  \* uses of the bound

sourceVars == <<flow, unsent, resent, unread, cleared, poll>>
rawVars == <<agentRaw, portRaw, agentSeen, portSeen>>
linkVars == <<since, touched>>
cycleVars == <<stage, began, lastDone, half, torn>>
vars == <<hour, sourceVars, rawVars, linkVars, portHourly, hourly, daily, cycleVars,
          form, events>>

Hours == 0 .. LastHour
DayOf(h) == h \div HoursPerDay
Days == 0 .. DayOf(LastHour)
Never == LastHour + 1                   \* count_since of a port that is not counted
NoPoll == [at |-> "idle", hour |-> 0, bytes |-> 0]
NoForm == [at |-> "idle", day |-> 0]
NoDay == [bytes |-> 0, source |-> "none"]

Init ==
    /\ hour = 0 /\ flow = 0
    /\ unsent = 0 /\ resent = 0 /\ unread = 0 /\ cleared = FALSE
    /\ poll = NoPoll
    /\ agentRaw = [h \in Hours |-> 0] /\ portRaw = agentRaw
    /\ agentSeen = agentRaw /\ portSeen = agentRaw
    /\ since \in {0, Never} /\ touched = FALSE
    /\ portHourly = [h \in Hours |-> 0] /\ hourly = [h \in Hours |-> 0]
    /\ daily = [d \in Days |-> NoDay]
    /\ stage = "idle" /\ began = 0 /\ lastDone = 0 /\ half = FALSE /\ torn = FALSE
    /\ form = NoForm
    /\ events = 0

Event == events < MaxEvents /\ events' = events + 1

-----------------------------------------------------------------------------
(* The server and its two meters *)

Traffic ==
    /\ flow < MaxFlow
    /\ flow' = flow + 1
    /\ unsent' = unsent + 1
    /\ unread' = unread + 1
    /\ UNCHANGED <<hour, resent, cleared, poll, rawVars, linkVars, portHourly,
                   hourly, daily, cycleVars, form, events>>

(* POST /api/ingest: the sample is dated by the clock of the panel.         *)
Sample ==
    /\ unsent > 0
    /\ agentRaw' = [agentRaw EXCEPT ![hour] = @ + unsent]
    /\ agentSeen' = [agentSeen EXCEPT ![hour] = @ + unsent]
    /\ UNCHANGED <<hour, flow, unread, cleared, poll, portRaw, portSeen, linkVars,
                   portHourly, hourly, daily, cycleVars, form>>

(* A report that fails carries its volume to the next one, which is the     *)
(* stuttering step of the agent.                                           *)
Report == Sample /\ unsent' = 0 /\ UNCHANGED <<resent, events>>

(* The sample is stored and the answer lost: the agent reports it again.    *)
AnswerLost == Event /\ Sample /\ resent' = resent + unsent /\ UNCHANGED unsent

(* pollOne: the counters are stored, then the delta.  A counter that was    *)
(* reset counts for nothing.                                               *)
StoreCounters ==
    /\ poll.at = "idle"
    /\ unread > 0 \/ cleared
    /\ poll' = [at |-> "sample", hour |-> hour, bytes |-> IF cleared THEN 0 ELSE unread]
    /\ unread' = 0
    /\ cleared' = FALSE
    /\ UNCHANGED <<hour, flow, unsent, resent, rawVars, linkVars, portHourly,
                   hourly, daily, cycleVars, form, events>>

StoreDelta ==
    /\ poll.at = "sample"
    /\ portRaw' = [portRaw EXCEPT ![poll.hour] = @ + poll.bytes]
    /\ portSeen' = [portSeen EXCEPT ![poll.hour] = @ + poll.bytes]
    /\ poll' = NoPoll
    /\ UNCHANGED <<hour, flow, unsent, resent, unread, cleared, agentRaw, agentSeen,
                   linkVars, portHourly, hourly, daily, cycleVars, form, events>>

ClearCounters ==
    /\ Event
    /\ cleared' = TRUE
    /\ UNCHANGED <<hour, flow, unsent, resent, unread, poll, rawVars, linkVars,
                   portHourly, hourly, daily, cycleVars, form>>

-----------------------------------------------------------------------------
(* The roll-up cycle: five statements, each with its own now().             *)

InWindow(h) == h <= hour /\ hour <= h + Window

RollPort ==
    /\ stage = "idle"
    /\ portHourly' = [h \in Hours |-> IF InWindow(h) /\ portRaw[h] > 0
                                      THEN portRaw[h] ELSE portHourly[h]]
    /\ stage' = "agent"
    /\ began' = hour
    /\ half' = TRUE
    /\ UNCHANGED <<hour, sourceVars, rawVars, linkVars, hourly, daily, lastDone,
                   torn, form, events>>

RollAgent ==
    /\ stage = "agent"
    /\ hourly' = [h \in Hours |-> IF InWindow(h) /\ agentRaw[h] > 0
                                  THEN agentRaw[h] ELSE hourly[h]]
    /\ stage' = "replace"
    /\ UNCHANGED <<hour, sourceVars, rawVars, linkVars, portHourly, daily, began,
                   lastDone, half, torn, form, events>>

(* Mutated form: the hours before the port was linked are replaced too.     *)
CountedAlways(h) == since # Never /\ InWindow(h)

(* Hours whose traffic comes from the switch port. *)
Counted(h) == InWindow(h) /\ since <= h

Replace ==
    /\ stage = "replace"
    /\ hourly' = [h \in Hours |-> IF Counted(h) /\ portHourly[h] > 0
                                  THEN portHourly[h] ELSE hourly[h]]
    /\ stage' = "zero"
    /\ UNCHANGED <<hour, sourceVars, rawVars, linkVars, portHourly, daily, began,
                   lastDone, half, torn, form, events>>

(* Mutated form: an hour without port samples keeps the agent's number.     *)
ZeroNothing ==
    /\ stage = "zero"
    /\ stage' = "daily"
    /\ half' = FALSE
    /\ UNCHANGED <<hour, sourceVars, rawVars, linkVars, portHourly, hourly, daily,
                   began, lastDone, torn, form, events>>

Zero ==
    /\ stage = "zero"
    /\ hourly' = [h \in Hours |-> IF Counted(h) /\ portHourly[h] = 0 THEN 0 ELSE hourly[h]]
    /\ stage' = "daily"
    /\ half' = FALSE
    /\ UNCHANGED <<hour, sourceVars, rawVars, linkVars, portHourly, daily, began,
                   lastDone, torn, form, events>>

HoursOf(d) == {h \in Hours : DayOf(h) = d}

(* Mutated form: the row of the day is replaced whatever its source.        *)
DayRowAlways(d) == [bytes |-> SumFunctionOnSet(hourly, HoursOf(d)), source |-> "agent"]

(* ON CONFLICT ... WHERE source = 'agent'; no hourly rows, no row.          *)
DayRow(d) ==
    LET bytes == SumFunctionOnSet(hourly, HoursOf(d))
    IN  IF daily[d].source = "agent" \/ (daily[d].source = "none" /\ bytes > 0)
        THEN [bytes |-> bytes, source |-> "agent"]
        ELSE daily[d]

RollDaily ==
    /\ stage = "daily"
    /\ daily' = [d \in Days |-> IF DayOf(hour) <= d + DaysBack THEN DayRow(d) ELSE daily[d]]
    /\ stage' = "idle"
    /\ lastDone' = began
    /\ UNCHANGED <<hour, sourceVars, rawVars, linkVars, portHourly, hourly, began,
                   half, torn, form, events>>

Cycle == RollPort \/ RollAgent \/ Replace \/ Zero \/ RollDaily

(* Mutated form: the purge reaches into the hours that are recomputed.      *)
ExpiredEarly(h) == h < hour

Expired(h) == h + Retention <= hour

(* What a purge leaves of an hour: it cuts at a moment within the hour it   *)
(* reaches last.                                                           *)
Remains(raw, h, cut) ==
    IF ~Expired(h) THEN raw[h]
    ELSE IF Expired(h + 1) \/ raw[h] < cut THEN 0 ELSE raw[h] - cut

(* Before the first hour expires a purge changes nothing.                   *)
Purge(cut) ==
    /\ Expired(0)
    /\ agentRaw' = [h \in Hours |-> Remains(agentRaw, h, cut)]
    /\ portRaw' = [h \in Hours |-> Remains(portRaw, h, cut)]
    /\ UNCHANGED <<hour, sourceVars, agentSeen, portSeen, linkVars, portHourly,
                   hourly, daily, cycleVars, form, events>>

-----------------------------------------------------------------------------
(* The panel *)

(* PATCH /api/switch-ports: counting starts now, or ends.                   *)
Link ==
    /\ Event
    /\ since' = IF since = Never THEN hour ELSE Never
    /\ touched' = TRUE
    /\ UNCHANGED <<hour, sourceVars, rawVars, portHourly, hourly, daily, cycleVars,
                   form>>

(* POST /api/traffic/backfill: a measured day is replaced only on request.  *)
BackfillRead(d, overwrite) ==
    /\ Event
    /\ form.at = "idle"
    /\ d <= DayOf(hour)
    /\ daily[d].source # "agent" \/ overwrite
    /\ form' = [at |-> "write", day |-> d]
    /\ UNCHANGED <<hour, sourceVars, rawVars, linkVars, portHourly, hourly, daily,
                   cycleVars>>

BackfillWrite ==
    /\ form.at = "write"
    /\ daily' = [daily EXCEPT ![form.day] = [bytes |-> MaxFlow + 1, source |-> "manual"]]
    /\ form' = NoForm
    /\ UNCHANGED <<hour, sourceVars, rawVars, linkVars, portHourly, hourly,
                   cycleVars, events>>

-----------------------------------------------------------------------------
NewHour ==
    /\ hour < LastHour
    /\ hour < lastDone + MaxSleep
    /\ poll.at = "sample" => poll.hour = hour
    /\ hour' = hour + 1
    /\ torn' = (torn \/ half)
    /\ UNCHANGED <<sourceVars, rawVars, linkVars, portHourly, hourly, daily, stage,
                   began, lastDone, half, form, events>>

(* The worker restarts: the roll-up begins anew, a delta that was not       *)
(* stored is gone.                                                         *)
Crash ==
    /\ Event
    /\ stage' = "idle"
    /\ poll' = NoPoll
    /\ UNCHANGED <<hour, flow, unsent, resent, unread, cleared, rawVars, linkVars,
                   portHourly, hourly, daily, began, lastDone, half, torn, form>>

Next ==
    \/ Traffic \/ Report \/ AnswerLost
    \/ StoreCounters \/ StoreDelta \/ ClearCounters
    \/ Cycle
    \/ \E cut \in 0 .. MaxFlow : Purge(cut)
    \/ Link
    \/ \E d \in Days, overwrite \in BOOLEAN : BackfillRead(d, overwrite)
    \/ BackfillWrite
    \/ NewHour \/ Crash

Spec == Init /\ [][Next]_vars

-----------------------------------------------------------------------------
TypeOK ==
    /\ hour \in Hours /\ flow \in 0 .. MaxFlow
    /\ unsent \in Nat /\ resent \in Nat /\ unread \in Nat /\ cleared \in BOOLEAN
    /\ poll \in [at : {"idle", "sample"}, hour : Hours, bytes : Nat]
    /\ agentRaw \in [Hours -> Nat] /\ portRaw \in [Hours -> Nat]
    /\ agentSeen \in [Hours -> Nat] /\ portSeen \in [Hours -> Nat]
    /\ since \in 0 .. Never /\ touched \in BOOLEAN
    /\ portHourly \in [Hours -> Nat] /\ hourly \in [Hours -> Nat]
    /\ daily \in [Days -> [bytes : Nat, source : {"none", "agent", "manual"}]]
    /\ stage \in {"idle", "agent", "replace", "zero", "daily"}
    /\ began \in Hours /\ lastDone \in Hours
    /\ half \in BOOLEAN /\ torn \in BOOLEAN
    /\ form \in [at : {"idle", "write"}, day : Days]
    /\ events \in 0 .. MaxEvents

Measured == {d \in Days : daily[d].source = "agent"}
Bytes == [d \in Days |-> daily[d].bytes]

Counts == SumFunctionOnSet(Bytes, Measured)

(* A customer is never charged for a byte twice: the days that were         *)
(* measured add up to no more than the traffic, although two meters see all *)
(* of it, at different hours.  Only what an agent reports again because the *)
(* answer was lost is counted again; and the hour must not turn between the *)
(* hourly statements of a roll-up, which write the agent's number first.    *)
NothingTwice ==
    ~touched /\ ~torn => Counts <= flow + IF since = Never THEN resent ELSE 0

(* The samples of the meter that counts, as if nothing were ever purged.    *)
Seen == IF since = Never THEN agentSeen ELSE portSeen

(* And no sample is lost: once a day is out of the window, its row holds    *)
(* all samples of the meter that counts, the ones that came late included.  *)
NothingLost ==
    ~touched /\ ~torn =>
        \A d \in Measured :
            (\A h \in HoursOf(d) : h + Window < hour) =>
                daily[d].bytes = SumFunctionOnSet(Seen, HoursOf(d))

(* What the two meters saw is counted once: not twice, and none of it lost. *)
CountedOnce == TypeOK /\ NothingTwice /\ NothingLost

(* What the customer has seen as used is not taken back: neither by the     *)
(* statements of a roll-up, nor by a restart between them, nor by a purge.  *)
UsageNeverFalls ==
    [][\A d \in Measured : ~touched' /\ ~torn' /\ daily'[d].source = "agent" =>
          daily[d].bytes <= daily'[d].bytes]_vars

(* A day entered by hand changes only by hand (worker/rollup.mjs: without   *)
(* the condition on source it would be gone in five minutes).              *)
ManualStays ==
    [][\A d \in Days :
          daily[d].source = "manual" /\ daily'[d] # daily[d] => form.at = "write"]_vars

(* Linking a port leaves the hours before it to the agent                   *)
(* (docs/switches.md: past days and hours are not touched).                 *)
PastIsTheAgents ==
    [][\A h \in Hours :
          h < since /\ hourly'[h] # hourly[h] => hourly'[h] = agentRaw[h]]_vars

(* A roll-up leaves alone what was settled before: by hand, or by the agent. *)
SettledStays == ManualStays /\ PastIsTheAgents
=============================================================================
