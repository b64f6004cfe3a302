----------------------------- MODULE Incidents -----------------------------
(***************************************************************************)
(* Monitoring of one server with one address: the worker's check cycle     *)
(* (health, address, dispatch of alerts) and its threshold cycle open and  *)
(* resolve rows of table incidents, an admin acknowledges and resolves     *)
(* rows in the panel, and the world changes meanwhile.  The two cycles run *)
(* in one process and interleave at every query and message.               *)
(***************************************************************************)
EXTENDS Naturals, Sequences, FiniteSets

CONSTANTS
    Muted,          \* kinds whose alert rule has send_sms = FALSE
    BatchLimit,     \* rows one dispatch takes (20 in the code)
    MaxEvents       \* bound on what the world, the admins and faults do

Kinds == {"down", "agent_lost", "ip_down", "cpu"}

ASSUME MutedAssumption == Muted \subseteq Kinds
ASSUME BoundsAssumption == BatchLimit \in Nat \ {0} /\ MaxEvents \in Nat

VARIABLES
    condition,      \* the server: reports, reachable without agent, dead
    ipUp,           \* does its address answer to ping?
    load,           \* the average load against the threshold
    shut,           \* are all its switch ports shut by the admin?
    status,         \* servers.status
    rows,           \* table incidents, in the order of started_at
    cpc, view,      \* the check cycle: its place, what it read of the server
    batch,          \* the rows a dispatch has still to send
    tpc, heat,      \* the threshold cycle: its place, the load it read
    recovering,     \* per cycle, the row whose recovery is to be sent
    crashes,        \* restarts of the worker so far
    events          \* uses of the bound

worldVars == <<condition, ipUp, load, shut>>
checkVars == <<cpc, view, batch>>
thresholdVars == <<tpc, heat>>
vars == <<worldVars, status, rows, checkVars, thresholdVars, recovering,
          crashes, events>>

Conditions == {"reports", "reachable", "dead"}
Loads == {"low", "middle", "high"}
Statuses == {"up", "down", "maintenance"}
CheckPlaces == {"idle", "judge", "down", "agent", "ip", "dispatch", "tell", "mark",
                "recover_agent", "recover_dispatch"}
ThresholdPlaces == {"idle", "act", "recover"}

(* told stands for notified_at: never, recently, or due for a repetition. *)
(* alerts and recoveries count the messages of the row.                   *)
Rows == [kind : Kinds, open : BOOLEAN, acked : BOOLEAN,
         told : {"never", "recent", "due"}, alerts : Nat, recoveries : Nat]

Verdicts == {"agent", "other", "none"}
Views == [status : Statuses, fresh : BOOLEAN, shut : BOOLEAN, verdict : Verdicts]

(* What the variable of a finished cycle holds. *)
NoView == [status |-> "up", fresh |-> TRUE, shut |-> FALSE, verdict |-> "agent"]

NewRow(k) == [kind |-> k, open |-> TRUE, acked |-> FALSE, told |-> "never",
              alerts |-> 0, recoveries |-> 0]

Ids == 1 .. Len(rows)

OpenOf(k) == {i \in Ids : rows[i].kind = k /\ rows[i].open}

Init ==
    /\ condition = "reports" /\ ipUp = TRUE /\ load = "low" /\ shut = FALSE
    /\ status = "up"
    /\ rows = <<>>
    /\ cpc = "idle"
    /\ view = NoView
    /\ batch = {}
    /\ tpc = "idle" /\ heat = "low"
    /\ recovering = [check |-> 0, threshold |-> 0]
    /\ crashes = 0 /\ events = 0

-----------------------------------------------------------------------------
(* openIncident and resolveIncident.  A kind belongs to one cycle, so the  *)
(* select and the insert of openIncident are one step.                     *)

OpenIncident(k) ==
    rows' = IF OpenOf(k) = {} THEN Append(rows, NewRow(k)) ELSE rows

Latest(k) == CHOOSE i \in OpenOf(k) : \A j \in OpenOf(k) : j <= i

Close(k) ==
    rows' = IF OpenOf(k) = {} THEN rows ELSE [rows EXCEPT ![Latest(k)].open = FALSE]

(* The recovery is announced only for a row with notified_at. *)
Recovers(k) == OpenOf(k) # {} /\ rows[Latest(k)].told # "never"

-----------------------------------------------------------------------------
(* The check cycle. *)

CheckGoTo(place) == cpc' = place

(* checkServers reads all servers first; maintenance is left alone. *)
CheckRead ==
    /\ cpc = "idle"
    /\ view' = [status |-> status, fresh |-> condition = "reports", shut |-> shut,
                verdict |-> "agent"]
    /\ CheckGoTo(IF status = "maintenance" THEN "ip" ELSE "judge")
    /\ UNCHANGED <<worldVars, status, rows, batch, thresholdVars, recovering,
                   crashes, events>>

(* A silent agent is followed by a connection and a ping.  The status is   *)
(* written over whatever is there now, if it differs from the one read.    *)
Judge ==
    LET verdict == IF view.fresh THEN "agent"
                   ELSE IF condition # "dead" THEN "other" ELSE "none"
        new == IF verdict = "none" THEN "down" ELSE "up" IN
    /\ cpc = "judge"
    /\ view' = [view EXCEPT !.verdict = verdict]
    /\ status' = IF view.status = new THEN status ELSE new
    /\ CheckGoTo("down")
    /\ UNCHANGED <<worldVars, rows, batch, thresholdVars, recovering, crashes, events>>

(* Kind down: a server whose ports are shut on purpose is no outage. *)
CheckDown ==
    /\ cpc = "down"
    /\ CASE view.verdict = "none" /\ view.shut ->
              Close("down") /\ CheckGoTo("agent") /\ UNCHANGED recovering
         [] view.verdict = "none" /\ ~view.shut ->
              OpenIncident("down") /\ CheckGoTo("agent") /\ UNCHANGED recovering
         [] view.verdict # "none" ->
              /\ Close("down")
              /\ IF Recovers("down")
                 THEN /\ CheckGoTo("recover_agent")
                      /\ recovering' = [recovering EXCEPT !.check = Latest("down")]
                 ELSE CheckGoTo("agent") /\ UNCHANGED recovering
    /\ UNCHANGED <<worldVars, status, view, batch, thresholdVars, crashes, events>>

(* Kind agent_lost: only for a server that is up without its agent. *)
CheckAgent ==
    /\ cpc = "agent"
    /\ IF view.verdict = "other" THEN OpenIncident("agent_lost") ELSE Close("agent_lost")
    /\ CheckGoTo("ip")
    /\ view' = NoView
    /\ UNCHANGED <<worldVars, status, batch, thresholdVars, recovering,
                   crashes, events>>

(* checkIps, query, ping and answer in one step: the addresses of a server *)
(* that is down are not pinged.                                            *)
CheckIp ==
    /\ cpc = "ip"
    /\ IF status \in {"down", "maintenance"}
       THEN CheckGoTo("dispatch") /\ UNCHANGED <<rows, recovering>>
       ELSE IF ~ipUp
       THEN OpenIncident("ip_down") /\ CheckGoTo("dispatch") /\ UNCHANGED recovering
       ELSE /\ Close("ip_down")
            /\ IF Recovers("ip_down")
               THEN /\ CheckGoTo("recover_dispatch")
                    /\ recovering' = [recovering EXCEPT !.check = Latest("ip_down")]
               ELSE CheckGoTo("dispatch") /\ UNCHANGED recovering
    /\ UNCHANGED <<worldVars, status, view, batch, thresholdVars, crashes, events>>

SendRecovery(i) == rows' = [rows EXCEPT ![i].recoveries = @ + 1]

RecoverCheck ==
    /\ cpc \in {"recover_agent", "recover_dispatch"}
    /\ SendRecovery(recovering.check)
    /\ recovering' = [recovering EXCEPT !.check = 0]
    /\ CheckGoTo(IF cpc = "recover_agent" THEN "agent" ELSE "dispatch")
    /\ UNCHANGED <<worldVars, status, view, batch, thresholdVars, crashes, events>>

(* Mutated form: the query does not look at ack_at. *)
PendingAcked(i) == rows[i].open /\ rows[i].told # "recent"

(* Mutated form: SQL's NULL < now() is not true, so a new row is not found. *)
PendingDueOnly(i) == rows[i].open /\ ~rows[i].acked /\ rows[i].told = "due"

(* The WHERE of dispatchNotifications. *)
Pending(i) == rows[i].open /\ ~rows[i].acked /\ rows[i].told # "recent"

(* ORDER BY started_at LIMIT: the oldest of them. *)
DispatchRead ==
    LET pending == {i \in Ids : Pending(i)}
        oldest == {i \in pending : Cardinality({j \in pending : j < i}) < BatchLimit} IN
    /\ cpc = "dispatch"
    /\ batch' = oldest
    /\ CheckGoTo(IF oldest = {} THEN "idle" ELSE "tell")
    /\ UNCHANGED <<worldVars, status, rows, view, thresholdVars, recovering,
                   crashes, events>>

(* The rows of a batch are sent in their order. *)
Foremost == CHOOSE i \in batch : \A j \in batch : i <= j

AfterBatch == IF batch = {Foremost} THEN "idle" ELSE "tell"

(* A muted row is marked as told at once. *)
Mute ==
    /\ cpc = "tell"
    /\ rows[Foremost].kind \in Muted
    /\ rows' = [rows EXCEPT ![Foremost].told = "recent"]
    /\ batch' = batch \ {Foremost}
    /\ CheckGoTo(AfterBatch)
    /\ UNCHANGED <<worldVars, status, view, thresholdVars, recovering, crashes, events>>

Event == events < MaxEvents /\ events' = events + 1

(* notify: the message goes out, or every channel fails; both count.  At   *)
(* least one channel has a receiver: otherwise nothing would be marked.    *)
Tell ==
    /\ cpc = "tell"
    /\ rows[Foremost].kind \notin Muted
    /\ \/ rows' = [rows EXCEPT ![Foremost].alerts = @ + 1] /\ UNCHANGED events
       \/ Event /\ UNCHANGED rows
    /\ CheckGoTo("mark")
    /\ UNCHANGED <<worldVars, status, view, batch, thresholdVars, recovering, crashes>>

(* Mutated form: the row is not marked, and is sent again in every cycle. *)
MarkForgotten ==
    /\ cpc = "mark"
    /\ batch' = batch \ {Foremost}
    /\ CheckGoTo(AfterBatch)
    /\ UNCHANGED <<worldVars, status, rows, view, thresholdVars, recovering,
                   crashes, events>>

(* UPDATE incidents SET notified_at = now(), whatever became of the row. *)
Mark ==
    /\ cpc = "mark"
    /\ rows' = [rows EXCEPT ![Foremost].told = "recent"]
    /\ batch' = batch \ {Foremost}
    /\ CheckGoTo(AfterBatch)
    /\ UNCHANGED <<worldVars, status, view, thresholdVars, recovering, crashes, events>>

-----------------------------------------------------------------------------
(* The threshold cycle: averages of servers that are up. *)

ThresholdRead ==
    /\ tpc = "idle"
    /\ status = "up"
    /\ heat' = load
    /\ tpc' = "act"
    /\ UNCHANGED <<worldVars, status, rows, checkVars, recovering, crashes, events>>

(* Between 90% of the threshold and the threshold nothing happens. *)
ThresholdAct ==
    /\ tpc = "act"
    /\ CASE heat = "high"   -> OpenIncident("cpu") /\ tpc' = "idle" /\ UNCHANGED recovering
         [] heat = "middle" -> tpc' = "idle" /\ UNCHANGED <<rows, recovering>>
         [] heat = "low"    ->
              /\ Close("cpu")
              /\ IF Recovers("cpu")
                 THEN /\ tpc' = "recover"
                      /\ recovering' = [recovering EXCEPT !.threshold = Latest("cpu")]
                 ELSE tpc' = "idle" /\ UNCHANGED recovering
    /\ heat' = "low"
    /\ UNCHANGED <<worldVars, status, checkVars, crashes, events>>

RecoverThreshold ==
    /\ tpc = "recover"
    /\ SendRecovery(recovering.threshold)
    /\ recovering' = [recovering EXCEPT !.threshold = 0]
    /\ tpc' = "idle"
    /\ UNCHANGED <<worldVars, status, checkVars, heat, crashes, events>>

-----------------------------------------------------------------------------
(* The panel. *)

Ack(i) ==
    /\ Event
    /\ rows' = [rows EXCEPT ![i].acked = TRUE]
    /\ UNCHANGED <<worldVars, status, checkVars, thresholdVars, recovering, crashes>>

AdminResolve(i) ==
    /\ Event
    /\ rows' = [rows EXCEPT ![i].open = FALSE]
    /\ UNCHANGED <<worldVars, status, checkVars, thresholdVars, recovering, crashes>>

SetStatus(s) ==
    /\ Event
    /\ status # s
    /\ status' = s
    /\ UNCHANGED <<worldVars, rows, checkVars, thresholdVars, recovering, crashes>>

(* POST /api/ingest: a report of the agent makes the server up. *)
Report ==
    /\ condition = "reports"
    /\ status = "down"
    /\ status' = "up"
    /\ UNCHANGED <<worldVars, rows, checkVars, thresholdVars, recovering, crashes, events>>

(* The world, time, and a restart of the worker. *)

Change ==
    /\ Event
    /\ \/ condition' \in Conditions \ {condition} /\ UNCHANGED <<ipUp, load, shut>>
       \/ ipUp' = ~ipUp /\ UNCHANGED <<condition, load, shut>>
       \/ load' \in Loads \ {load} /\ UNCHANGED <<condition, ipUp, shut>>
       \/ shut' = ~shut /\ UNCHANGED <<condition, ipUp, load>>
    /\ UNCHANGED <<status, rows, checkVars, thresholdVars, recovering, crashes>>

(* alert_repeat_min passes since the last message of a row. *)
FallDue(i) ==
    /\ Event
    /\ rows[i].open /\ rows[i].told = "recent"
    /\ rows' = [rows EXCEPT ![i].told = "due"]
    /\ UNCHANGED <<worldVars, status, checkVars, thresholdVars, recovering, crashes>>

Crash ==
    /\ Event
    /\ crashes' = crashes + 1
    /\ cpc' = "idle" /\ view' = NoView /\ batch' = {}
    /\ tpc' = "idle" /\ heat' = "low"
    /\ recovering' = [check |-> 0, threshold |-> 0]
    /\ UNCHANGED <<worldVars, status, rows>>

-----------------------------------------------------------------------------
CheckStep ==
    \/ CheckRead \/ Judge \/ CheckDown \/ CheckAgent \/ CheckIp \/ RecoverCheck
    \/ DispatchRead \/ Mute \/ Tell \/ Mark

ThresholdStep == ThresholdRead \/ ThresholdAct \/ RecoverThreshold

Next ==
    \/ CheckStep
    \/ ThresholdStep
    \/ \E i \in Ids : Ack(i) \/ AdminResolve(i) \/ FallDue(i)
    \/ \E s \in {"up", "maintenance"} : SetStatus(s)
    \/ Report
    \/ Change
    \/ Crash

Spec == Init /\ [][Next]_vars

(* Each cycle schedules its next run when one ends: schedule in index.mjs. *)
Fairness == WF_vars(CheckStep) /\ WF_vars(ThresholdStep)

FairSpec == Spec /\ Fairness

-----------------------------------------------------------------------------
TypeOK ==
    /\ condition \in Conditions /\ ipUp \in BOOLEAN
    /\ load \in Loads /\ shut \in BOOLEAN
    /\ status \in Statuses
    /\ rows \in Seq(Rows)
    /\ cpc \in CheckPlaces /\ view \in Views /\ batch \subseteq Ids
    /\ cpc \in {"tell", "mark"} => batch # {}
    /\ tpc \in ThresholdPlaces /\ heat \in Loads
    /\ recovering \in [{"check", "threshold"} -> 0 .. Len(rows)]
    /\ crashes \in Nat /\ events \in 0 .. MaxEvents

(* Rule 2 where it holds: a recovery is sent once, of a closed row, and     *)
(* after an alert, if the rule is not muted and no channel failed.         *)
RecoveredOnce ==
    \A i \in Ids :
        /\ rows[i].recoveries <= 1
        /\ rows[i].recoveries = 1 => ~rows[i].open /\ rows[i].told # "never"

(* Rule 3: a row that was acknowledged when no dispatch had taken it is     *)
(* never alerted again.                                                    *)
Silenced(i) == i \in Ids /\ rows[i].acked /\ i \notin batch

AckSilences ==
    [][\A i \in Ids : Silenced(i) =>
          Silenced(i)' /\ rows'[i].alerts = rows[i].alerts]_vars

(* A server that is down is not also reported for its silent agent: when    *)
(* alerts are dispatched at most one of the two rows is open (checks.mjs,   *)
(* without a restart in the middle of a check).                            *)
NoiseSuppressed ==
    crashes = 0 /\ cpc \in {"ip", "dispatch"} =>
        OpenOf("down") = {} \/ OpenOf("agent_lost") = {}

(* An open row does not wait forever for its first alert: it is told, or    *)
(* muted, or resolved, or acknowledged; rows that fall due again and others *)
(* before it in the batch do not keep it waiting.                          *)
Untold(k) ==
    \E i \in OpenOf(k) : ~rows[i].acked /\ rows[i].told = "never"

OpenIsTold == \A k \in Kinds : Untold(k) ~> ~Untold(k)

(* Everything open is heard of, until somebody has said that it was heard.  *)
HeardUntilAcked == OpenIsTold /\ AckSilences

(* Rule 1: of one outage there is one open row, and the admin does not hear *)
(* of it in every cycle: a row is alerted once, and once more for each time *)
(* its repetition fell due or the worker died between message and mark.     *)
AlertsBounded ==
    /\ \A k \in Kinds : Cardinality(OpenOf(k)) <= 1
    /\ \A i \in Ids : rows[i].alerts <= 1 + events

(* What the admin hears of an outage: one alert, without the noise it       *)
(* causes, and one recovery after it.                                      *)
AlertsRight == TypeOK /\ AlertsBounded /\ NoiseSuppressed /\ RecoveredOnce
=============================================================================
