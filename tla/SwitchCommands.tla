--------------------------- MODULE SwitchCommands ---------------------------
(***************************************************************************)
(* The commands of the panel to a port of a switch: an admin asks for a    *)
(* shutdown, its opposite or a rate limit (api/switch-actions), the worker *)
(* takes the requests from the table and carries them out                  *)
(* (drainSwitchActions in worker/switches.mjs) while the periodic reading  *)
(* goes on beside it, and the page of the port asks for the answer.        *)
(*                                                                         *)
(* One port is followed.  Over SNMP a port is addressed by its number, and *)
(* a restart of the switch may give the number to another port.            *)
(***************************************************************************)
EXTENDS Integers

CONSTANTS
    Protocols,   \* subset of {"nxapi", "snmp"}
    MaxActions,  \* bound on the requests
    MaxEvents    \* bound on what the admins, the device and crashes do

CommandsAssumption ==
    Protocols \subseteq {"nxapi", "snmp"} /\ MaxActions \in Nat /\ MaxEvents \in Nat

VARIABLES
    dev,     \* the switch: protocol, port shut, its limits, numbering; whether another port was shut
    port,    \* the row of switch_ports: shut, limits, is_protected, if_index
    active,  \* is_active of the switch
    queue,   \* the rows of switch_actions
    work,    \* the request the worker is carrying out
    poll,    \* the periodic reading
    dlg,     \* the page of the port, which shows the row as it was loaded, and its dialog
    events

vars == <<dev, port, active, queue, work, poll, dlg, events>>

Kinds == {"shutdown", "no_shutdown", "rate_limit"}
Ids == 1..MaxActions
Limits == [in : BOOLEAN, out : BOOLEAN]
NoLimit == [in |-> FALSE, out |-> FALSE]

NoWork == [pc |-> "idle", id |-> 0, prot |-> FALSE, index |-> 0, named |-> 0, again |-> FALSE]
NoPoll == [pc |-> "idle", shut |-> FALSE, index |-> 0]
NoRequest == [status |-> "none", kind |-> "shutdown", limit |-> FALSE]
NoDialog == [pc |-> "none", kind |-> "shutdown", id |-> 0, shut |-> FALSE, prot |-> FALSE]

TypeOK ==
    /\ dev \in [proto : Protocols, shut : BOOLEAN, other : BOOLEAN, limit : Limits, index : 0..MaxEvents]
    /\ port \in [shut : BOOLEAN, limit : Limits, prot : BOOLEAN, index : 0..MaxEvents]
    /\ active \in BOOLEAN
    /\ queue \in [Ids -> [status : {"none", "pending", "running", "done", "failed"}, kind : Kinds, limit : BOOLEAN]]
    /\ work.pc \in {"idle", "check", "name", "send", "limit", "limit on", "read"} /\ work.id \in 0..MaxActions
    /\ poll.pc \in {"idle", "store"}
    /\ dlg.pc \in {"none", "form", "refused", "running", "done", "gaveup"}
    /\ dlg.kind \in Kinds /\ dlg.id \in 0..MaxActions

Init ==
    /\ \E proto \in Protocols :
          dev = [proto |-> proto, shut |-> FALSE, other |-> FALSE, limit |-> NoLimit, index |-> 0]
    /\ port = [shut |-> FALSE, limit |-> NoLimit, prot |-> FALSE, index |-> 0]
    /\ active = TRUE
    /\ queue = [a \in Ids |-> NoRequest]
    /\ work = NoWork /\ poll = NoPoll /\ dlg = NoDialog /\ events = 0

Event == events < MaxEvents /\ events' = events + 1

-----------------------------------------------------------------------------
(* The panel.                                                              *)

Open(a) == queue[a].status \in {"pending", "running"}
Free == {a \in Ids : queue[a].status = "none"}

\* ControlTab: a port that is shut can be opened, one that is not can be shut; one
\* that is protected can only be opened.
Offered(kind) ==
    /\ (kind = "no_shutdown") => dlg.shut
    /\ (kind = "shutdown") => ~dlg.shut
    /\ (kind # "no_shutdown") => ~dlg.prot

\* The page loads the row again every ten seconds and after each command, and
\* the dialog is over what it shows; it is the answer of a moment ago.
Load ==
    /\ dlg' = [dlg EXCEPT !.shut = port.shut, !.prot = port.prot]
    /\ UNCHANGED <<dev, port, active, queue, work, poll, events>>

\* A dialog is opened, the last one having been closed: not while a command runs.
\* The name of the port has to be typed where a server would lose its link.
OpenDialog ==
    /\ dlg.pc # "running"
    /\ \E kind \in Kinds :
          Offered(kind) /\ dlg' = [dlg EXCEPT !.pc = "form", !.kind = kind, !.id = 0]
    /\ UNCHANGED <<dev, port, active, queue, work, poll, events>>

\* Refused at once: a protected port is neither shut nor limited.
Refused(kind, prot) == kind # "no_shutdown" /\ prot

\* POST /api/switch-actions from the dialog: the checks on the rows, then the
\* insert, which a port with an open request refuses (idx_switch_actions_open).
\* A limit is a speed, or 0 to take it off.
Ask ==
    /\ dlg.pc = "form" /\ Free # {}
    /\ IF ~active \/ Refused(dlg.kind, port.prot) \/ \E a \in Ids : Open(a)
       THEN dlg' = [dlg EXCEPT !.pc = "refused"] /\ UNCHANGED queue
       ELSE LET a == CHOOSE b \in Free : \A c \in Free : b <= c
            IN  /\ \E limit \in (IF dlg.kind = "rate_limit" THEN BOOLEAN ELSE {FALSE}) :
                      queue' = [queue EXCEPT ![a] = [status |-> "pending", kind |-> dlg.kind, limit |-> limit]]
                /\ dlg' = [dlg EXCEPT !.pc = "running", !.id = a]
    /\ UNCHANGED <<dev, port, active, work, poll, events>>

\* runSwitchAction: the page asks every 1.5 seconds until the request has
\* ended, and gives up after a minute or when it gets no answer.
Follow ==
    /\ dlg.pc = "running"
    /\ \/ ~Open(dlg.id) /\ dlg' = [dlg EXCEPT !.pc = "done"]
       \/ Open(dlg.id) /\ dlg' = [dlg EXCEPT !.pc = "gaveup"]
    /\ UNCHANGED <<dev, port, active, queue, work, poll, events>>

\* An admin protects the port or not (PATCH /api/switch-ports).
SetProtected ==
    /\ Event
    /\ port' = [port EXCEPT !.prot = ~@]
    /\ UNCHANGED <<dev, active, queue, work, poll, dlg>>

\* Somebody else shuts or opens the port, or the switch restarts and numbers
\* its ports anew; the switch is taken out of service in the panel or back.
DeviceEvent ==
    /\ Event
    /\ \/ dev' = [dev EXCEPT !.shut = ~@] /\ UNCHANGED active
       \/ dev' = [dev EXCEPT !.index = events'] /\ UNCHANGED active
       \/ active' = ~active /\ UNCHANGED dev
    /\ UNCHANGED <<port, queue, work, poll, dlg>>

-----------------------------------------------------------------------------
(* The worker.                                                             *)

Abandoned(a) == queue[a].status = "running"

\* A request left running by a worker that died is called failed when it is
\* five minutes old.
Expire ==
    /\ work.pc = "idle"
    /\ \E a \in Ids :
          /\ Abandoned(a)
          /\ queue' = [queue EXCEPT ![a].status = "failed"]
    /\ UNCHANGED <<dev, port, active, work, poll, dlg, events>>

Claim ==
    /\ work.pc = "idle"
    /\ \E a \in Ids :
          /\ queue[a].status = "pending"
          /\ queue' = [queue EXCEPT ![a].status = "running"]
          /\ work' = [NoWork EXCEPT !.pc = "check", !.id = a]
    /\ UNCHANGED <<dev, port, active, poll, dlg, events>>

Kind == queue[work.id].kind

\* The request ends and the worker goes on to the next.
Finish(status) ==
    /\ queue' = [queue EXCEPT ![work.id].status = status]
    /\ work' = NoWork

\* Mutant: the worker relies on the check of the request.
RefusedNever(kind, prot) == FALSE

\* What was refused at the request is refused again, as it may have changed.
RefusedNow(kind, prot) == Refused(kind, prot)

\* runAction reads the rows of the switch and the port and checks them again;
\* over SNMP a shutdown goes to a number, a limit goes by name.
Check ==
    /\ work.pc = "check"
    /\ IF ~active \/ RefusedNow(Kind, port.prot) THEN Finish("failed")
       ELSE /\ work' = [work EXCEPT !.prot = port.prot, !.index = port.index,
                                    !.pc = IF Kind = "rate_limit" THEN "limit"
                                           ELSE IF dev.proto = "snmp" THEN "name" ELSE "send"]
            /\ UNCHANGED queue
    /\ UNCHANGED <<dev, port, active, poll, dlg, events>>

\* Mutant: the number is trusted.
AnyName == TRUE

\* assertIfName: the number still belongs to the port.
IfName == work.index = dev.index

NameCheck ==
    /\ work.pc = "name"
    /\ \/ Finish("failed")      \* no answer, or another name
       \/ /\ IfName
          /\ work' = [work EXCEPT !.pc = "send", !.named = dev.index]
          /\ UNCHANGED queue
    /\ UNCHANGED <<dev, port, active, poll, dlg, events>>

\* setAdmin: the switch refuses, or does it and its answer comes or is lost.
\* Over SNMP the command reaches the port that has the number by now.
Send ==
    /\ work.pc = "send"
    /\ \/ Finish("failed") /\ UNCHANGED dev
       \/ /\ dev' = IF dev.proto = "nxapi" \/ work.index = dev.index
                    THEN [dev EXCEPT !.shut = (Kind = "shutdown")]
                    ELSE [dev EXCEPT !.other = (Kind = "shutdown")]
          /\ \/ Finish("failed")
             \/ work' = [work EXCEPT !.pc = "read"] /\ UNCHANGED queue
    /\ UNCHANGED <<port, active, poll, dlg, events>>

Wanted == queue[work.id].limit

\* setRateLimit over NX-API, a command at a time: the policy of the panel is
\* taken off, then put on the input and, where the switch takes it there, on
\* the output.  A policy of somebody else is left alone, and each command may
\* fail.
LimitOff ==
    /\ work.pc = "limit" /\ dev.proto = "nxapi"
    /\ \/ Finish("failed") /\ UNCHANGED dev
       \/ /\ dev' = [dev EXCEPT !.limit = NoLimit]
          /\ work' = [work EXCEPT !.pc = IF Wanted THEN "limit on" ELSE "read"]
          /\ UNCHANGED queue
    /\ UNCHANGED <<port, active, poll, dlg, events>>

LimitOn ==
    /\ work.pc = "limit on"
    /\ \/ Finish("failed") /\ UNCHANGED dev
       \/ /\ \E out \in BOOLEAN : dev' = [dev EXCEPT !.limit = [in |-> TRUE, out |-> out]]
          /\ work' = [work EXCEPT !.pc = "read"]
          /\ UNCHANGED queue
    /\ UNCHANGED <<port, active, poll, dlg, events>>

\* setRateLimit over SNMP: the running configuration is fetched, the change
\* pushed as one file, of which the switch may take a part.
LimitPushed ==
    /\ work.pc = "limit" /\ dev.proto = "snmp"
    /\ \/ Finish("failed") /\ UNCHANGED dev
       \/ /\ \E in, out \in BOOLEAN :
                /\ ~Wanted => ~in /\ ~out
                /\ dev' = [dev EXCEPT !.limit = [in |-> in, out |-> out]]
          /\ work' = [work EXCEPT !.pc = "read"]
          /\ UNCHANGED queue
    /\ UNCHANGED <<port, active, poll, dlg, events>>

\* Mutant: the limit is noted as it was asked for.
LimitAsked == [in |-> Wanted, out |-> Wanted]

\* The limit as the switch has it: read back, or known from what it accepted.
LimitSeen == dev.limit

\* The limit is read back and noted; over SNMP the request fails without it,
\* and the row keeps the old one.
ReadLimit ==
    /\ work.pc = "read" /\ Kind = "rate_limit"
    /\ \/ dev.proto = "snmp" /\ Finish("failed") /\ UNCHANGED port
       \/ /\ port' = [port EXCEPT !.limit = LimitSeen]
          /\ Finish(IF LimitSeen.in = Wanted /\ (Wanted \/ ~LimitSeen.out) THEN "done" ELSE "failed")
    /\ UNCHANGED <<dev, active, poll, dlg, events>>

\* readPort, tried again when the port is not yet as wanted, and the row
\* written from what was read.  Without an answer the row waits for the next
\* reading and the request counts as done.
ReadPort ==
    /\ work.pc = "read" /\ Kind # "rate_limit"
    /\ \/ Finish("done") /\ UNCHANGED port
       \/ /\ ~work.again /\ dev.shut # (Kind = "shutdown")
          /\ work' = [work EXCEPT !.again = TRUE]
          /\ UNCHANGED <<queue, port>>
       \/ /\ port' = [port EXCEPT !.shut = dev.shut]
          /\ Finish(IF dev.shut = (Kind = "shutdown") THEN "done" ELSE "failed")
    /\ UNCHANGED <<dev, active, poll, dlg, events>>

\* The worker restarts: the request stays running, the reading is lost.
Crash ==
    /\ Event
    /\ work.pc # "idle"
    /\ work' = NoWork /\ poll' = NoPoll
    /\ UNCHANGED <<dev, port, active, queue, dlg>>

-----------------------------------------------------------------------------
(* The periodic reading beside it.                                         *)

PollRead ==
    /\ poll.pc = "idle" /\ active
    /\ poll' = [pc |-> "store", shut |-> dev.shut, index |-> dev.index]
    /\ UNCHANGED <<dev, port, active, queue, work, dlg, events>>

\* Mutant: the state of the port is left to the commands.
Polled == [port EXCEPT !.index = poll.index]

\* The state and the number of the port as they were read.
Stored == [port EXCEPT !.shut = poll.shut, !.index = poll.index]

PollStore ==
    /\ poll.pc = "store"
    /\ port' = Stored
    /\ poll' = NoPoll
    /\ UNCHANGED <<dev, active, queue, work, dlg, events>>

-----------------------------------------------------------------------------

Worker == Expire \/ Claim \/ Check \/ NameCheck \/ Send \/ LimitOff \/ LimitOn \/ LimitPushed \/ ReadLimit \/ ReadPort
Reading == PollRead \/ PollStore

Next == Load \/ OpenDialog \/ Ask \/ Follow \/ SetProtected \/ DeviceEvent \/ Worker \/ Crash \/ Reading

\* The schedules of the worker (worker/index.mjs) go on; the page's timer too.
Spec == Init /\ [][Next]_vars /\ WF_vars(Worker) /\ WF_vars(Reading) /\ WF_vars(Follow)

-----------------------------------------------------------------------------
(* What must hold.                                                         *)

\* The worker sends a shutdown or its opposite in this step.
Commanding == work.pc = "send" /\ work.pc' # "send"

\* The panel shuts a port only if an admin asked for that very port and nobody
\* had protected it when the worker looked; another port is shut only if the
\* switch numbered its ports anew after the worker had asked for the name.
OnlyTheAsked ==
    [][/\ Commanding /\ ~dev.shut /\ dev'.shut => ~work.prot
       /\ Commanding /\ ~dev.other /\ dev'.other => work.named # dev.index]_vars

Latest == {a \in Ids : queue[a].kind = "rate_limit" /\ queue[a].status \in {"running", "done", "failed"}}

\* The limit the panel shows is the one on the switch, in each direction, once
\* the last request for one has ended well: no reading looks at it again.
LimitShown ==
    /\ TypeOK
    /\ \A a \in Latest : (queue[a].status = "done" /\ \A b \in Latest : b <= a) => port.limit = dev.limit

\* Every request is answered in the end, also when the worker died under it, the
\* dialog does not wait for ever, and in whatever order the answers of the
\* commands and of the readings are stored, the row shows whether the port is
\* shut, and the limit that is on it.
RequestsSettle ==
    <>[](/\ \A a \in Ids : ~Open(a)
         /\ dlg.pc # "running"
         /\ active => port.shut = dev.shut
         /\ LimitShown)
=============================================================================
