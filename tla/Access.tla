------------------------------- MODULE Access -------------------------------
(* Iran access: is an address that the infrastructure has cut off from      *)
(* abroad reachable again?  Probes ping it from outside and inside and      *)
(* report to app/api/probe/route.ts, which counts successes and failures in *)
(* a row, judges, tells the admin, and asks the worker to take a released   *)
(* address off the anchor VPS (worker/vz-sync.mjs), so that it can be sold. *)
(* One address of one node with one anchor.  Each report is a request of    *)
(* its own: it reads, writes the verdict, announces and queues in separate  *)
(* statements, and the reports of two probes interleave.                    *)
EXTENDS Integers, FiniteSets

CONSTANTS
    Outside,        \* probes abroad
    Inside,         \* probes in the country
    Streak,         \* STREAK: results in a row that a verdict takes
    MaxEvents       \* bound on restarts, failures, silences and admin actions

ASSUME ProbesAssumption ==
    /\ IsFiniteSet(Outside) /\ IsFiniteSet(Inside)
    /\ Outside # {} /\ Outside \cap Inside = {}
ASSUME StreakAssumption == Streak \in Nat /\ Streak >= 2
ASSUME EventsAssumption == MaxEvents \in Nat

VARIABLES
    status,         \* ip_addresses.iran_access_status
    watch,          \* ip_addresses.access_watch
    managed,        \* ip_addresses.managed_by_panel
    state,          \* ip_probe_state, a row for each probe
    report,         \* the report of each probe that is being served
    holder,         \* whose the address is at the hypervisor
    queued,         \* does a real apply wait in vz_sync_queue?
    job,            \* the apply that the worker runs
    discovery,      \* the discovery that the worker runs
    told,           \* ghost: the verdict the admin heard last, and how often
    lost,           \* ghost: what a restart, a failure or a silence has swallowed
    adminOff,       \* ghost: an admin turned the watch off
    events          \* how many of the bounded events have happened

verdictVars == <<status, watch>>
rowVars == <<verdictVars, managed>>
anchorVars == <<holder, queued, job, discovery>>
ghostVars == <<told, lost, adminOff>>
vars == <<rowVars, state, report, anchorVars, ghostVars, events>>

Probes == Outside \cup Inside
Statuses == {"unknown", "blocked", "unreachable", "released"}
Spoken == {"blocked", "released"}       \* the verdicts that announce() speaks of

(* Streaks above STREAK are alike, and of an inside probe only matters      *)
(* whether it answered last.  run > 0 is ok_streak, run < 0 is -fail_streak, *)
(* run = 0 a result that proves nothing; fresh tells whether it lies within  *)
(* FRESH_WINDOW.                                                             *)
Most(p) == IF p \in Outside THEN Streak ELSE 1
Least(p) == IF p \in Outside THEN -Streak ELSE 0
Row(run, fresh) == [run |-> run, fresh |-> fresh]

(* What the probe reports: an answer, none, or an answer of the loopback.   *)
Results == {"ok", "failed", "local"}

Holders == {"free", "anchor", "customer"}
Binds == {"none", "bound", "routed"}

Places == {"idle", "evaluate", "write", "announce", "queue"}
Idle == [at |-> "idle", to |-> "unknown", passed |-> FALSE]
None == "none"

Init ==
    /\ status = "blocked" /\ watch = TRUE
    /\ managed = FALSE
    /\ state = [p \in Probes |-> Row(0, FALSE)]
    /\ report = [p \in Probes |-> Idle]
    /\ holder = "free" /\ queued = FALSE
    /\ job = "idle" /\ discovery = None
    /\ told = [verdict |-> "blocked", times |-> 0]
    /\ lost = {} /\ adminOff = FALSE
    /\ events = 0

Event == events < MaxEvents /\ events' = events + 1
-----------------------------------------------------------------------------
(* The reports *)

Capped(p, n) ==
    CASE n > Most(p) -> Most(p) [] n < Least(p) -> Least(p) [] OTHER -> n

(* The upsert of a result.  A local answer ends both runs.                  *)
Run(p, result) ==
    CASE result = "ok" -> IF state[p].run > 0 THEN state[p].run + 1 ELSE 1
      [] result = "failed" -> IF state[p].run < 0 THEN state[p].run - 1 ELSE -1
      [] result = "local" -> 0

Counted(p, result) ==
    Row(Capped(p, Run(p, result)), TRUE)

Busy(p) == report[p].at # "idle"
Quiet == \A p \in Probes : ~Busy(p)

(* The streak of a probe that comes back goes on where it was: nothing in    *)
(* the upsert looks at checked_at.                                           *)
Continues(p, result) == p \in Outside /\ result = "ok" /\ ~state[p].fresh /\ state[p].run > 0

(* A probe reports every ten minutes and waits for the answer: while one    *)
(* report is served, another probe reports once at most.                    *)
Report(p, result) ==
    /\ watch
    /\ ~Busy(p)
    /\ \A q \in Probes : ~report[q].passed
    /\ state' = [state EXCEPT ![p] = Counted(p, result)]
    /\ report' = [q \in Probes |->
                    IF q = p THEN [Idle EXCEPT !.at = "evaluate"]
                    ELSE [report[q] EXCEPT !.passed = Busy(q)]]
    /\ lost' = IF Continues(p, result) THEN lost \cup {"silence"} ELSE lost
    /\ UNCHANGED <<rowVars, anchorVars, told, adminOff, events>>

(* The verdict looks at the fresh rows of the active probes.                *)
Fresh(set) == {p \in set : state[p].fresh}

ReleasedNow == \E p \in Fresh(Outside) : state[p].run >= Streak
AllOutsideDown == \A p \in Fresh(Outside) : state[p].run <= -Streak
AliveInside == \E p \in Fresh(Inside) : state[p].run > 0

(* bind is what bind_ok and bind_routed say: whatever the agent of the      *)
(* anchor reported last.                                                    *)
AccessOrRoute(bind) ==
    CASE AliveInside \/ bind = "routed" -> "blocked"
      [] ~AliveInside /\ bind = "bound" -> "unreachable"
      [] ~AliveInside /\ bind = "none" -> "unknown"

Target(bind) ==
    CASE Fresh(Outside) # {} /\ ReleasedNow -> "released"
      [] Fresh(Outside) # {} /\ ~ReleasedNow /\ AllOutsideDown -> AccessOrRoute(bind)
      [] OTHER -> status

(* A verdict equal to the status ends the report.                           *)
Judged(p, bind) ==
    IF Target(bind) = status THEN Idle
    ELSE [report[p] EXCEPT !.at = "write", !.to = Target(bind)]

(* evaluate() reads the address and then the probes' rows; what may change   *)
(* between the two is only a row, and this step reads it before or after.    *)
Evaluate(p) ==
    /\ report[p].at = "evaluate"
    /\ \E bind \in Binds : report' = [report EXCEPT ![p] = Judged(p, bind)]
    /\ UNCHANGED <<rowVars, state, anchorVars, ghostVars, events>>

(* Mutant: a verdict that is announced ends the watch. *)
WatchUntilSpoken(to) == watch /\ to \notin Spoken

WatchAfter(to) == watch /\ to # "released"

(* The UPDATE names the address only: whatever status it has by now.        *)
WriteVerdict(p) ==
    LET to == report[p].to IN
    /\ report[p].at = "write"
    /\ status' = to
    /\ watch' = WatchAfter(to)
    /\ report' = [report EXCEPT ![p] = IF to \in Spoken
                                       THEN [report[p] EXCEPT !.at = "announce"]
                                       ELSE Idle]
    /\ told' = IF to = status THEN told ELSE [told EXCEPT !.times = 0]
    /\ UNCHANGED <<managed, state, anchorVars, lost, adminOff, events>>

(* Mutant: nobody is told of an address that is cut off again. *)
HeardReleases(to) ==
    IF to = "released" THEN [verdict |-> to, times |-> told.times + 1] ELSE told

Heard(to) == [verdict |-> to, times |-> told.times + 1]

Announce(p) ==
    LET to == report[p].to IN
    /\ report[p].at = "announce"
    /\ told' = Heard(to)
    /\ report' = [report EXCEPT ![p] = IF to = "released"
                                       THEN [report[p] EXCEPT !.at = "queue"]
                                       ELSE Idle]
    /\ UNCHANGED <<rowVars, state, anchorVars, lost, adminOff, events>>

(* Mutant: a job that the worker has taken counts as waiting. *)
WaitingOrTaken == queued \/ job # "idle"

(* Unless one waits already.  A job that the worker has taken is not waiting: *)
(* it may have read the address before the release.                          *)
Waiting == queued

QueueRelease(p) ==
    /\ report[p].at = "queue"
    /\ queued' = (queued \/ ~Waiting)
    /\ report' = [report EXCEPT ![p] = Idle]
    /\ UNCHANGED <<rowVars, state, holder, job, discovery, ghostVars, events>>
-----------------------------------------------------------------------------
(* The worker: the queue and the discovery are two cycles of one process *)

Plan ==
    CASE status = "released" /\ holder = "anchor" /\ managed -> "detach"
      [] status # "released" /\ holder = "free" /\ watch -> "attach"
      [] OTHER -> "idle"

(* drainQueue marks the job as taken, and applyNode lists the addresses and *)
(* reads their rows.  A listing that fails ends the job without a retry.     *)
TakeJob ==
    /\ job = "idle" /\ queued
    /\ queued' = FALSE
    /\ \/ job' = Plan /\ UNCHANGED <<lost, events>>
       \/ job' = "idle" /\ lost' = lost \cup {"job"} /\ Event
    /\ UNCHANGED <<rowVars, state, report, holder, discovery, told, adminOff>>

(* writeVpsIps replaces the list of the anchor.  The hypervisor refuses an   *)
(* address that is a customer's by now.                                      *)
WriteAnchor ==
    /\ job \in {"attach", "detach"}
    /\ \/ /\ job = "attach" /\ holder # "customer"
          /\ holder' = "anchor" /\ job' = "attached"
          /\ UNCHANGED <<lost, events>>
       \/ /\ job = "detach"
          /\ holder' = IF holder = "anchor" THEN "free" ELSE holder
          /\ job' = "detached"
          /\ UNCHANGED <<lost, events>>
       \/ /\ job = "attach" /\ holder = "customer"
          /\ job' = "idle"
          /\ UNCHANGED <<holder, lost, events>>
       \/ /\ Event
          /\ job' = "idle" /\ lost' = lost \cup {"job"}
          /\ UNCHANGED holder
    /\ UNCHANGED <<rowVars, state, report, queued, discovery, told, adminOff>>

RecordApply ==
    /\ job \in {"attached", "detached"}
    /\ managed' = (job = "attached")
    /\ job' = "idle"
    /\ UNCHANGED <<verdictVars, state, report, holder, queued, discovery, ghostVars, events>>

(* discoverNode lists the addresses, and updates their rows later: what is   *)
(* on the anchor is adopted, what a customer has is no longer watched.  Its  *)
(* statements follow each other at once and are one step here.               *)
ListOwners ==
    /\ discovery = None
    /\ discovery' = holder
    /\ UNCHANGED <<rowVars, state, report, holder, queued, job, ghostVars, events>>

Adopted(owner) == owner = "anchor"
Unwatched(owner) == owner = "customer"

WriteOwners ==
    /\ discovery # None
    /\ managed' = (managed \/ Adopted(discovery))
    /\ watch' = (watch /\ ~Unwatched(discovery))
    /\ adminOff' = (adminOff \/ (watch /\ Unwatched(discovery)))
    /\ discovery' = None
    /\ UNCHANGED <<status, state, report, holder, queued, job, told, lost, events>>
-----------------------------------------------------------------------------
(* Admins, the hypervisor, restarts *)

(* "Apply" in the panel, refused while a job waits.                          *)
RequestApply ==
    /\ ~Waiting
    /\ queued' = TRUE
    /\ Event
    /\ UNCHANGED <<rowVars, state, report, holder, job, discovery, ghostVars>>

(* The form of the address turns the watch on or off.                        *)
SetWatch ==
    /\ Event
    /\ watch' = ~watch
    /\ adminOff' = watch
    /\ status' = IF ~watch /\ status = "unknown" THEN "blocked" ELSE status
    /\ told' = IF status' = status THEN told ELSE [verdict |-> "blocked", times |-> 0]
    /\ UNCHANGED <<managed, state, report, anchorVars, lost>>

(* At the hypervisor an address is given to a customer, or comes back.       *)
GiveOut ==
    /\ Event
    /\ holder' = IF holder = "customer" THEN "free" ELSE "customer"
    /\ UNCHANGED <<rowVars, state, report, queued, job, discovery, ghostVars>>

(* Two hours without a report of a probe.                                    *)
Silence(p) ==
    /\ Event
    /\ ~Busy(p) /\ state[p].fresh
    /\ state' = [state EXCEPT ![p] = Row(@.run, FALSE)]
    /\ lost' = IF Quiet THEN lost ELSE lost \cup {"silence"}
    /\ UNCHANGED <<rowVars, report, anchorVars, told, adminOff>>

(* The web process restarts: reports end where they are.                     *)
CrashWeb ==
    /\ Event
    /\ \E p \in Probes : Busy(p)
    /\ report' = [p \in Probes |-> Idle]
    /\ lost' = lost
            \cup (IF \E p \in Probes : report[p].at = "announce" THEN {"message"} ELSE {})
            \cup (IF \E p \in Probes : report[p].at \in {"announce", "queue"}
                                       /\ report[p].to = "released" THEN {"job"} ELSE {})
    /\ UNCHANGED <<rowVars, state, anchorVars, told, adminOff>>

(* The worker restarts: a job that was taken is never taken again.           *)
CrashWorker ==
    /\ Event
    /\ job # "idle" \/ discovery # None
    /\ job' = "idle" /\ discovery' = None
    /\ lost' = IF job # "idle" THEN lost \cup {"job"} ELSE lost
    /\ UNCHANGED <<rowVars, state, report, holder, queued, told, adminOff>>
-----------------------------------------------------------------------------
Serve(p) ==
    Evaluate(p) \/ WriteVerdict(p) \/ Announce(p) \/ QueueRelease(p)
Drain == TakeJob \/ WriteAnchor \/ RecordApply
Discovery == ListOwners \/ WriteOwners

Next ==
    \/ \E p \in Probes : Serve(p) \/ Silence(p) \/ \E r \in Results : Report(p, r)
    \/ Drain \/ Discovery
    \/ RequestApply \/ SetWatch \/ GiveOut
    \/ CrashWeb \/ CrashWorker

Spec == Init /\ [][Next]_vars

(* A report runs to its end; probes loop as long as they are switched on;    *)
(* schedule() in worker/index.mjs runs drainQueue and discoverAll again      *)
(* after each run.                                                           *)
FairSpec ==
    /\ Spec
    /\ \A p \in Probes : WF_vars(Serve(p)) /\ WF_vars(\E r \in Results : Report(p, r))
    /\ WF_vars(Drain) /\ WF_vars(Discovery)
-----------------------------------------------------------------------------
(* Every variable has its type.                                              *)
TypeOK ==
    /\ status \in Statuses /\ watch \in BOOLEAN
    /\ managed \in BOOLEAN
    /\ state \in [Probes -> [run : -Streak..Streak, fresh : BOOLEAN]]
    /\ \A p \in Probes : state[p].run \in Least(p)..Most(p)
    /\ report \in [Probes -> [at : Places, to : Statuses, passed : BOOLEAN]]
    /\ holder \in Holders /\ queued \in BOOLEAN
    /\ discovery \in Holders \cup {None}
    /\ job \in {"idle", "attach", "detach", "attached", "detached"}
    /\ told \in [verdict : Spoken, times : Nat]
    /\ lost \subseteq {"message", "job", "silence"} /\ adminOff \in BOOLEAN
    /\ events \in 0..MaxEvents

(* What the admin heard last is what the panel shows, whichever reports      *)
(* overlapped: a verdict of the route is not contradicted by a later message *)
(* about an earlier one, unless a restart swallowed the message, or a probe  *)
(* came back from a silence with its old streak, or fell silent meanwhile.   *)
ToldWhatStands ==
    Quiet /\ lost \cap {"message", "silence"} = {} /\ status \in Spoken =>
        told.verdict = status

(* A verdict is announced again only by reports that overlapped the one that *)
(* found it, never by every report that finds it still true.                 *)
AnnouncedBounded == told.times <= Cardinality(Probes)

(* The admin knows what stands and is not told of it over and over.         *)
ToldOnceWhatStands == TypeOK /\ ToldWhatStands /\ AnnouncedBounded

(* An address that the panel takes for cut off is still looked at, unless an *)
(* admin turned that off: no report writes its verdict over a release, which *)
(* would leave the address neither released nor watched for ever.  (Two      *)
(* reports can do just that when a streak of before a silence goes on.)      *)
LostSight == status # "released" => watch \/ adminOff \/ "silence" \in lost

(* A released address leaves the anchor, so that it can be used, also when   *)
(* the release comes in the middle of an apply that read it as blocked;      *)
(* unless the job for it is lost.                                            *)
ReleasedIsFreed ==
    (status = "released" /\ holder = "anchor") ~>
        (status # "released" \/ holder # "anchor" \/ "job" \in lost)

(* What is on the anchor becomes the panel's to take off, also after a       *)
(* restart between the hypervisor's answer and the panel's note of it.       *)
AnchorIsManaged == holder = "anchor" ~> (managed \/ holder # "anchor")

(* An address that answered a probe abroad often enough is released while it *)
(* goes on answering, also if a restart swallowed the verdict.               *)
AnsweringIsReleased ==
    \A p \in Outside : (watch /\ state[p].run >= Streak) ~>
        (status = "released" \/ ~watch \/ state[p].run < Streak)

(* The panel and the anchor come to agree on who holds an address, and the  *)
(* panel on what the probes say of it.                                      *)
AnchorFollows == AnsweringIsReleased /\ ReleasedIsFreed /\ AnchorIsManaged

=============================================================================
