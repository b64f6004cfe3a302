---------------------------- MODULE AccessProofs ----------------------------
(***************************************************************************)
(* Safety of Access for any probes and any streak of two or more: the      *)
(* admin is told what stands, no more often than reports overlap, and no   *)
(* report writes its verdict over a release.                               *)
(***************************************************************************)
EXTENDS Access, FiniteSetTheorems, TLAPS

(* Of two reports that are served at once the older one was passed: there   *)
(* are never three, and never two that saw each other's results pass.       *)
OnePassed ==
    \A p, q \in Probes : Busy(p) /\ Busy(q) /\ p # q => report[p].passed # report[q].passed

(* A report with a verdict to write or to speak of.                         *)
Denies(p) == report[p].at \in {"write", "announce"} /\ report[p].to # "released"

(* A report with a release to write, to speak of or to queue.               *)
Releases(p) == report[p].at \in {"write", "announce", "queue"} /\ report[p].to = "released"

(* Only the two verdicts are spoken of, and only a release is queued.       *)
SpokenOnly ==
    \A p \in Probes :
        /\ report[p].at = "announce" => report[p].to \in Spoken
        /\ report[p].at = "queue" => report[p].to = "released"

(* No answer has been lost to a silence longer than the freshness window.   *)
Unbroken == "silence" \notin lost

(* What the rows must look like while such a report is served: of the rows   *)
(* that it read, at most one has had another result since.                  *)
DenialStands ==
    \A p \in Probes : Denies(p) =>
        \A o \in Fresh(Outside) : state[o].run <= IF report[p].passed THEN 1 ELSE -Streak

(* And of a report that releases: one of its rows still holds the streak.    *)
ReleaseStands ==
    \A p \in Probes : Releases(p) =>
        \E o \in Fresh(Outside) : state[o].run >= IF report[p].passed THEN -1 ELSE Streak

(* A release that stands unwatched can only be judged the same again.       *)
ReleaseSeen ==
    status = "released" /\ ~watch /\ ~adminOff =>
        /\ \A p \in Probes : ~Denies(p) \/ report[p].at # "write"
        /\ (\E p \in Probes : report[p].at = "evaluate") =>
              \E o \in Fresh(Outside) : state[o].run > -Streak

(* A message that is about to be sent says what stands.                     *)
MessageStands ==
    \A p \in Probes :
        /\ report[p].at \in {"announce", "queue"} /\ report[p].to = "released" => status = "released"
        /\ report[p].at = "announce" /\ report[p].to = "blocked" => status # "released"

(* ... and the admin has heard it, or is about to.                          *)
WillHear ==
    lost \cap {"message", "silence"} = {} /\ status \in Spoken =>
        \/ told.verdict = status
        \/ \E p \in Probes : report[p].at = "announce" /\ report[p].to = status

(* The reports that may still announce the verdict that stands.             *)
Speaking ==
    {p \in Probes : \/ report[p].at = "announce"
                    \/ report[p].at = "write" /\ report[p].to = status}

(* The inductive invariant.                                                *)
IInv ==
    /\ TypeOK /\ OnePassed /\ SpokenOnly
    /\ Unbroken => DenialStands /\ ReleaseStands /\ ReleaseSeen /\ MessageStands
    /\ LostSight /\ WillHear
    /\ told.times + Cardinality(Speaking) <= Cardinality(Probes)
-----------------------------------------------------------------------------
(* There are finitely many probes.                                          *)
LEMMA ProbesFinite == IsFiniteSet(Probes)
BY ProbesAssumption, FS_Union DEF ProbesAssumption, Probes

(* At first no report is served.                                            *)
LEMMA InitIInv == Init => IInv
<1> SUFFICES ASSUME Init PROVE IInv
    OBVIOUS
<1> USE DEF Init
<1>1. TypeOK
    <2>1. 0 \in -Streak..Streak /\ \A p \in Probes : 0 \in Least(p)..Most(p)
        BY StreakAssumption DEF StreakAssumption, Least, Most
    <2>2. report \in [Probes -> [at : Places, to : Statuses, passed : BOOLEAN]]
        BY DEF Idle, Places, Statuses
    <2>3. state \in [Probes -> [run : -Streak..Streak, fresh : BOOLEAN]]
        BY <2>1 DEF Row
    <2>4. \A p \in Probes : state[p].run \in Least(p)..Most(p)
        BY <2>1 DEF Row
    <2>5. told \in [verdict : Spoken, times : Nat] /\ events \in 0..MaxEvents
        BY EventsAssumption DEF EventsAssumption, Spoken
    <2>6. watch \in BOOLEAN /\ managed \in BOOLEAN /\ queued \in BOOLEAN /\ adminOff \in BOOLEAN
        OBVIOUS
    <2> QED
        BY <2>2, <2>3, <2>4, <2>5, <2>6 DEF TypeOK, Statuses, Holders, None
<1>2. Speaking = {} /\ Cardinality({}) = 0 /\ Cardinality(Probes) \in Nat
    BY ProbesFinite, FS_EmptySet, FS_CardinalityType DEF Speaking, Idle
<1>3. OnePassed /\ SpokenOnly /\ DenialStands /\ ReleaseStands /\ ReleaseSeen /\ MessageStands
    BY DEF OnePassed, SpokenOnly, DenialStands, ReleaseStands, ReleaseSeen, MessageStands,
           Denies, Releases, Busy, Idle
<1>4. LostSight /\ WillHear
    BY DEF LostSight, WillHear, Spoken
<1> QED BY <1>1, <1>2, <1>3, <1>4 DEF IInv

(* The run of a probe, counted on, stays between its bounds.                *)
LEMMA CountedType ==
    ASSUME TypeOK, NEW p \in Probes, NEW result \in Results
    PROVE  /\ Counted(p, result) \in [run : -Streak..Streak, fresh : BOOLEAN]
           /\ Counted(p, result).run \in Least(p)..Most(p)
           /\ Counted(p, result).fresh
<1> USE StreakAssumption DEF StreakAssumption
<1>0. /\ state[p].run \in Int /\ Least(p) \in Int /\ Most(p) \in Int
      /\ -Streak <= Least(p) /\ Least(p) <= 0 /\ 1 <= Most(p) /\ Most(p) <= Streak
    BY DEF TypeOK, Least, Most
<1>1. Run(p, result) \in Int
    BY <1>0 DEF Run, Results
<1>2. Capped(p, Run(p, result)) \in Least(p)..Most(p)
    BY <1>0, <1>1 DEF Capped
<1> QED BY <1>0, <1>2 DEF Counted, Row

(* The verdict is one of the statuses of ip_addresses.                      *)
LEMMA JudgedType ==
    ASSUME TypeOK, NEW p \in Probes, NEW bind \in Binds
    PROVE  Target(bind) \in Statuses
BY DEF TypeOK, Target, AccessOrRoute, Statuses, Binds

(* A smaller set of probes has no more members.                             *)
LEMMA FewerSpeak ==
    ASSUME NEW S \in SUBSET Probes, NEW T \in SUBSET S
    PROVE  Cardinality(T) \in Nat /\ Cardinality(S) \in Nat /\ Cardinality(T) <= Cardinality(S)
BY ProbesFinite, FS_Subset, FS_CardinalityType

(* A denial and a release are never served at once: each rests on rows that  *)
(* one later result does not turn round.                                    *)
LEMMA Exclusive ==
    ASSUME TypeOK, OnePassed, DenialStands, ReleaseStands,
           NEW p \in Probes, NEW q \in Probes, Denies(p), Releases(q)
    PROVE  FALSE
<1> USE StreakAssumption DEF StreakAssumption
<1>1. p # q /\ Busy(p) /\ Busy(q)
    BY DEF Denies, Releases, Busy
<1>2. \A o \in Fresh(Outside) : state[o].run <= IF report[p].passed THEN 1 ELSE -Streak
    BY DEF DenialStands
<1>3. PICK o \in Fresh(Outside) : state[o].run >= IF report[q].passed THEN -1 ELSE Streak
    BY DEF ReleaseStands
<1>4. state[o].run \in Int
    BY DEF TypeOK, Fresh, Probes
<1>5. report[p].passed # report[q].passed /\ report[p].passed \in BOOLEAN /\ report[q].passed \in BOOLEAN
    BY <1>1 DEF OnePassed, TypeOK
<1>6. CASE report[p].passed /\ ~report[q].passed
    BY <1>2, <1>3, <1>4, <1>6
<1>7. CASE ~report[p].passed /\ report[q].passed
    BY <1>2, <1>3, <1>4, <1>7
<1> QED BY <1>5, <1>6, <1>7
-----------------------------------------------------------------------------
(* The bounded events are counted within their bound.                       *)
LEMMA EventCounted == TypeOK /\ Event => events' \in 0..MaxEvents
BY EventsAssumption DEF TypeOK, Event, EventsAssumption

(* Every step keeps the types.                                              *)
LEMMA TypeStep == TypeOK /\ SpokenOnly /\ [Next]_vars => TypeOK'
<1> SUFFICES ASSUME TypeOK, SpokenOnly, [Next]_vars PROVE TypeOK'
    OBVIOUS
<1> USE DEF TypeOK
<1>1. ASSUME NEW p \in Probes, NEW r \in Results, Report(p, r) PROVE TypeOK'
    <2>1. state' \in [Probes -> [run : -Streak..Streak, fresh : BOOLEAN]]
        BY <1>1, CountedType DEF Report
    <2>2. \A q \in Probes : state'[q].run \in Least(q)..Most(q)
        BY <1>1, CountedType DEF Report
    <2>3. report' \in [Probes -> [at : Places, to : Statuses, passed : BOOLEAN]]
        <3>1. [Idle EXCEPT !.at = "evaluate"] \in [at : Places, to : Statuses, passed : BOOLEAN]
            BY DEF Idle, Places, Statuses
        <3>2. ASSUME NEW q \in Probes
              PROVE  [report[q] EXCEPT !.passed = Busy(q)] \in [at : Places, to : Statuses, passed : BOOLEAN]
            BY DEF Busy
        <3> QED BY <1>1, <3>1, <3>2 DEF Report
    <2>4. lost' \subseteq {"message", "job", "silence"}
        BY <1>1 DEF Report
    <2> QED BY <1>1, <2>1, <2>2, <2>3, <2>4 DEF Report, rowVars, verdictVars, anchorVars
<1>2. ASSUME NEW p \in Probes, Evaluate(p) PROVE TypeOK'
    <2>1. PICK bind \in Binds : report' = [report EXCEPT ![p] = Judged(p, bind)]
        BY <1>2 DEF Evaluate
    <2>2. Judged(p, bind) \in [at : Places, to : Statuses, passed : BOOLEAN]
        <3>1. Idle \in [at : Places, to : Statuses, passed : BOOLEAN] /\ "write" \in Places
            BY DEF Idle, Places, Statuses
        <3>2. Target(bind) \in Statuses /\ report[p] \in [at : Places, to : Statuses, passed : BOOLEAN]
            BY JudgedType
        <3>3. [report[p] EXCEPT !.at = "write", !.to = Target(bind)]
                  \in [at : Places, to : Statuses, passed : BOOLEAN]
            BY <3>1, <3>2
        <3> QED BY <3>1, <3>3 DEF Judged
    <2>3. report' \in [Probes -> [at : Places, to : Statuses, passed : BOOLEAN]]
        BY <2>1, <2>2
    <2> QED BY <1>2, <2>3 DEF Evaluate, rowVars, verdictVars, anchorVars, ghostVars
<1>3. ASSUME NEW p \in Probes, WriteVerdict(p) PROVE TypeOK'
    <2>1. report' \in [Probes -> [at : Places, to : Statuses, passed : BOOLEAN]]
        BY <1>3 DEF WriteVerdict, Idle, Places, Statuses
    <2>2. status' \in Statuses /\ told' \in [verdict : Spoken, times : Nat]
        BY <1>3 DEF WriteVerdict
    <2>3. watch' \in BOOLEAN
        BY <1>3 DEF WriteVerdict, WatchAfter
    <2> QED BY <1>3, <2>1, <2>2, <2>3 DEF WriteVerdict, anchorVars
<1>4. ASSUME NEW p \in Probes, Announce(p) PROVE TypeOK'
    <2>1. report' \in [Probes -> [at : Places, to : Statuses, passed : BOOLEAN]]
        BY <1>4 DEF Announce, Idle, Places, Statuses
    <2>2. told' \in [verdict : Spoken, times : Nat]
        BY <1>4 DEF Announce, Heard, SpokenOnly
    <2> QED BY <1>4, <2>1, <2>2 DEF Announce, rowVars, verdictVars, anchorVars
<1>5. ASSUME NEW p \in Probes, QueueRelease(p) PROVE TypeOK'
    <2>1. report' \in [Probes -> [at : Places, to : Statuses, passed : BOOLEAN]]
        BY <1>5 DEF QueueRelease, Idle, Places, Statuses
    <2>2. queued' \in BOOLEAN
        BY <1>5 DEF QueueRelease, Waiting
    <2> QED BY <1>5, <2>1, <2>2 DEF QueueRelease, rowVars, verdictVars, ghostVars
<1>6. CASE TakeJob
    <2>1. job' \in {"idle", "attach", "detach", "attached", "detached"} /\ queued' \in BOOLEAN
        BY <1>6 DEF TakeJob, Plan
    <2>2. lost' \subseteq {"message", "job", "silence"}
        BY <1>6 DEF TakeJob
    <2>3. events' \in 0..MaxEvents
        BY <1>6, EventCounted DEF TakeJob
    <2> QED BY <1>6, <2>1, <2>2, <2>3 DEF TakeJob, rowVars, verdictVars
<1>7. CASE WriteAnchor
    <2>1. job' \in {"idle", "attach", "detach", "attached", "detached"} /\ holder' \in Holders
        BY <1>7 DEF WriteAnchor, Holders
    <2>2. lost' \subseteq {"message", "job", "silence"}
        BY <1>7 DEF WriteAnchor
    <2>3. events' \in 0..MaxEvents
        BY <1>7, EventCounted DEF WriteAnchor
    <2> QED BY <1>7, <2>1, <2>2, <2>3 DEF WriteAnchor, rowVars, verdictVars
<1>8. CASE RecordApply
    <2>1. managed' \in BOOLEAN
        BY <1>8 DEF RecordApply
    <2> QED BY <1>8, <2>1 DEF RecordApply, verdictVars, ghostVars
<1>9. CASE ListOwners
    BY <1>9 DEF ListOwners, rowVars, verdictVars, ghostVars
<1>10. CASE WriteOwners
    <2>1. managed' \in BOOLEAN /\ watch' \in BOOLEAN /\ adminOff' \in BOOLEAN
        BY <1>10 DEF WriteOwners, Adopted, Unwatched
    <2> QED BY <1>10, <2>1 DEF WriteOwners
<1>11. CASE RequestApply
    BY <1>11, EventsAssumption DEF RequestApply, Event, EventsAssumption, rowVars, verdictVars, ghostVars
<1>12. CASE SetWatch
    <2>1. watch' \in BOOLEAN /\ adminOff' \in BOOLEAN
        BY <1>12 DEF SetWatch
    <2>2. status' \in Statuses /\ told' \in [verdict : Spoken, times : Nat]
        BY <1>12 DEF SetWatch, Statuses, Spoken
    <2>3. events' \in 0..MaxEvents
        BY <1>12, EventsAssumption DEF SetWatch, Event, EventsAssumption
    <2> QED BY <1>12, <2>1, <2>2, <2>3 DEF SetWatch, anchorVars
<1>13. CASE GiveOut
    BY <1>13, EventsAssumption
       DEF GiveOut, Event, EventsAssumption, Holders, rowVars, verdictVars, ghostVars
<1>14. ASSUME NEW p \in Probes, Silence(p) PROVE TypeOK'
    <2>1. state' \in [Probes -> [run : -Streak..Streak, fresh : BOOLEAN]]
        BY <1>14 DEF Silence, Row
    <2>2. \A q \in Probes : state'[q].run \in Least(q)..Most(q)
        BY <1>14 DEF Silence, Row
    <2>3. lost' \subseteq {"message", "job", "silence"}
        BY <1>14 DEF Silence
    <2>4. events' \in 0..MaxEvents
        BY <1>14, EventCounted DEF Silence
    <2> QED BY <1>14, <2>1, <2>2, <2>3, <2>4 DEF Silence, rowVars, verdictVars, anchorVars
<1>15. CASE CrashWeb
    <2>1. report' \in [Probes -> [at : Places, to : Statuses, passed : BOOLEAN]]
        BY <1>15 DEF CrashWeb, Idle, Places, Statuses
    <2>2. lost' \subseteq {"message", "job", "silence"}
        BY <1>15 DEF CrashWeb
    <2>3. events' \in 0..MaxEvents
        BY <1>15, EventCounted DEF CrashWeb
    <2> QED BY <1>15, <2>1, <2>2, <2>3 DEF CrashWeb, rowVars, verdictVars, anchorVars
<1>16. CASE CrashWorker
    <2>1. lost' \subseteq {"message", "job", "silence"}
        BY <1>16 DEF CrashWorker
    <2>2. events' \in 0..MaxEvents
        BY <1>16, EventCounted DEF CrashWorker
    <2> QED BY <1>16, <2>1, <2>2 DEF CrashWorker, rowVars, verdictVars
<1>17. CASE UNCHANGED vars
    BY <1>17 DEF vars, rowVars, verdictVars, anchorVars, ghostVars
<1> QED
    BY <1>1, <1>2, <1>3, <1>4, <1>5, <1>6, <1>7, <1>8, <1>9, <1>10, <1>11, <1>12, <1>13,
       <1>14, <1>15, <1>16, <1>17
    DEF Next, Serve, Drain, Discovery
-----------------------------------------------------------------------------
(* Steps of the worker, and of admins elsewhere.                            *)
LEMMA AsideStep ==
    ASSUME IInv, TypeOK', lost \subseteq lost',
           UNCHANGED <<status, watch, adminOff, told, state, report>>
    PROVE  IInv'
<1>1. OnePassed' /\ SpokenOnly'
    BY DEF IInv, OnePassed, SpokenOnly, Busy
<1>2. DenialStands' = DenialStands /\ ReleaseStands' = ReleaseStands
    BY DEF DenialStands, ReleaseStands, Denies, Releases, Fresh
<1>3. ReleaseSeen' = ReleaseSeen /\ MessageStands' = MessageStands
    BY DEF ReleaseSeen, MessageStands, Denies, Fresh
<1>4. Unbroken' => Unbroken
    BY DEF Unbroken
<1>5. LostSight'
    BY DEF IInv, LostSight
<1>6. WillHear'
    BY DEF IInv, WillHear
<1>7. Speaking' = Speaking
    BY DEF Speaking
<1> QED BY <1>1, <1>2, <1>3, <1>4, <1>5, <1>6, <1>7 DEF IInv

(* A result that arrives while another report is served turns no row round. *)
LEMMA ReportStep ==
    ASSUME IInv, TypeOK', NEW p \in Probes, NEW r \in Results, Report(p, r)
    PROVE  IInv'
<1> USE StreakAssumption DEF StreakAssumption
<1>1. /\ TypeOK /\ OnePassed /\ SpokenOnly /\ watch /\ ~Busy(p)
      /\ \A q \in Probes : ~report[q].passed
      /\ UNCHANGED <<status, watch, told, adminOff>> /\ lost \subseteq lost'
    BY DEF IInv, Report, rowVars, verdictVars
<1>2. /\ report'[p].at = "evaluate" /\ report'[p].passed = FALSE
      /\ \A q \in Probes : q # p => /\ report'[q].at = report[q].at /\ report'[q].to = report[q].to
                                    /\ report'[q].passed = Busy(q)
    BY <1>1 DEF Report, Idle, TypeOK
<1>3. /\ state'[p] = Counted(p, r) /\ \A o \in Probes : o # p => state'[o] = state[o]
    BY <1>1 DEF Report, TypeOK
<1>4. OnePassed'
    <2>1. ASSUME NEW q \in Probes, NEW s \in Probes, q # s, q # p, s # p PROVE ~Busy(q) \/ ~Busy(s)
        BY <1>1, <2>1 DEF OnePassed, TypeOK
    <2>2. ASSUME NEW q \in Probes, NEW s \in Probes, Busy(q)', Busy(s)', q # s
          PROVE  report'[q].passed # report'[s].passed
        <3>1. q # p => Busy(q) /\ report'[q].passed = TRUE
            BY <2>2, <1>2 DEF Busy
        <3>2. s # p => Busy(s) /\ report'[s].passed = TRUE
            BY <2>2, <1>2 DEF Busy
        <3> QED BY <2>1, <2>2, <3>1, <3>2, <1>2
    <2> QED BY <2>2 DEF OnePassed
<1>5. SpokenOnly'
    BY <1>1, <1>2 DEF SpokenOnly
<1>6. ASSUME Unbroken' PROVE DenialStands' /\ ReleaseStands' /\ ReleaseSeen' /\ MessageStands'
    <2>1. Unbroken /\ ~Continues(p, r)
        BY <1>1, <1>6 DEF Unbroken, Report
    <2>2. DenialStands /\ ReleaseStands /\ MessageStands
        BY <2>1 DEF IInv
    <2>3. ASSUME NEW q \in Probes, Denies(q)',
                 NEW o \in Outside, o \in Fresh(Outside)'
          PROVE  q # p /\ report'[q].passed /\ state'[o].run <= 1
        <3>1. q # p /\ report'[q].passed /\ Denies(q)
            BY <2>3, <1>2 DEF Denies, Busy
        <3>2. \A i \in Fresh(Outside) : state[i].run <= -Streak
            BY <3>1, <1>1, <2>2 DEF DenialStands
        <3>3. CASE o # p
            <4>1. o \in Fresh(Outside) /\ state'[o].run = state[o].run /\ state[o].run \in Int
                BY <2>3, <3>3, <1>1, <1>3 DEF Fresh, Probes, TypeOK
            <4> QED BY <3>1, <3>2, <4>1
        <3>4. CASE o = p
            <4>1. state[p].run \in Int /\ (state[p].fresh => state[p].run <= -Streak)
                BY <3>2, <3>4, <1>1, <2>3 DEF Fresh, TypeOK
            <4>2. r = "ok" => state[p].run <= 0
                BY <4>1, <2>1, <3>4, <2>3 DEF Continues
            <4>3. Run(p, r) \in Int /\ Run(p, r) <= 1
                BY <4>1, <4>2 DEF Run, Results
            <4>4. Capped(p, Run(p, r)) <= 1
                BY <4>3, <3>4, <2>3 DEF Capped, Most, Least
            <4> QED BY <3>1, <3>4, <4>4, <1>3 DEF Counted, Row
        <3> QED BY <3>3, <3>4
    <2>4. DenialStands'
        <3>1. ASSUME NEW q \in Probes, Denies(q)', NEW o \in Fresh(Outside)'
              PROVE  state'[o].run <= IF report'[q].passed THEN 1 ELSE -Streak
            <4>1. o \in Outside
                BY <3>1 DEF Fresh
            <4> QED BY <3>1, <4>1, <2>3
        <3> QED BY <3>1 DEF DenialStands
    <2>5. ASSUME NEW q \in Probes, Releases(q)'
          PROVE  \E o \in Fresh(Outside)' : state'[o].run >= IF report'[q].passed THEN -1 ELSE Streak
        <3>1. q # p /\ report'[q].passed /\ Releases(q)
            BY <2>5, <1>2 DEF Releases, Busy
        <3>2. PICK o \in Fresh(Outside) : state[o].run >= Streak
            BY <3>1, <1>1, <2>2 DEF ReleaseStands
        <3>3. o \in Probes /\ o \in Outside /\ state[o].run \in Int /\ state[o].fresh
            BY <1>1 DEF Fresh, Probes, TypeOK
        <3>4. CASE o # p
            <4>1. o \in Fresh(Outside)' /\ state'[o].run >= -1
                BY <3>2, <3>3, <3>4, <1>3 DEF Fresh
            <4> QED BY <3>1, <4>1
        <3>5. CASE o = p
            <4>1. Run(p, r) \in Int /\ Run(p, r) >= -1
                BY <3>2, <3>3, <3>5 DEF Run, Results
            <4>2. Capped(p, Run(p, r)) >= -1
                BY <4>1, <3>3, <3>5 DEF Capped, Most, Least
            <4>3. o \in Fresh(Outside)' /\ state'[o].run >= -1
                BY <4>2, <3>3, <3>5, <1>3 DEF Fresh, Counted, Row
            <4> QED BY <3>1, <4>3
        <3> QED BY <3>4, <3>5
    <2>6. ReleaseStands'
        BY <2>5 DEF ReleaseStands
    <2>7. ReleaseSeen'
        BY <1>1 DEF ReleaseSeen
    <2>8. MessageStands'
        BY <1>1, <1>2, <2>2 DEF MessageStands
    <2> QED BY <2>4, <2>6, <2>7, <2>8
<1>7. LostSight'
    BY <1>1 DEF IInv, LostSight
<1>8. WillHear'
    BY <1>1, <1>2 DEF IInv, WillHear, Busy
<1>9. Speaking' = Speaking
    BY <1>1, <1>2 DEF Speaking, Busy
<1> QED BY <1>1, <1>4, <1>5, <1>6, <1>7, <1>8, <1>9 DEF IInv

(* A verdict rests on the rows; one that stands unwatched is not overturned. *)
LEMMA EvaluateStep ==
    ASSUME IInv, TypeOK', NEW p \in Probes, Evaluate(p)
    PROVE  IInv'
<1> USE StreakAssumption DEF StreakAssumption
<1>1. /\ TypeOK /\ OnePassed /\ SpokenOnly /\ report[p].at = "evaluate"
      /\ UNCHANGED <<status, watch, state, told, lost, adminOff>>
    BY DEF IInv, Evaluate, rowVars, verdictVars, ghostVars
<1>2. PICK bind \in Binds : report' = [report EXCEPT ![p] = Judged(p, bind)]
    BY DEF Evaluate
<1>3. /\ report'[p] = Judged(p, bind)
      /\ \A q \in Probes : q # p => report'[q] = report[q]
    BY <1>1, <1>2 DEF TypeOK
<1>4. \/ report'[p].at = "idle"
      \/ /\ Target(bind) # status /\ report'[p].at = "write" /\ report'[p].to = Target(bind)
         /\ report'[p].passed = report[p].passed
    <2>1. CASE Target(bind) = status
        BY <2>1, <1>3 DEF Judged, Idle
    <2>2. CASE Target(bind) # status
        <3>1. report[p] \in [at : Places, to : Statuses, passed : BOOLEAN]
            BY <1>1 DEF TypeOK
        <3>2. report'[p] = [report[p] EXCEPT !.at = "write", !.to = Target(bind)]
            BY <2>2, <1>3 DEF Judged
        <3> QED BY <2>2, <3>1, <3>2
    <2> QED BY <2>1, <2>2
<1>5. OnePassed'
    BY <1>1, <1>3, <1>4 DEF OnePassed, Busy
<1>6. SpokenOnly'
    BY <1>1, <1>3, <1>4 DEF SpokenOnly
<1>7. ASSUME Unbroken' PROVE DenialStands' /\ ReleaseStands' /\ ReleaseSeen' /\ MessageStands'
    <2>1. DenialStands /\ ReleaseStands /\ ReleaseSeen /\ MessageStands
        BY <1>1, <1>7 DEF IInv, Unbroken
    <2>2. Fresh(Outside)' = Fresh(Outside) /\ state' = state
        BY <1>1 DEF Fresh
    <2>3. ASSUME Denies(p)' PROVE \A o \in Fresh(Outside) : state[o].run <= -Streak
        BY <1>4, <2>3 DEF Denies, Target, AllOutsideDown, ReleasedNow
    <2>4. ASSUME Releases(p)' PROVE \E o \in Fresh(Outside) : state[o].run >= Streak
        BY <1>4, <2>4 DEF Releases, Target, ReleasedNow, AccessOrRoute, Binds
    <2>5. \A o \in Fresh(Outside) : state[o].run \in Int
        BY <1>1 DEF TypeOK, Fresh, Probes
    <2>6. \A q \in Probes : q # p => (Denies(q)' <=> Denies(q)) /\ (Releases(q)' <=> Releases(q))
        BY <1>3 DEF Denies, Releases
    <2>7. DenialStands'
        <3>1. ASSUME NEW q \in Probes, Denies(q)', NEW o \in Fresh(Outside)
              PROVE  state[o].run <= IF report'[q].passed THEN 1 ELSE -Streak
            <4>1. CASE q = p
                BY <2>3, <2>5, <3>1, <4>1
            <4>2. CASE q # p
                BY <2>1, <2>6, <3>1, <4>2, <1>3 DEF DenialStands
            <4> QED BY <4>1, <4>2
        <3> QED BY <3>1, <2>2 DEF DenialStands
    <2>8. ReleaseStands'
        <3>1. ASSUME NEW q \in Probes, Releases(q)'
              PROVE  \E o \in Fresh(Outside) : state[o].run >= IF report'[q].passed THEN -1 ELSE Streak
            <4>1. CASE q = p
                BY <2>4, <2>5, <3>1, <4>1
            <4>2. CASE q # p
                BY <2>1, <2>6, <3>1, <4>2, <1>3 DEF ReleaseStands
            <4> QED BY <4>1, <4>2
        <3> QED BY <3>1, <2>2 DEF ReleaseStands
    <2>9. ReleaseSeen'
        <3>1. SUFFICES ASSUME status = "released", ~watch, ~adminOff
              PROVE  /\ \A q \in Probes : ~Denies(q)' \/ report'[q].at # "write"
                     /\ (\E q \in Probes : report'[q].at = "evaluate") =>
                            \E o \in Fresh(Outside) : state[o].run > -Streak
            BY <1>1, <2>2 DEF ReleaseSeen
        <3>2. \E o \in Fresh(Outside) : state[o].run > -Streak
            BY <3>1, <2>1, <1>1 DEF ReleaseSeen
        <3>3. ~Denies(p)'
            BY <3>2, <2>3, <2>5
        <3> QED BY <3>1, <3>2, <3>3, <2>1, <2>6, <1>3 DEF ReleaseSeen
    <2>10. MessageStands'
        BY <1>1, <1>3, <1>4, <2>1 DEF MessageStands
    <2> QED BY <2>7, <2>8, <2>9, <2>10
<1>8. LostSight'
    BY <1>1 DEF IInv, LostSight
<1>9. WillHear'
    BY <1>1, <1>3 DEF IInv, WillHear
<1>10. Speaking' = Speaking
    BY <1>1, <1>3, <1>4 DEF Speaking
<1> QED BY <1>1, <1>5, <1>6, <1>7, <1>8, <1>9, <1>10 DEF IInv, Unbroken

(* The UPDATE of a verdict, whatever status the address has by now.         *)
LEMMA WriteVerdictStep ==
    ASSUME IInv, TypeOK', NEW p \in Probes, WriteVerdict(p)
    PROVE  IInv'
<1> USE StreakAssumption DEF StreakAssumption
<1> DEFINE to == report[p].to
<1>1. /\ TypeOK /\ OnePassed /\ SpokenOnly /\ report[p].at = "write" /\ status' = to
      /\ watch' = WatchAfter(to) /\ UNCHANGED <<state, lost, adminOff>>
    BY DEF IInv, WriteVerdict
<1>2. /\ report'[p].at \in {"announce", "idle"} /\ (report'[p].at = "announce" <=> to \in Spoken)
      /\ report'[p].at = "announce" => report'[p].to = to /\ report'[p].passed = report[p].passed
      /\ \A q \in Probes : q # p => report'[q] = report[q]
    <2>1. /\ report \in [Probes -> [at : Places, to : Statuses, passed : BOOLEAN]]
          /\ report' = [report EXCEPT ![p] = IF to \in Spoken THEN [report[p] EXCEPT !.at = "announce"] ELSE Idle]
        BY <1>1 DEF WriteVerdict, TypeOK
    <2>2. CASE to \in Spoken
        <3>1. report'[p] = [report[p] EXCEPT !.at = "announce"]
            BY <2>1, <2>2
        <3> QED BY <2>1, <2>2, <3>1
    <2>3. CASE to \notin Spoken
        <3>1. report'[p] = Idle
            BY <2>1, <2>3
        <3> QED BY <2>1, <2>3, <3>1 DEF Idle
    <2> QED BY <2>2, <2>3
<1>3. OnePassed'
    BY <1>1, <1>2 DEF OnePassed, Busy
<1>4. SpokenOnly'
    BY <1>1, <1>2 DEF SpokenOnly
<1>5. Denies(p) <=> to # "released"
    BY <1>1 DEF Denies
<1>6. Releases(p) <=> to = "released"
    BY <1>1 DEF Releases
<1>7. Fresh(Outside)' = Fresh(Outside) /\ state' = state
    BY <1>1 DEF Fresh
<1>8. ASSUME Unbroken PROVE DenialStands' /\ ReleaseStands' /\ ReleaseSeen' /\ MessageStands'
    <2>1. DenialStands /\ ReleaseStands /\ ReleaseSeen /\ MessageStands
        BY <1>8 DEF IInv
    <2>2. DenialStands'
        <3>1. ASSUME NEW q \in Probes, Denies(q)'
              PROVE  Denies(q) /\ report'[q].passed = report[q].passed
            BY <3>1, <1>1, <1>2 DEF Denies
        <3> QED BY <3>1, <2>1, <1>7 DEF DenialStands
    <2>3. ReleaseStands'
        <3>1. ASSUME NEW q \in Probes, Releases(q)'
              PROVE  Releases(q) /\ report'[q].passed = report[q].passed
            BY <3>1, <1>1, <1>2 DEF Releases
        <3> QED BY <3>1, <2>1, <1>7 DEF ReleaseStands
    <2>4. ASSUME to = "released" PROVE \A q \in Probes : ~Denies(q)
        BY <2>1, <2>4, <1>1, <1>6, Exclusive
    <2>5. ASSUME to # "released" PROVE \A q \in Probes : ~Releases(q)
        BY <2>1, <2>5, <1>1, <1>5, Exclusive
    <2>6. ReleaseSeen'
        <3>1. SUFFICES ASSUME to = "released"
              PROVE  /\ \A q \in Probes : ~Denies(q)' \/ report'[q].at # "write"
                     /\ \E o \in Fresh(Outside) : state[o].run > -Streak
            BY <1>1, <1>7 DEF ReleaseSeen
        <3>2. \A q \in Probes : ~Denies(q)' \/ report'[q].at # "write"
            BY <3>1, <2>4, <1>2 DEF Denies
        <3>3. PICK o \in Fresh(Outside) : state[o].run >= IF report[p].passed THEN -1 ELSE Streak
            BY <3>1, <2>1, <1>6 DEF ReleaseStands
        <3>4. state[o].run \in Int
            BY <1>1 DEF TypeOK, Fresh, Probes
        <3> QED BY <3>2, <3>3, <3>4
    <2>7. MessageStands'
        <3>1. ASSUME NEW q \in Probes, report'[q].at \in {"announce", "queue"}, report'[q].to = "released"
              PROVE  to = "released"
            BY <3>1, <1>2, <2>5 DEF Releases
        <3>2. ASSUME NEW q \in Probes, report'[q].at = "announce", report'[q].to = "blocked"
              PROVE  to # "released"
            BY <3>2, <1>2, <2>4 DEF Denies
        <3> QED BY <3>1, <3>2, <1>1 DEF MessageStands
    <2> QED BY <2>2, <2>3, <2>6, <2>7
<1>9. LostSight'
    <2>1. SUFFICES ASSUME to # "released", Unbroken PROVE watch \/ adminOff
        BY <1>1 DEF LostSight, WatchAfter, Unbroken
    <2>2. CASE status # "released"
        BY <2>1, <2>2 DEF IInv, LostSight, Unbroken
    <2>3. CASE status = "released"
        BY <2>1, <2>3, <1>1, <1>5 DEF IInv, ReleaseSeen
    <2> QED BY <2>2, <2>3
<1>10. WillHear'
    BY <1>1, <1>2 DEF WillHear
<1>11. told'.times + Cardinality(Speaking') <= Cardinality(Probes)
    <2>1. CASE to = status
        <3>1. told' = told
            BY <2>1 DEF WriteVerdict
        <3>2. Speaking' \subseteq Speaking /\ Speaking \subseteq Probes
            BY <2>1, <1>1, <1>2 DEF Speaking
        <3>3. /\ Cardinality(Speaking') <= Cardinality(Speaking) /\ Cardinality(Probes) \in Nat
              /\ Cardinality(Speaking') \in Nat /\ Cardinality(Speaking) \in Nat
            BY <3>2, FewerSpeak
        <3> QED BY <3>1, <3>3, <1>1 DEF IInv, TypeOK
    <2>2. CASE to # status
        <3>1. told'.times = 0
            BY <2>2, <1>1 DEF WriteVerdict, TypeOK
        <3>2. Speaking' \subseteq Probes
            BY DEF Speaking
        <3> QED BY <3>1, <3>2, FewerSpeak
    <2> QED BY <2>1, <2>2
<1>12. Unbroken' = Unbroken
    BY <1>1 DEF Unbroken
<1> QED BY <1>3, <1>4, <1>8, <1>9, <1>10, <1>11, <1>12 DEF IInv

(* A message uses up one of the reports that may still speak.               *)
LEMMA AnnounceStep ==
    ASSUME IInv, TypeOK', NEW p \in Probes, Announce(p)
    PROVE  IInv'
<1> DEFINE to == report[p].to
<1>1. /\ TypeOK /\ OnePassed /\ SpokenOnly /\ report[p].at = "announce"
      /\ told' = Heard(to) /\ UNCHANGED <<status, watch, state, lost, adminOff>>
    BY DEF IInv, Announce, rowVars, verdictVars
<1>2. /\ report'[p].at \in {"queue", "idle"} /\ (report'[p].at = "queue" <=> to = "released")
      /\ report'[p].at = "queue" => report'[p].to = to /\ report'[p].passed = report[p].passed
      /\ \A q \in Probes : q # p => report'[q] = report[q]
    <2>1. /\ report \in [Probes -> [at : Places, to : Statuses, passed : BOOLEAN]]
          /\ report' = [report EXCEPT ![p] = IF to = "released" THEN [report[p] EXCEPT !.at = "queue"] ELSE Idle]
        BY <1>1 DEF Announce, TypeOK
    <2>2. CASE to = "released"
        <3>1. report'[p] = [report[p] EXCEPT !.at = "queue"]
            BY <2>1, <2>2
        <3> QED BY <2>1, <2>2, <3>1
    <2>3. CASE to # "released"
        <3>1. report'[p] = Idle
            BY <2>1, <2>3
        <3> QED BY <2>1, <2>3, <3>1 DEF Idle
    <2> QED BY <2>2, <2>3
<1>3. OnePassed'
    BY <1>1, <1>2 DEF OnePassed, Busy
<1>4. SpokenOnly'
    BY <1>1, <1>2 DEF SpokenOnly
<1>5. Fresh(Outside)' = Fresh(Outside) /\ state' = state
    BY <1>1 DEF Fresh
<1>6. ASSUME Unbroken PROVE DenialStands' /\ ReleaseStands' /\ ReleaseSeen' /\ MessageStands'
    <2>1. DenialStands /\ ReleaseStands /\ ReleaseSeen /\ MessageStands
        BY <1>6 DEF IInv
    <2>2. ASSUME NEW q \in Probes, Denies(q)'
          PROVE  Denies(q) /\ report'[q] = report[q]
        BY <2>2, <1>1, <1>2 DEF Denies
    <2>3. ASSUME NEW q \in Probes, Releases(q)'
          PROVE  Releases(q) /\ report'[q].passed = report[q].passed
        BY <2>3, <1>1, <1>2 DEF Releases
    <2>4. DenialStands'
        BY <2>1, <2>2, <1>5 DEF DenialStands
    <2>5. ReleaseStands'
        BY <2>1, <2>3, <1>5 DEF ReleaseStands
    <2>6. ReleaseSeen'
        BY <2>1, <2>2, <1>1, <1>2, <1>5 DEF ReleaseSeen
    <2>7. MessageStands'
        BY <2>1, <1>1, <1>2 DEF MessageStands
    <2> QED BY <2>4, <2>5, <2>6, <2>7
<1>7. LostSight'
    BY <1>1 DEF IInv, LostSight
<1>8. WillHear'
    <2>1. SUFFICES ASSUME Unbroken, status \in Spoken PROVE to = status
        BY <1>1 DEF WillHear, Heard, Unbroken
    <2>2. MessageStands /\ to \in Spoken
        BY <2>1, <1>1 DEF IInv, SpokenOnly
    <2> QED BY <2>1, <2>2, <1>1 DEF MessageStands, Spoken
<1>9. told'.times + Cardinality(Speaking') <= Cardinality(Probes)
    <2>1. Speaking' = Speaking \ {p} /\ p \in Speaking
        BY <1>1, <1>2 DEF Speaking
    <2>2. IsFiniteSet(Speaking)
        BY ProbesFinite, FS_Subset DEF Speaking
    <2>3. Cardinality(Speaking') = Cardinality(Speaking) - 1
        BY <2>1, <2>2, FS_RemoveElement
    <2>4. Cardinality(Speaking) \in Nat /\ Cardinality(Probes) \in Nat
        BY <2>2, ProbesFinite, FS_CardinalityType
    <2>5. told'.times = told.times + 1 /\ told.times \in Nat
        BY <1>1 DEF Heard, TypeOK
    <2> QED BY <2>3, <2>4, <2>5 DEF IInv
<1>10. Unbroken' = Unbroken
    BY <1>1 DEF Unbroken
<1> QED BY <1>3, <1>4, <1>6, <1>7, <1>8, <1>9, <1>10 DEF IInv

(* A report that ends without a message left to send.                       *)
LEMMA QueueReleaseStep ==
    ASSUME IInv, TypeOK', NEW p \in Probes, QueueRelease(p)
    PROVE  IInv'
<1>1. /\ TypeOK /\ OnePassed /\ SpokenOnly /\ report[p].at = "queue"
      /\ UNCHANGED <<status, watch, state, told, lost, adminOff>>
    BY DEF IInv, QueueRelease, rowVars, verdictVars, ghostVars
<1>2. report'[p].at = "idle" /\ \A q \in Probes : q # p => report'[q] = report[q]
    BY <1>1 DEF QueueRelease, Idle, TypeOK
<1>3. OnePassed' /\ SpokenOnly'
    BY <1>1, <1>2 DEF OnePassed, SpokenOnly, Busy
<1>4. Fresh(Outside)' = Fresh(Outside) /\ state' = state
    BY <1>1 DEF Fresh
<1>5. ASSUME NEW q \in Probes PROVE /\ Denies(q)' => Denies(q) /\ report'[q] = report[q]
                                    /\ Releases(q)' => Releases(q) /\ report'[q] = report[q]
    BY <1>2 DEF Denies, Releases
<1>6. DenialStands => DenialStands'
    BY <1>4, <1>5 DEF DenialStands
<1>7. ReleaseStands => ReleaseStands'
    BY <1>4, <1>5 DEF ReleaseStands
<1>8. ReleaseSeen => ReleaseSeen'
    BY <1>1, <1>2, <1>4, <1>5 DEF ReleaseSeen
<1>9. MessageStands => MessageStands'
    BY <1>1, <1>2 DEF MessageStands
<1>10. LostSight' /\ WillHear'
    BY <1>1, <1>2 DEF IInv, LostSight, WillHear
<1>11. Speaking' = Speaking
    BY <1>1, <1>2 DEF Speaking
<1> QED BY <1>1, <1>3, <1>6, <1>7, <1>8, <1>9, <1>10, <1>11 DEF IInv, Unbroken

(* A probe falls silent: for the reports being served that is flagged.      *)
LEMMA SilenceStep ==
    ASSUME IInv, TypeOK', NEW p \in Probes, Silence(p)
    PROVE  IInv'
<1>1. /\ TypeOK /\ OnePassed /\ SpokenOnly /\ lost \subseteq lost'
      /\ UNCHANGED <<status, watch, report, told, adminOff>>
    BY DEF IInv, Silence, rowVars, verdictVars
<1>2. OnePassed' /\ SpokenOnly'
    BY <1>1 DEF OnePassed, SpokenOnly, Busy
<1>3. ASSUME Unbroken' PROVE DenialStands' /\ ReleaseStands' /\ ReleaseSeen' /\ MessageStands'
    <2>1. Quiet
        BY <1>3 DEF Unbroken, Silence
    <2>2. \A q \in Probes : report'[q].at = "idle"
        BY <2>1, <1>1 DEF Quiet, Busy
    <2> QED BY <2>2 DEF DenialStands, ReleaseStands, ReleaseSeen, MessageStands, Denies, Releases
<1>4. LostSight' /\ WillHear'
    BY <1>1 DEF IInv, LostSight, WillHear
<1>5. Speaking' = Speaking
    BY <1>1 DEF Speaking
<1> QED BY <1>1, <1>2, <1>3, <1>4, <1>5 DEF IInv

(* An address that a customer has is no longer watched.                     *)
LEMMA WriteOwnersStep ==
    ASSUME IInv, TypeOK', WriteOwners
    PROVE  IInv'
<1>1. /\ TypeOK /\ OnePassed /\ SpokenOnly /\ UNCHANGED <<status, state, report, told, lost>>
      /\ watch' = (watch /\ ~Unwatched(discovery))
      /\ adminOff' = (adminOff \/ (watch /\ Unwatched(discovery)))
    BY DEF IInv, WriteOwners
<1>2. OnePassed' /\ SpokenOnly'
    BY <1>1 DEF OnePassed, SpokenOnly, Busy
<1>3. DenialStands' = DenialStands /\ ReleaseStands' = ReleaseStands /\ MessageStands' = MessageStands
    BY <1>1 DEF DenialStands, ReleaseStands, MessageStands, Denies, Releases, Fresh
<1>4. ReleaseSeen => ReleaseSeen'
    BY <1>1 DEF ReleaseSeen, Denies, Fresh
<1>5. LostSight' /\ WillHear'
    BY <1>1 DEF IInv, LostSight, WillHear
<1>6. Speaking' = Speaking
    BY <1>1 DEF Speaking
<1> QED BY <1>1, <1>2, <1>3, <1>4, <1>5, <1>6 DEF IInv, Unbroken

(* The form of the address.                                                 *)
LEMMA SetWatchStep ==
    ASSUME IInv, TypeOK', SetWatch
    PROVE  IInv'
<1>1. /\ TypeOK /\ OnePassed /\ SpokenOnly /\ UNCHANGED <<state, report, lost>>
      /\ watch' = ~watch /\ adminOff' = watch
      /\ status' = status \/ (status = "unknown" /\ status' = "blocked")
    BY DEF IInv, SetWatch
<1>2. OnePassed' /\ SpokenOnly'
    BY <1>1 DEF OnePassed, SpokenOnly, Busy
<1>3. DenialStands' = DenialStands /\ ReleaseStands' = ReleaseStands
    BY <1>1 DEF DenialStands, ReleaseStands, Denies, Releases, Fresh
<1>4. ReleaseSeen'
    BY <1>1 DEF ReleaseSeen
<1>5. MessageStands => MessageStands'
    BY <1>1 DEF MessageStands
<1>6. LostSight'
    BY <1>1 DEF LostSight
<1>7. CASE status' = status
    <2>1. told' = told
        BY <1>7 DEF SetWatch
    <2>2. WillHear' /\ Speaking' = Speaking
        BY <2>1, <1>1, <1>7 DEF IInv, WillHear, Speaking
    <2> QED BY <2>1, <2>2, <1>1, <1>2, <1>3, <1>4, <1>5, <1>6 DEF IInv, Unbroken
<1>8. CASE status' # status
    <2>1. told' = [verdict |-> "blocked", times |-> 0] /\ status' = "blocked"
        BY <1>1, <1>8 DEF SetWatch
    <2>2. WillHear' /\ Speaking' \subseteq Probes
        BY <2>1 DEF WillHear, Speaking
    <2>3. told'.times + Cardinality(Speaking') <= Cardinality(Probes)
        BY <2>1, <2>2, FewerSpeak
    <2> QED BY <2>2, <2>3, <1>1, <1>2, <1>3, <1>4, <1>5, <1>6 DEF IInv, Unbroken
<1> QED BY <1>7, <1>8

(* The reports end; a message among them is flagged as lost.                *)
LEMMA CrashWebStep ==
    ASSUME IInv, TypeOK', CrashWeb
    PROVE  IInv'
<1>1. /\ TypeOK /\ UNCHANGED <<status, watch, state, told, adminOff>> /\ lost \subseteq lost'
      /\ \A p \in Probes : report'[p] = Idle
      /\ "message" \notin lost' => \A p \in Probes : report[p].at # "announce"
    BY DEF IInv, CrashWeb, rowVars, verdictVars
<1>2. OnePassed' /\ SpokenOnly' /\ Speaking' = {}
    BY <1>1 DEF OnePassed, SpokenOnly, Speaking, Busy, Idle
<1>3. DenialStands' /\ ReleaseStands' /\ MessageStands'
    BY <1>1 DEF DenialStands, ReleaseStands, MessageStands, Denies, Releases, Idle
<1>4. ReleaseSeen'
    BY <1>1 DEF ReleaseSeen, Denies, Idle
<1>5. LostSight' /\ WillHear'
    BY <1>1 DEF IInv, LostSight, WillHear
<1>6. /\ Cardinality({}) = 0 /\ Cardinality(Speaking) \in Nat /\ Cardinality(Probes) \in Nat
      /\ told.times \in Nat
    <2>1. Speaking \subseteq Probes
        BY DEF Speaking
    <2> QED BY <2>1, <1>1, FewerSpeak, FS_EmptySet DEF TypeOK
<1> QED BY <1>1, <1>2, <1>3, <1>4, <1>5, <1>6 DEF IInv
-----------------------------------------------------------------------------
(* Every step keeps the invariant.                                          *)
THEOREM Inductive == IInv /\ [Next]_vars => IInv'
<1> SUFFICES ASSUME IInv, [Next]_vars PROVE IInv'
    OBVIOUS
<1>1. TypeOK'
    BY TypeStep DEF IInv
<1> USE <1>1
<1>2. ASSUME NEW p \in Probes, NEW r \in Results, Report(p, r) PROVE IInv'
    BY <1>2, ReportStep
<1>3. ASSUME NEW p \in Probes, Serve(p) PROVE IInv'
    BY <1>3, EvaluateStep, WriteVerdictStep, AnnounceStep, QueueReleaseStep DEF Serve
<1>4. ASSUME NEW p \in Probes, Silence(p) PROVE IInv'
    BY <1>4, SilenceStep
<1>5. CASE TakeJob
    BY <1>5, AsideStep DEF TakeJob, rowVars, verdictVars
<1>6. CASE WriteAnchor
    BY <1>6, AsideStep DEF WriteAnchor, rowVars, verdictVars
<1>7. CASE RecordApply
    BY <1>7, AsideStep DEF RecordApply, verdictVars, ghostVars
<1>8. CASE ListOwners
    BY <1>8, AsideStep DEF ListOwners, rowVars, verdictVars, ghostVars
<1>9. CASE WriteOwners
    BY <1>9, WriteOwnersStep
<1>10. CASE RequestApply
    BY <1>10, AsideStep DEF RequestApply, rowVars, verdictVars, ghostVars
<1>11. CASE SetWatch
    BY <1>11, SetWatchStep
<1>12. CASE GiveOut
    BY <1>12, AsideStep DEF GiveOut, rowVars, verdictVars, ghostVars
<1>13. CASE CrashWeb
    BY <1>13, CrashWebStep
<1>14. CASE CrashWorker
    BY <1>14, AsideStep DEF CrashWorker, rowVars, verdictVars
<1>15. CASE UNCHANGED vars
    BY <1>15, AsideStep DEF vars, rowVars, verdictVars, ghostVars
<1> QED
    BY <1>2, <1>3, <1>4, <1>5, <1>6, <1>7, <1>8, <1>9, <1>10, <1>11, <1>12, <1>13, <1>14, <1>15
    DEF Next, Drain, Discovery

(* The invariant holds in every reachable state.                            *)
THEOREM Invariance == Spec => []IInv
<1>1. Init => IInv
    BY InitIInv
<1>2. IInv /\ [Next]_vars => IInv'
    BY Inductive
<1> QED BY <1>1, <1>2, PTL DEF Spec

(* No report writes its verdict over a release that another one announced:  *)
(* app/api/probe/route.ts loses sight of no address, however many probes    *)
(* report at once, as long as no streak outlives a silence.                 *)
THEOREM SightKept == Spec => []LostSight
<1>1. IInv => LostSight
    BY DEF IInv
<1> QED BY <1>1, Invariance, PTL

(* Once the reports are served, the last message that the admin had says    *)
(* what the panel shows, and the verdict was announced no more often than   *)
(* there are probes.                                                        *)
THEOREM AdminKnows == Spec => []ToldOnceWhatStands
<1>1. IInv => ToldOnceWhatStands
    <2> SUFFICES ASSUME IInv PROVE ToldOnceWhatStands
        OBVIOUS
    <2>1. TypeOK
        BY DEF IInv
    <2>2. ToldWhatStands
        BY DEF IInv, WillHear, ToldWhatStands, Quiet, Busy
    <2>3. Speaking \subseteq Probes
        BY DEF Speaking
    <2>4. Cardinality(Speaking) \in Nat /\ Cardinality(Probes) \in Nat
        BY <2>3, FewerSpeak
    <2>5. AnnouncedBounded
        BY <2>1, <2>4 DEF IInv, TypeOK, AnnouncedBounded
    <2> QED BY <2>1, <2>2, <2>5 DEF ToldOnceWhatStands
<1> QED BY <1>1, Invariance, PTL
=============================================================================
