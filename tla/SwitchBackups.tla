---------------------------- MODULE SwitchBackups ----------------------------
(***************************************************************************)
(* The kept versions of the configuration of the switches                  *)
(* (worker/switches.mjs): a schedule looks after the few switches that     *)
(* were not looked at for the longest time, and beside it the worker takes *)
(* a copy after each command and when an admin asks.  A copy is fetched    *)
(* first, compared with the newest version after that, and stored if it    *)
(* differs.                                                                *)
(***************************************************************************)
EXTENDS Integers, Sequences, SequencesExt

CONSTANTS
    Switches,    \* the switches that the query selects
    Unwritable,  \* those of them that may not be written, so that none can copy
    Limit,       \* switches per run, 5 in the code
    MaxEvents    \* bound on changes of a configuration, failures and requests

BackupsAssumption ==
    Unwritable \subseteq Switches /\ Limit \in Nat \ {0} /\ MaxEvents \in Nat

VARIABLES
    config,   \* the configuration of each switch
    history,  \* the stored versions (switch_configs), the newest last
    order,    \* the switches by config_checked_at, those never checked first
    fresh,    \* those checked within switch_backup_hours
    auto,     \* the schedule: switches still to do, the copy in hand
    extra,    \* the copy taken after a command or for an admin
    events

vars == <<config, history, order, fresh, auto, extra, events>>

Versions == {1, 2}
NoCopy == [of |-> "none", version |-> 1]

TypeOK ==
    /\ config \in [Switches -> Versions]
    /\ \A s \in Switches : history[s] \in Seq(Versions)
    /\ ToSet(order) = Switches /\ fresh \subseteq Switches
    /\ ToSet(auto.todo) \subseteq Switches

Init ==
    /\ config = [s \in Switches |-> 1]
    /\ history = [s \in Switches |-> <<>>]
    /\ order \in SetToSeqs(Switches)
    /\ fresh = {}
    /\ auto = [todo |-> <<>>, copy |-> NoCopy]
    /\ extra = NoCopy
    /\ events = 0

Event == events < MaxEvents /\ events' = events + 1

\* Somebody changes a configuration, perhaps back to what it was.
Change ==
    /\ Event
    /\ \E s \in Switches : config' = [config EXCEPT ![s] = 3 - @]
    /\ UNCHANGED <<history, order, fresh, auto, extra>>

\* switch_backup_hours go by.
Hours ==
    /\ fresh # {}
    /\ fresh' = {}
    /\ UNCHANGED <<config, history, order, auto, extra, events>>

CanBackup(s) == s \notin Unwritable

\* Noting the time of the check puts the switch last.
Checked(s) ==
    /\ order' = Append(SelectSeq(order, LAMBDA t : t # s), s)
    /\ fresh' = fresh \union {s}

\* Mutant: what was stored at any time is not stored again.
StoredEver(s, version) == IF version \in ToSet(history[s]) THEN history[s] ELSE Append(history[s], version)

\* takeBackup after the copy has come: the newest version is read, and the copy
\* stored if it differs.
Stored(s, version) ==
    IF history[s] # <<>> /\ Last(history[s]) = version THEN history[s] ELSE Append(history[s], version)

\* The switches whose time has come, those not looked at for longest first.
DueList == SelectSeq(order, LAMBDA s : s \notin fresh)

\* backupSwitchConfigs selects the switches.
Select ==
    /\ auto.todo = <<>> /\ auto.copy = NoCopy
    /\ DueList # <<>>
    /\ auto' = [auto EXCEPT !.todo = SubSeq(DueList, 1, IF Len(DueList) < Limit THEN Len(DueList) ELSE Limit)]
    /\ UNCHANGED <<config, history, order, fresh, extra, events>>

\* One that cannot copy is passed over; the next is asked for its configuration,
\* and a failure is noted as a check.
Fetch ==
    /\ auto.todo # <<>> /\ auto.copy = NoCopy
    /\ LET s == Head(auto.todo)
       IN  \/ /\ ~CanBackup(s)
              /\ auto' = [auto EXCEPT !.todo = Tail(@)]
              /\ UNCHANGED <<order, fresh, events>>
           \/ /\ CanBackup(s)
              /\ auto' = [auto EXCEPT !.copy = [of |-> s, version |-> config[s]]]
              /\ UNCHANGED <<order, fresh, events>>
           \/ /\ CanBackup(s) /\ Event
              /\ auto' = [auto EXCEPT !.todo = Tail(@)]
              /\ Checked(s)
    /\ UNCHANGED <<config, history, extra>>

Store ==
    /\ auto.copy # NoCopy
    /\ LET s == auto.copy.of
       IN  /\ history' = [history EXCEPT ![s] = Stored(s, auto.copy.version)]
           /\ Checked(s)
           /\ auto' = [todo |-> Tail(auto.todo), copy |-> NoCopy]
    /\ UNCHANGED <<config, extra, events>>

\* snapshotAfterAction, or runAction with the request of a backup: beside the
\* schedule, and without a note when it fails.
FetchExtra ==
    /\ extra = NoCopy /\ Event
    /\ \E s \in Switches : CanBackup(s) /\ extra' = [of |-> s, version |-> config[s]]
    /\ UNCHANGED <<config, history, order, fresh, auto>>

StoreExtra ==
    /\ extra # NoCopy
    /\ history' = [history EXCEPT ![extra.of] = Stored(extra.of, extra.version)]
    /\ Checked(extra.of)
    /\ extra' = NoCopy
    /\ UNCHANGED <<config, auto, events>>

Schedule == Select \/ Fetch \/ Store

Next == Change \/ Hours \/ Schedule \/ FetchExtra \/ StoreExtra

\* The schedule and the queue of commands go on, and time passes.
Spec == Init /\ [][Next]_vars /\ WF_vars(Schedule) /\ WF_vars(StoreExtra) /\ SF_vars(Hours)

-----------------------------------------------------------------------------
(* What must hold.                                                         *)

\* Whatever was fetched before and stored after whatever else, the newest
\* version kept of a switch that can copy is in the end the configuration it
\* has, also when it was changed back to an earlier one.
NewestIsCurrent ==
    <>[](TypeOK /\ \A s \in Switches : CanBackup(s) => history[s] # <<>> /\ Last(history[s]) = config[s])
=============================================================================
