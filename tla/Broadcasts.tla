----------------------------- MODULE Broadcasts -----------------------------
(***************************************************************************)
(* One message to many customers, by SMS or e-mail (worker/broadcasts.mjs, *)
(* api/broadcasts and its page).  The panel writes a row for the broadcast *)
(* and then one for every recipient; the worker takes a few rows at a      *)
(* time, looks before each whether the broadcast was cancelled, sends,     *)
(* notes the result in the row and then in the counters.  The panel        *)
(* cancels, and puts the recipients that failed back.  Every statement is  *)
(* a step of its own, and worker and panel may stop between any two.       *)
(***************************************************************************)
EXTENDS Naturals, FiniteSets

CONSTANTS
    Total,       \* the recipients are 1..Total, in the order of their rows
    Batch,       \* BATCH
    MaxCrashes, MaxLost, MaxRetries   \* bounds: restarts, messages that arrive though sending failed, retries by hand

BroadcastsAssumption == {Total, Batch} \subseteq Nat \ {0} /\ {MaxCrashes, MaxLost, MaxRetries} \subseteq Nat

VARIABLES
    bc,       \* the broadcast: status and counters
    rows,     \* the rows of recipients, by recipient
    form,     \* the request that writes the rows: the next one
    worker,   \* the worker: where it is, the rows it has taken, the one under way and its result
    reset,    \* a retry by hand between its two statements: the rows put back
    got,      \* history: the customers that have got the message
    again,    \* history: messages to a customer that had got it
    late,     \* history: messages sent since the broadcast was cancelled
    faults    \* history: restarts, lost answers and retries so far

vars == <<bc, rows, form, worker, reset, got, again, late, faults>>

Recipients == 1..Total
Idle == [pc |-> "idle", left |-> {}, row |-> 0, ok |-> FALSE]
NoFaults == [crashes |-> 0, lost |-> 0, retries |-> 0]

Init ==
    /\ bc = [status |-> "none", sent |-> 0, failed |-> 0]
    /\ rows = [r \in Recipients |-> "none"]
    /\ form = 0 /\ reset = 0
    /\ worker = Idle
    /\ got = {} /\ again = 0 /\ late = 0
    /\ faults = NoFaults

-----------------------------------------------------------------------------
(* The panel.                                                              *)

Post ==
    /\ bc.status = "none"
    /\ bc' = [bc EXCEPT !.status = "queued"]
    /\ form' = 1
    /\ UNCHANGED <<rows, worker, reset, got, again, late, faults>>

PostRow ==
    /\ form \in Recipients
    /\ rows' = [rows EXCEPT ![form] = "pending"]
    /\ form' = form + 1
    /\ UNCHANGED <<bc, worker, reset, got, again, late, faults>>

Cancel ==
    /\ bc.status \in {"queued", "sending"}
    /\ bc' = [bc EXCEPT !.status = "canceled"]
    /\ late' = 0
    /\ UNCHANGED <<rows, form, worker, reset, got, again, faults>>

\* Mutant: every row that has a result is put back.
PutBackAll(r) == rows[r] \in {"failed", "sent"}

\* The rows that a retry puts back.
PutBack(r) == rows[r] = "failed"

RetryFailed ==
    /\ reset = 0 /\ faults.retries < MaxRetries
    /\ \E r \in Recipients : PutBack(r)
    /\ rows' = [r \in Recipients |-> IF PutBack(r) THEN "pending" ELSE rows[r]]
    /\ reset' = Cardinality({r \in Recipients : PutBack(r)})
    /\ faults' = [faults EXCEPT !.retries = @ + 1]
    /\ UNCHANGED <<bc, form, worker, got, again, late>>

RetryQueued ==
    /\ reset > 0
    /\ bc' = [bc EXCEPT !.status = "queued", !.failed = IF @ > reset THEN @ - reset ELSE 0]
    /\ reset' = 0
    /\ UNCHANGED <<rows, form, worker, got, again, late, faults>>

-----------------------------------------------------------------------------
(* The worker.                                                             *)

Drain ==
    /\ worker.pc = "idle" /\ bc.status \in {"queued", "sending"}
    /\ bc' = [bc EXCEPT !.status = "sending"]
    /\ worker' = [Idle EXCEPT !.pc = "select"]
    /\ UNCHANGED <<rows, form, reset, got, again, late, faults>>

Waiting == {r \in Recipients : rows[r] = "pending"}

\* The first ones that wait, by id, no more than a batch.
Pending == {r \in Waiting : Cardinality({q \in Waiting : q < r}) < Batch}

Select ==
    /\ worker.pc = "select"
    /\ worker' = IF Waiting = {}
                 THEN [worker EXCEPT !.pc = "finish"]
                 ELSE [worker EXCEPT !.pc = "check", !.left = Pending]
    /\ UNCHANGED <<bc, rows, form, reset, got, again, late, faults>>

\* Nothing is left to send, as it was a moment ago.
Finish ==
    /\ worker.pc = "finish"
    /\ bc' = [bc EXCEPT !.status = "done"]
    /\ worker' = Idle
    /\ UNCHANGED <<rows, form, reset, got, again, late, faults>>

\* Mutant: a cancellation takes effect in the next round.
GoesToTheEnd == worker.left # {}

\* A cancellation takes effect before the next message, not in the next round.
GoesOn == bc.status # "canceled" /\ worker.left # {}

Check ==
    /\ worker.pc = "check"
    /\ IF GoesOn
       THEN \E r \in worker.left :
               /\ \A q \in worker.left : r <= q
               /\ worker' = [worker EXCEPT !.pc = "send", !.row = r, !.left = @ \ {r}]
       ELSE worker' = Idle
    /\ UNCHANGED <<bc, rows, form, reset, got, again, late, faults>>

\* sendSms and sendEmailTo: the message goes and the answer comes; or neither;
\* or the answer is lost after the message was taken.
Send ==
    /\ worker.pc = "send"
    /\ \E there, ok \in BOOLEAN :
          /\ ok => there
          /\ ~ok /\ there => faults.lost < MaxLost
          /\ worker' = [worker EXCEPT !.pc = "mark", !.ok = ok]
          /\ got' = IF there THEN got \union {worker.row} ELSE got
          /\ again' = again + IF there /\ worker.row \in got THEN 1 ELSE 0
          /\ faults' = [faults EXCEPT !.lost = @ + IF there /\ ~ok THEN 1 ELSE 0]
    /\ late' = late + IF bc.status = "canceled" THEN 1 ELSE 0
    /\ UNCHANGED <<bc, rows, form, reset>>

Mark ==
    /\ worker.pc = "mark"
    /\ rows' = [rows EXCEPT ![worker.row] = IF worker.ok THEN "sent" ELSE "failed"]
    /\ worker' = [worker EXCEPT !.pc = "count"]
    /\ UNCHANGED <<bc, form, reset, got, again, late, faults>>

Count ==
    /\ worker.pc = "count"
    /\ bc' = IF worker.ok THEN [bc EXCEPT !.sent = @ + 1] ELSE [bc EXCEPT !.failed = @ + 1]
    /\ worker' = [worker EXCEPT !.pc = "check"]
    /\ UNCHANGED <<rows, form, reset, got, again, late, faults>>

Crash ==
    /\ worker.pc # "idle" /\ faults.crashes < MaxCrashes
    /\ worker' = Idle
    /\ faults' = [faults EXCEPT !.crashes = @ + 1]
    /\ UNCHANGED <<bc, rows, form, reset, got, again, late>>

Worker == Drain \/ Select \/ Finish \/ Check \/ Send \/ Mark \/ Count

Panel == Post \/ PostRow \/ Cancel \/ RetryFailed \/ RetryQueued

Next == Panel \/ Worker \/ Crash

Spec == Init /\ [][Next]_vars /\ WF_vars(Worker) /\ WF_vars(PostRow \/ RetryQueued)

-----------------------------------------------------------------------------

\* However the worker dies and the panel cancels and retries, a customer gets
\* a message again only for a restart in the middle of the sending, or because
\* its answer was lost and a person asked to try again; and after a cancellation
\* at most the message that was under way goes out.
OnceUnlessCrash ==
    /\ again <= faults.crashes + faults.lost
    /\ late <= 1
=============================================================================
