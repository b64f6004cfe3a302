------------------------------ MODULE Backfill ------------------------------
(* Backfill: the traffic of past days, pasted as lines into a form.         *)
(*                                                                          *)
(* The page reads the lines anew for whatever unit is chosen, shows how     *)
(* many are readable and what they come to, and sends the readable ones.    *)
(* The route stores them one by one, without a transaction: a date that     *)
(* looks right but does not exist is only refused by the database, and the  *)
(* lines before it stay.  Meanwhile the roll-up writes what the agent       *)
(* measured.                                                                *)
(*                                                                          *)
(* One number stands for what was received and sent: they go side by side.  *)
(* That a row is read and written in two statements is looked at in         *)
(* Metering; here they are one step.  Days are numbers, Missing is a day    *)
(* that does not exist.                                                     *)
EXTENDS Integers, FiniteSets, Functions

CONSTANTS
    Today, LastDay,     \* days up to LastDay may be typed, also later ones than Today
    Missing,            \* a date of the right form that no month has
    Amounts,            \* the numbers of the lines, also below zero: the page refuses none that is finite
    Units,              \* bytes in each unit offered
    MaxLines,           \* bound: lines of the text
    MaxSends,           \* bound: times the form is sent
    MaxMeasured         \* bound: roll-ups

BackfillAssumption ==
    /\ Today \in 1..LastDay /\ Missing \notin 1..LastDay
    /\ Amounts \subseteq Int /\ Units \subseteq Nat \ {0} /\ {MaxLines, MaxSends, MaxMeasured} \subseteq Nat

Days == 1..LastDay
\* A line is short of a column, has no date, has no number, or is read.
Lines ==
    [day : Days \cup {Missing}, amount : Amounts, fault : {"none"}]
        \cup [day : {1}, amount : {0}, fault : {"columns", "date", "number"}]

VARIABLES
    text, unit, overwrite,   \* the form
    daily,                   \* table server_metrics_daily: [bytes, source]
    left,                    \* lines of the request whose rows are not stored yet
    answer,                  \* what the form shows: [state, added, updated, skipped]
    count,                   \* sends and roll-ups so far
    sent, before             \* history: the rows sent last, by line, and the days as they were then

vars == <<text, unit, overwrite, daily, left, answer, count, sent, before>>

NoAnswer == [state |-> "none", added |-> 0, updated |-> 0, skipped |-> 0]
NoRow == [bytes |-> 0, source |-> "none"]
Nothing == [n \in {} |-> 0]

Init ==
    /\ text \in UNION {[1..n -> Lines] : n \in 1..MaxLines}
    /\ unit \in Units /\ overwrite \in BOOLEAN
    /\ daily = [d \in Days |-> NoRow] /\ left = {} /\ answer = NoAnswer
    /\ count = [sends |-> 0, measured |-> 0]
    /\ sent = Nothing /\ before = daily

-----------------------------------------------------------------------------
(* The form.                                                                *)

\* The bytes of an amount, in the unit chosen.
Bytes(amount, u) == amount * u

\* Every line is read anew: a row for each, with what is wrong with it.
Parsed(u) == [n \in DOMAIN text |-> [day |-> text[n].day, bytes |-> Bytes(text[n].amount, u), error |-> text[n].fault]]

\* Mutant: lines that were not read are sent as well.
ValidAll(rows) == rows

\* What is shown as readable, and sent.
Valid(rows) == Restrict(rows, {n \in DOMAIN rows : rows[n].error = "none"})

\* What the preview says they come to.
Preview == LET read == Valid(Parsed(unit)) IN FoldFunction(+, 0, [n \in DOMAIN read |-> read[n].bytes])

\* The text stays in the form, and so may be sent again; the unit and the mark to
\* overwrite can be changed in between.
Send ==
    /\ answer.state # "busy" /\ count.sends < MaxSends
    /\ \E u \in Units, o \in BOOLEAN : unit' = u /\ overwrite' = o /\ sent' = Valid(Parsed(u))
    /\ left' = DOMAIN sent' /\ left' # {} /\ before' = daily
    /\ answer' = [NoAnswer EXCEPT !.state = "busy"]
    /\ count' = [count EXCEPT !.sends = @ + 1]
    /\ UNCHANGED <<text, daily>>

-----------------------------------------------------------------------------
(* The route, row by row in the order of the lines.                         *)

\* Mutant: a day that has any row is left alone.
ProtectedAny(d) == daily[d].source # "none" /\ ~overwrite

\* What the agent measured is replaced only on request.
Protected(d) == daily[d].source = "agent" /\ ~overwrite

Turn(n) == answer.state = "busy" /\ n \in left /\ \A m \in left : n <= m

\* A day to come, or one that is protected.
Skip(n) ==
    /\ Turn(n)
    /\ LET d == sent[n].day IN d # Missing /\ (d > Today \/ Protected(d))
    /\ answer' = [answer EXCEPT !.skipped = @ + 1]
    /\ left' = left \ {n}
    /\ UNCHANGED <<text, unit, overwrite, daily, count, sent, before>>

\* Mutant: what was sent is stored, also below zero.
StoredAsSent(bytes) == bytes

\* The route stores no day below zero.
Stored(bytes) == IF bytes < 0 THEN 0 ELSE bytes

StoreRow(n) ==
    /\ Turn(n)
    /\ LET d == sent[n].day IN
       /\ d # Missing /\ d <= Today /\ ~Protected(d)
       /\ daily' = [daily EXCEPT ![d] = [bytes |-> Stored(sent[n].bytes), source |-> "manual"]]
       /\ answer' = IF daily[d].source = "none" THEN [answer EXCEPT !.added = @ + 1]
                    ELSE [answer EXCEPT !.updated = @ + 1]
    /\ left' = left \ {n}
    /\ UNCHANGED <<text, unit, overwrite, count, sent, before>>

\* The database refuses a date that does not exist; or the panel stops.
Fail ==
    /\ answer.state = "busy" /\ left # {}
    /\ answer' = [answer EXCEPT !.state = "failed"]
    /\ UNCHANGED <<text, unit, overwrite, daily, left, count, sent, before>>

Answered ==
    /\ answer.state = "busy" /\ left = {}
    /\ answer' = [answer EXCEPT !.state = "done"]
    /\ UNCHANGED <<text, unit, overwrite, daily, left, count, sent, before>>

\* Mutant: the roll-up takes back a day entered by hand.
MeasuredAny(d) == TRUE

\* The roll-up writes a day it has written before or that has no row.
Measured(d) == daily[d].source \in {"none", "agent"}

Measure(d) ==
    /\ count.measured < MaxMeasured /\ d <= Today /\ Measured(d)
    /\ daily' = [daily EXCEPT ![d] = [bytes |-> 1, source |-> "agent"]]
    /\ count' = [count EXCEPT !.measured = @ + 1]
    /\ UNCHANGED <<text, unit, overwrite, left, answer, sent, before>>

Next ==
    \/ Send \/ Fail \/ Answered
    \/ \E n \in left : Skip(n) \/ StoreRow(n)
    \/ \E d \in Days : Measure(d)

Spec == Init /\ [][Next]_vars

-----------------------------------------------------------------------------
Done == DOMAIN sent \ left
DaysOf(lines) == {sent[n].day : n \in lines}
\* The last line gone through that names its day.
IsLast(n) == n \in Done /\ \A m \in Done : sent[m].day = sent[n].day => m <= n

\* What a row is to leave in its day: nothing below zero.
Owed(n) == IF sent[n].bytes >= 0 THEN sent[n].bytes ELSE 0

\* Of the rows a request has gone through, also one that failed on the way, the last
\* of each day is what the day has, or nothing if it was below zero, but for days to come
\* and days the agent measured; with the mark to overwrite, for no day that has come is it
\* the agent's.  The other days have what they had, or what the agent measured since.
DaysAsTyped ==
    /\ \A n \in Done : LET d == sent[n].day IN IsLast(n) =>
          \/ d > Today /\ daily[d] = NoRow
          \/ daily[d] = [bytes |-> Owed(n), source |-> "manual"]
          \/ ~overwrite /\ daily[d].source = "agent"
    /\ sent # Nothing => \A d \in Days \ DaysOf(Done) : daily[d] = before[d] \/ daily[d].source = "agent"

\* What the days that were sent have come to.
Entered == FoldFunction(+, 0, [d \in DaysOf(Done) |-> daily[d].bytes])

\* When all was stored, each line that could be read is counted once.  If no day is named
\* twice and none was skipped, the days come to no less than the preview said; and to just
\* that, unless a line was below zero: the preview subtracts it, the route does not.
PreviewKept ==
    answer.state = "done" =>
        /\ answer.added + answer.updated + answer.skipped = Cardinality({n \in DOMAIN text : text[n].fault = "none"})
        /\ answer.skipped = 0 /\ IsInjective([n \in DOMAIN sent |-> sent[n].day]) =>
              /\ Preview <= Entered
              /\ (\A n \in DOMAIN sent : sent[n].bytes >= 0) => Preview = Entered

BackfillHolds == DaysAsTyped /\ PreviewKept
=============================================================================
