--------------------------- MODULE RenewalProofs ---------------------------
(***************************************************************************)
(* Proofs about Renewal, for all dates, periods and bounds.  The invoices  *)
(* are right because every live invoice is either the open one of the      *)
(* current date or a paid one that ended by then, and because the date a   *)
(* cycle carries from its read to its insert is one of those.              *)
(***************************************************************************)
EXTENDS Renewal, TLAPS

USE DatesAssumption, BoundsAssumption

-----------------------------------------------------------------------------
(* A payment moves the date beyond the period it pays for. *)
LEMMA ExtendedMoves ==
    ASSUME today \in Nat, renewsAt \in Nat
    PROVE  Extended \in Nat /\ renewsAt + Period <= Extended
BY DEF Extended, Larger

(* Type correctness is kept by every step. *)
LEMMA TypeStep == TypeOK /\ [Next]_vars => TypeOK'
<1> SUFFICES ASSUME TypeOK, [Next]_vars PROVE TypeOK'
    OBVIOUS
<1> USE DEF TypeOK, issueVars, invoiceVars, alertVars, Idle, States
<1>1. CASE IssueRead
    BY <1>1 DEF IssueRead
<1>2. CASE PassOver
    BY <1>2 DEF PassOver
<1>3. CASE Insert
    <2>1. last + 1 \in Ids /\ last' = last + 1 /\ last' \in 0 .. MaxInvoices
        BY <1>3 DEF Insert, Ids
    <2>2. state' \in [Ids -> States] /\ from' \in [Ids -> Nat]
        BY <1>3 DEF Insert
    <2>3. \A i \in Ids : state'[i] = "none" <=> i > last'
        <3> SUFFICES ASSUME NEW i \in Ids PROVE state'[i] = "none" <=> i > last'
            OBVIOUS
        <3>1. i \in Nat /\ last \in Nat
            BY DEF Ids
        <3>2. CASE i = last + 1
            BY <3>1, <3>2, <2>1, <1>3 DEF Insert
        <3>3. CASE i # last + 1
            <4>1. state'[i] = state[i]
                BY <3>3, <1>3 DEF Insert
            <4> QED BY <4>1, <3>1, <3>3, <2>1
        <3> QED BY <3>2, <3>3
    <2>4. issuing' \in [at : {"idle", "insert", "tell"}, date : Nat] /\ last' > 0
        BY <1>3, <2>1 DEF Insert
    <2> QED BY <1>3, <2>1, <2>2, <2>3, <2>4 DEF Insert
<1>4. CASE TellIssued
    <2>1. issuing' = Idle /\ told' = [told EXCEPT ![last] = told[last] + 1]
        BY <1>4 DEF TellIssued
    <2>2. last \in Ids /\ told[last] + 1 \in Nat
        BY <1>4 DEF TellIssued, Ids
    <2>3. told' \in [Ids -> Nat]
        BY <2>1, <2>2
    <2>4. Idle \in [at : {"idle", "insert", "tell"}, date : Nat]
        BY DEF Idle
    <2> QED BY <1>4, <2>1, <2>3, <2>4 DEF TellIssued
<1>5. ASSUME NEW i \in Ids, Settle(i) PROVE TypeOK'
    <2>1. renewsAt' \in Nat
        BY <1>5, ExtendedMoves DEF Settle
    <2> QED BY <1>5, <2>1 DEF Settle, Ids
<1>6. ASSUME NEW i \in Ids, Cancel(i) PROVE TypeOK'
    BY <1>6 DEF Cancel, Event, Ids
<1>7. CASE AlertRead
    BY <1>7 DEF AlertRead
<1>8. CASE Claim
    <2>1. alerting.date \in Dates
        BY <1>8 DEF Claim, Claims, InNotice, Dates, DatesAssumption, BoundsAssumption
    <2>2. /\ alerting' \in [at : {"idle", "claim", "send"}, date : Nat]
          /\ alerting'.date = alerting.date
        BY <1>8 DEF Claim
    <2> QED BY <1>8, <2>1, <2>2 DEF Claim
<1>9. CASE NothingToSay
    BY <1>9 DEF NothingToSay
<1>10. CASE Remind
    BY <1>10 DEF Remind
<1>11. CASE NewDay
    BY <1>11 DEF NewDay
<1>12. ASSUME NEW date \in 0 .. LastDay, Reschedule(date) PROVE TypeOK'
    BY <1>12 DEF Reschedule
<1>13. CASE Crash
    BY <1>13 DEF Crash, Event
<1>14. CASE UNCHANGED vars
    BY <1>14 DEF vars
<1> QED
    BY <1>1, <1>2, <1>3, <1>4, <1>5, <1>6, <1>7, <1>8, <1>9, <1>10, <1>11, <1>12,
       <1>13, <1>14 DEF Next, IssueStep, AlertStep

(* The initial states have the right types.                                 *)
LEMMA TypeInit == Init => TypeOK
<1> SUFFICES ASSUME Init PROVE TypeOK
    OBVIOUS
<1>1. /\ today \in 0 .. LastDay /\ renewsAt \in Nat /\ moved \in BOOLEAN
      /\ last \in 0 .. MaxInvoices /\ events \in 0 .. MaxEvents
    <2>1. today \in 0 .. LastDay /\ last \in 0 .. MaxInvoices /\ events \in 0 .. MaxEvents
        BY DEF Init, BoundsAssumption
    <2>2. renewsAt \in Nat
        BY DEF Init, DatesAssumption
    <2>3. moved \in BOOLEAN
        BY DEF Init
    <2> QED BY <2>1, <2>2, <2>3
<1>2. /\ state \in [Ids -> States] /\ from \in [Ids -> Nat] /\ told \in [Ids -> Nat]
      /\ reminded \in [Dates -> Nat] /\ notices \subseteq Dates
    BY DEF Init, States
<1>3. \A i \in Ids : state[i] = "none" <=> i > last
    BY DEF Init, Ids
<1>4. /\ issuing \in [at : {"idle", "insert", "tell"}, date : Nat]
      /\ alerting \in [at : {"idle", "claim", "send"}, date : Nat]
      /\ issuing.at = "idle" /\ alerting.at = "idle"
    BY DEF Init, Idle
<1> QED
    BY <1>1, <1>2, <1>3, <1>4 DEF TypeOK

(* Every reachable state is well typed. *)
THEOREM TypesHold == Spec => []TypeOK
BY TypeInit, TypeStep, PTL DEF Spec

-----------------------------------------------------------------------------
(* Steps that touch neither the date nor the invoices, and carry no new     *)
(* date to an insert, keep the invariant.                                  *)
LEMMA QuietStep ==
    ASSUME IInv, TypeOK', UNCHANGED <<renewsAt, moved, last, state, from>>,
           issuing'.at = "insert" => issuing' = issuing
    PROVE  IInv'
BY DEF IInv, PaidPeriodsDisjoint, PaidIsCovered, OneUnpaid, ReadIsCurrentOrTaken,
       Taken, Live, Ids

(* The new invoice is for the current date: a date read earlier is taken.  *)
LEMMA InsertStep == IInv /\ TypeOK' /\ Insert => IInv'
<1> SUFFICES ASSUME IInv, TypeOK', Insert PROVE IInv'
    OBVIOUS
<1> DEFINE n == last + 1
<1>1. n \in Ids /\ state[n] = "none"
    BY DEF Insert, IInv, TypeOK, Ids
<1>2. UNCHANGED <<renewsAt, moved>>
    BY DEF Insert
<1>3. /\ state'[n] = "unpaid" /\ from'[n] = issuing.date
      /\ \A i \in Ids \ {n} : state'[i] = state[i] /\ from'[i] = from[i]
    BY <1>1 DEF Insert, IInv, TypeOK
<1>4. ~moved => issuing.date = renewsAt
    BY DEF Insert, IInv, ReadIsCurrentOrTaken
<1>5. ~moved => \A i \in Ids : state[i] # "unpaid"
    BY <1>4 DEF Insert, IInv, OneUnpaid, Taken, Live
<1>6. PaidPeriodsDisjoint'
    BY <1>1, <1>2, <1>3 DEF IInv, PaidPeriodsDisjoint
<1>7. PaidIsCovered'
    BY <1>1, <1>2, <1>3 DEF IInv, PaidIsCovered
<1>8. OneUnpaid'
    BY <1>1, <1>2, <1>3, <1>4, <1>5 DEF IInv, OneUnpaid
<1>9. ReadIsCurrentOrTaken'
    BY DEF Insert, ReadIsCurrentOrTaken, IInv, TypeOK
<1> QED
    BY <1>6, <1>7, <1>8, <1>9 DEF IInv

(* The paid invoice was for the current date, and the new date is beyond    *)
(* its period: what was read before is taken from now on.                  *)
LEMMA SettleStep ==
    ASSUME NEW k \in Ids, IInv, TypeOK', Settle(k)
    PROVE  IInv'
<1>1. /\ state[k] = "unpaid" /\ state'[k] = "paid"
      /\ \A i \in Ids \ {k} : state'[i] = state[i]
      /\ UNCHANGED <<moved, from, issuing>>
    BY DEF Settle, IInv, TypeOK
<1>2. renewsAt \in Nat /\ renewsAt' \in Nat /\ renewsAt + Period <= renewsAt'
    BY ExtendedMoves DEF Settle, IInv, TypeOK
<1>3. \A i \in Ids : from[i] \in Nat
    BY DEF IInv, TypeOK
<1>4. ~moved => /\ from[k] = renewsAt
               /\ \A i \in Ids : state[i] = "unpaid" => i = k
    BY <1>1 DEF IInv, OneUnpaid
<1>5. ~moved => \A i \in Ids : state[i] = "paid" => from[i] + Period <= renewsAt
    BY DEF IInv, PaidIsCovered
<1>6. PaidPeriodsDisjoint'
    BY <1>1, <1>3, <1>4, <1>5 DEF IInv, PaidPeriodsDisjoint
<1>7. PaidIsCovered'
    BY <1>1, <1>2, <1>3, <1>4, <1>5 DEF PaidIsCovered
<1>8. OneUnpaid'
    BY <1>1, <1>4 DEF OneUnpaid
<1>9. ReadIsCurrentOrTaken'
    <2> SUFFICES ASSUME ~moved, issuing.at = "insert" PROVE Taken(issuing.date)'
        BY <1>1 DEF ReadIsCurrentOrTaken
    <2>1. CASE issuing.date = renewsAt
        BY <2>1, <1>1, <1>4 DEF Taken, Live
    <2>2. CASE Taken(issuing.date)
        BY <2>2, <1>1 DEF Taken, Live
    <2> QED BY <2>1, <2>2 DEF IInv, ReadIsCurrentOrTaken
<1> QED
    BY <1>6, <1>7, <1>8, <1>9 DEF IInv

(* A canceled invoice was the open one, so a date read before is current.  *)
LEMMA CancelStep ==
    ASSUME NEW k \in Ids, IInv, TypeOK', Cancel(k)
    PROVE  IInv'
<1>1. /\ state[k] = "unpaid" /\ state'[k] = "canceled"
      /\ \A i \in Ids \ {k} : state'[i] = state[i]
      /\ UNCHANGED <<renewsAt, moved, from, issuing>>
    BY DEF Cancel, IInv, TypeOK
<1>2. ReadIsCurrentOrTaken'
    <2> SUFFICES ASSUME ~moved, issuing.at = "insert", issuing.date # renewsAt
                 PROVE  Taken(issuing.date)'
        BY <1>1 DEF ReadIsCurrentOrTaken
    <2>1. PICK i \in Ids : Live(i) /\ from[i] = issuing.date
        BY DEF IInv, ReadIsCurrentOrTaken, Taken
    <2>2. i # k
        BY <1>1, <2>1 DEF IInv, OneUnpaid
    <2> QED BY <1>1, <2>1, <2>2 DEF Taken, Live
<1> QED
    BY <1>1, <1>2 DEF IInv, PaidPeriodsDisjoint, PaidIsCovered, OneUnpaid

(* Every step keeps the inductive invariant.                                *)
LEMMA InvStep == IInv /\ [Next]_vars => IInv'
<1> SUFFICES ASSUME IInv, [Next]_vars PROVE IInv'
    OBVIOUS
<1>0. TypeOK'
    BY TypeStep DEF IInv
<1> USE <1>0
<1>1. CASE IssueRead
    BY <1>1 DEF IssueRead, invoiceVars, IInv, TypeOK, PaidPeriodsDisjoint,
       PaidIsCovered, OneUnpaid, ReadIsCurrentOrTaken
<1>2. CASE Insert
    BY <1>2, InsertStep
<1>3. ASSUME NEW i \in Ids, Settle(i) PROVE IInv'
    BY <1>3, SettleStep
<1>4. ASSUME NEW i \in Ids, Cancel(i) PROVE IInv'
    BY <1>4, CancelStep
<1>5. ASSUME NEW date \in 0 .. LastDay, Reschedule(date) PROVE IInv'
    BY <1>5 DEF Reschedule, IInv, PaidPeriodsDisjoint, PaidIsCovered, OneUnpaid,
       ReadIsCurrentOrTaken
<1>6. CASE PassOver \/ TellIssued \/ Crash
    BY <1>6, QuietStep DEF PassOver, TellIssued, Crash, invoiceVars, Idle
<1>7. CASE AlertStep \/ NewDay \/ UNCHANGED vars
    BY <1>7, QuietStep DEF AlertStep, AlertRead, Claim, NothingToSay, Remind, NewDay,
       vars, issueVars, invoiceVars
<1> QED
    BY <1>1, <1>2, <1>3, <1>4, <1>5, <1>6, <1>7 DEF Next, IssueStep

(* The inductive invariant holds when the program starts.                   *)
LEMMA InvInit == Init => IInv
BY TypeInit DEF Init, IInv, PaidPeriodsDisjoint, PaidIsCovered, OneUnpaid,
   ReadIsCurrentOrTaken, Idle, Ids

(* The inductive invariant holds in every reachable state. *)
THEOREM Invariance == Spec => []IInv
BY InvInit, InvStep, PTL DEF Spec

(* No day is billed twice as long as the date is not moved by hand, for     *)
(* every period and however the cycles, payments and cancellations meet.   *)
THEOREM NoDayTwice == Spec => []PaidPeriodsDisjoint
<1>1. IInv => PaidPeriodsDisjoint
    BY DEF IInv
<1> QED BY <1>1, Invariance, PTL

(* What was paid is delivered: the date lies behind every paid period.     *)
THEOREM PaidDelivered == Spec => []PaidIsCovered
<1>1. IInv => PaidIsCovered
    BY DEF IInv
<1> QED BY <1>1, Invariance, PTL

(* The customer has one open renewal invoice, that of the current date.    *)
THEOREM OneOpenInvoice == Spec => []OneUnpaid
<1>1. IInv => OneUnpaid
    BY DEF IInv
<1> QED BY <1>1, Invariance, PTL

-----------------------------------------------------------------------------
(* Of an invoice that is about to be told of, or not issued, nobody heard.  *)
TellsOnce ==
    \A i \in Ids :
        /\ told[i] <= 1
        /\ i > last \/ (i = last /\ issuing.at = "tell") => told[i] = 0

(* The alert cycle has the reminder of d at hand; it is about to send it.   *)
Alerting(d) == alerting.at # "idle" /\ alerting.date = d
Sending(d) == alerting.at = "send" /\ alerting.date = d

(* The alert cycle carries no date that is still to come, and no date to    *)
(* come was reminded of.                                                   *)
NoneAhead ==
    ~moved =>
        /\ alerting.at # "idle" => alerting.date <= renewsAt
        /\ \A d \in Dates : d > renewsAt => reminded[d] = 0

(* Of the current date there is no message without its row, and none is     *)
(* sent after another.                                                     *)
CurrentOnce ==
    ~moved =>
        \A d \in Dates : d = renewsAt =>
            /\ reminded[d] <= 1
            /\ d \notin notices \/ Sending(d) => reminded[d] = 0
            /\ d \notin notices => ~Sending(d)

(* A date that was paid is reminded of once more only by the cycle that read *)
(* it while it was current.                                                *)
PastOnceMore ==
    ~moved =>
        \A d \in Dates : d < renewsAt =>
            reminded[d] <= 2 /\ (Alerting(d) => reminded[d] <= 1)

(* The inductive invariant of the messages.                                 *)
NInv == TypeOK /\ TellsOnce /\ NoneAhead /\ CurrentOnce /\ PastOnceMore

(* The issuing cycle speaks of the newest invoice once.                     *)
LEMMA TellsStep == TypeOK /\ TypeOK' /\ TellsOnce /\ [Next]_vars => TellsOnce'
<1> SUFFICES ASSUME TypeOK, TypeOK', TellsOnce, [Next]_vars PROVE TellsOnce'
    OBVIOUS
<1>0. last \in Nat /\ Ids \subseteq Nat /\ \A i \in Ids : told[i] \in Nat
    <2>1. Ids \subseteq Nat
        BY DEF Ids
    <2>2. last \in Nat /\ \A i \in Ids : told[i] \in Nat
        BY DEF TypeOK
    <2> QED BY <2>1, <2>2
<1>1. CASE Insert
    <2>1. last' = last + 1 /\ told' = told
        BY <1>1 DEF Insert
    <2> QED BY <1>0, <2>1 DEF TellsOnce
<1>2. CASE TellIssued
    <2>1. last \in Ids /\ last' = last /\ issuing'.at = "idle"
        BY <1>2 DEF TellIssued, invoiceVars, TypeOK, Idle, Ids
    <2>2. /\ told'[last] = 1
          /\ \A i \in Ids : i # last => told'[i] = told[i]
        BY <1>2, <2>1 DEF TellIssued, TypeOK, TellsOnce
    <2> QED BY <1>0, <2>1, <2>2 DEF TellsOnce
<1>3. ASSUME UNCHANGED <<told, last>>, issuing'.at = "tell" => issuing.at = "tell"
      PROVE  TellsOnce'
    BY <1>0, <1>3 DEF TellsOnce
<1>4. CASE IssueRead \/ PassOver
    BY <1>3, <1>4 DEF IssueRead, PassOver, invoiceVars, Idle
<1>5. CASE AlertStep
    BY <1>3, <1>5 DEF AlertStep, AlertRead, Claim, NothingToSay, Remind, issueVars, invoiceVars
<1>6. ASSUME NEW i \in Ids, Settle(i) \/ Cancel(i) PROVE TellsOnce'
    BY <1>3, <1>6 DEF Settle, Cancel, issueVars
<1>7. ASSUME NEW date \in 0 .. LastDay, Reschedule(date) PROVE TellsOnce'
    BY <1>3, <1>7 DEF Reschedule, issueVars, invoiceVars
<1>8. CASE NewDay \/ Crash \/ UNCHANGED vars
    BY <1>3, <1>8 DEF NewDay, Crash, vars, issueVars, invoiceVars, Idle
<1> QED BY <1>1, <1>2, <1>4, <1>5, <1>6, <1>7, <1>8 DEF Next, IssueStep

(* The alert cycle reads, claims, sends or has nothing to say.              *)
LEMMA AlertKeeps == NInv /\ TypeOK' /\ AlertStep => NoneAhead' /\ CurrentOnce' /\ PastOnceMore'
<1> SUFFICES ASSUME NInv, TypeOK', AlertStep PROVE NoneAhead' /\ CurrentOnce' /\ PastOnceMore'
    OBVIOUS
<1> USE DEF NInv, TypeOK, NoneAhead, CurrentOnce, PastOnceMore, Alerting, Sending, Idle
<1>0. \A d \in Dates : d \in Nat
    BY DEF Dates
<1>1. CASE AlertRead
    BY <1>0, <1>1 DEF AlertRead
<1>2. CASE Claim
    <2>1. /\ notices' = notices \union {alerting.date} /\ alerting.date \notin notices
          /\ alerting.at = "claim" /\ alerting'.at = "send" /\ alerting'.date = alerting.date
          /\ UNCHANGED <<renewsAt, moved, reminded>>
        BY <1>2 DEF Claim, Claims, issueVars, invoiceVars
    <2>2. renewsAt \in Nat /\ \A d \in Dates : reminded[d] \in Nat
        OBVIOUS
    <2>3. NoneAhead'
        BY <2>1
    <2>4. CurrentOnce'
        BY <2>1
    <2>5. PastOnceMore'
        BY <2>1
    <2> QED BY <2>3, <2>4, <2>5
<1>3. CASE NothingToSay
    BY <1>0, <1>3 DEF NothingToSay
<1>4. CASE Remind
    <2>1. \A d \in Dates : reminded'[d] = IF d = alerting.date THEN reminded[d] + 1 ELSE reminded[d]
        BY <1>4 DEF Remind
    <2> QED BY <1>0, <1>4, <2>1 DEF Remind
<1> QED BY <1>1, <1>2, <1>3, <1>4 DEF AlertStep

(* A payment leaves the date behind: what is being said of it is said once  *)
(* more at most, and of the new date nothing was said.                      *)
LEMMA SettleKeeps ==
    ASSUME NInv, TypeOK', NEW i \in Ids, Settle(i)
    PROVE  NoneAhead' /\ CurrentOnce' /\ PastOnceMore'
<1>1. renewsAt \in Nat /\ renewsAt' \in Nat /\ renewsAt < renewsAt'
    BY ExtendedMoves DEF Settle, NInv, TypeOK
<1>2. moved' = moved /\ reminded' = reminded /\ alerting' = alerting /\ alerting.date \in Nat
    BY DEF Settle, NInv, TypeOK
<1>3. \A d \in Dates : d \in Nat /\ reminded[d] \in Nat
    BY DEF Dates, NInv, TypeOK
<1>4. NoneAhead'
    BY <1>1, <1>2, <1>3 DEF NInv, NoneAhead
<1>5. CurrentOnce'
    BY <1>1, <1>2, <1>3 DEF NInv, NoneAhead, CurrentOnce, Sending
<1>6. PastOnceMore'
    <2> SUFFICES ASSUME ~moved, NEW d \in Dates, d < renewsAt'
                 PROVE  reminded[d] <= 2 /\ (Alerting(d) => reminded[d] <= 1)
        BY <1>2 DEF PastOnceMore, Alerting
    <2>1. CASE d < renewsAt
        BY <2>1 DEF NInv, PastOnceMore
    <2>2. CASE d = renewsAt
        BY <1>3, <2>2 DEF NInv, CurrentOnce
    <2>3. CASE d > renewsAt
        BY <1>3, <2>3 DEF NInv, NoneAhead
    <2> QED BY <1>1, <1>3, <2>1, <2>2, <2>3
<1> QED BY <1>4, <1>5, <1>6

(* Every other step leaves the alerts alone, ends the cycle, or moves the   *)
(* date by hand.                                                            *)
LEMMA OthersKeep ==
    ASSUME NInv, UNCHANGED <<notices, reminded>>,
           moved' \/ UNCHANGED <<renewsAt, moved>>,
           alerting' = alerting \/ alerting' = Idle
    PROVE  NoneAhead' /\ CurrentOnce' /\ PastOnceMore'
BY DEF NInv, TypeOK, NoneAhead, CurrentOnce, PastOnceMore, Alerting, Sending, Idle, Dates

(* Every step keeps the invariant of the messages.                          *)
LEMMA NInvStep == NInv /\ [Next]_vars => NInv'
<1> SUFFICES ASSUME NInv, [Next]_vars PROVE NInv'
    OBVIOUS
<1>0. TypeOK' /\ TellsOnce'
    BY TypeStep, TellsStep DEF NInv
<1>1. CASE AlertStep
    BY <1>0, <1>1, AlertKeeps DEF NInv
<1>2. ASSUME NEW i \in Ids, Settle(i) PROVE NInv'
    BY <1>0, <1>2, SettleKeeps DEF NInv
<1>3. CASE IssueStep
    BY <1>0, <1>3, OthersKeep DEF NInv, IssueStep, IssueRead, PassOver, Insert, TellIssued, alertVars
<1>4. ASSUME NEW i \in Ids, Cancel(i) PROVE NInv'
    BY <1>0, <1>4, OthersKeep DEF NInv, Cancel, alertVars
<1>5. ASSUME NEW date \in 0 .. LastDay, Reschedule(date) PROVE NInv'
    BY <1>0, <1>5, OthersKeep DEF NInv, Reschedule, alertVars
<1>6. CASE NewDay \/ Crash \/ UNCHANGED vars
    BY <1>0, <1>6, OthersKeep DEF NInv, NewDay, Crash, vars, alertVars
<1> QED BY <1>1, <1>2, <1>3, <1>4, <1>5, <1>6 DEF Next

(* "Every alert once": the customer hears of an invoice at most once and is *)
(* reminded of a date at most once, or once more of a date paid meanwhile,  *)
(* whatever payments, restarts and the two cycles do in between.            *)
THEOREM NeverTwice == Spec => []NoticedOnce
<1>1. Init => NInv
    <2>1. Init => TypeOK
        BY TypeInit
    <2> QED
        BY <2>1 DEF Init, NInv, TellsOnce, NoneAhead, CurrentOnce, PastOnceMore, Alerting, Sending, Idle
<1>2. NInv => NoticedOnce
    <2> SUFFICES ASSUME NInv, NEW d \in Dates, ~moved
                 PROVE  ToldOnce /\ reminded[d] <= IF d < renewsAt THEN 2 ELSE 1
        BY DEF NoticedOnce, RemindedOnce, NInv, TellsOnce, ToldOnce
    <2>1. d \in Nat /\ renewsAt \in Nat /\ reminded[d] \in Nat
        BY DEF NInv, TypeOK, Dates
    <2> QED
        BY <2>1 DEF NInv, TellsOnce, ToldOnce, NoneAhead, CurrentOnce, PastOnceMore
<1> QED BY <1>1, <1>2, NInvStep, PTL DEF Spec
=============================================================================
