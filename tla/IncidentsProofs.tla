-------------------------- MODULE IncidentsProofs ---------------------------
(***************************************************************************)
(* Proofs about Incidents: of one outage one row is open, its alerts are   *)
(* bounded by what happened, the noise it causes is not alerted, and one   *)
(* recovery follows it, for every limit of a batch, every set of muted     *)
(* kinds and every number of events.                                       *)
(***************************************************************************)
EXTENDS Incidents, SequenceTheorems, FiniteSetTheorems, WellFoundedInduction, TLAPS

(* A non-empty set of numbers has a smallest.                               *)
LEMMA Least ==
    ASSUME NEW B \in SUBSET Nat, B # {}
    PROVE  \E n \in B : \A m \in B : n <= m
<1>1. PICK n \in B : \A m \in B : <<m, n>> \notin OpToRel(<, Nat)
    BY NatLessThanWellFounded, WFMin
<1>2. \A m \in B : ~ m < n
    BY <1>1 DEF OpToRel
<1> QED BY <1>2

(* Of a kind at most one row is open. *)
OneOpen ==
    \A i, j \in Ids : rows[i].open /\ rows[j].open /\ rows[i].kind = rows[j].kind => i = j

(* The rows of a batch are still to be alerted; the foremost may have been. *)
BatchKept == cpc \in {"tell", "mark"} => \A i \in batch : rows[i].told # "recent"

(* A row that is told or about to be marked has had one alert more than the *)
(* events account for.                                                      *)
Alerted(i) == rows[i].told = "recent" \/ (cpc = "mark" /\ i = Foremost)

(* The alerts of a row stay within what the events account for.            *)
AlertsKept ==
    \A i \in Ids : rows[i].alerts <= IF Alerted(i) THEN events + 1 ELSE events

(* Where the check stands between its verdict and the silent agent's row.   *)
Between == cpc \in {"agent", "recover_agent"}

(* Without a restart one of the two rows is closed, and the row of the      *)
(* outage while the check is about to open the other.                      *)
NoiseKept ==
    crashes = 0 =>
        /\ ~Between => OpenOf("down") = {} \/ OpenOf("agent_lost") = {}
        /\ Between /\ view.verdict = "other" => OpenOf("down") = {}

(* The row whose recovery a cycle is about to send.                         *)
Due(i) == ~rows[i].open /\ rows[i].told # "never" /\ rows[i].recoveries = 0

(* Each cycle has noted a row of its own kinds whose recovery is due.       *)
RecoveryKept ==
    /\ cpc \in {"recover_agent", "recover_dispatch"} => recovering.check # 0
    /\ tpc = "recover" => recovering.threshold # 0
    /\ recovering.check # 0 =>
           Due(recovering.check) /\ rows[recovering.check].kind # "cpu"
    /\ recovering.threshold # 0 =>
           Due(recovering.threshold) /\ rows[recovering.threshold].kind = "cpu"

(* The inductive invariant.                                                *)
IInv ==
    /\ TypeOK /\ OneOpen /\ BatchKept /\ AlertsKept /\ NoiseKept
    /\ RecoveryKept /\ RecoveredOnce

-----------------------------------------------------------------------------
(* A row that is replaced leaves the others as they are.                    *)
Put(s, i, r) == [s EXCEPT ![i] = r]

(* What a sequence with a replaced row is. *)
LEMMA Updated ==
    ASSUME NEW s \in Seq(Rows), NEW i \in 1 .. Len(s), NEW r \in Rows
    PROVE  /\ Put(s, i, r) \in Seq(Rows) /\ Len(Put(s, i, r)) = Len(s) /\ Put(s, i, r)[i] = r
           /\ \A j \in 1 .. Len(s) : j # i => Put(s, i, r)[j] = s[j]
BY ExceptSeq DEF Put

(* The same of a row that is added.                                         *)
LEMMA Added ==
    ASSUME NEW s \in Seq(Rows), NEW r \in Rows, NEW t, t = Append(s, r)
    PROVE  /\ t \in Seq(Rows) /\ Len(t) = Len(s) + 1 /\ t[Len(s) + 1] = r
           /\ \A j \in 1 .. Len(s) : t[j] = s[j]
BY AppendProperties

(* What the rows are.                                                       *)
LEMMA RowsAre ==
    ASSUME TypeOK
    PROVE  /\ rows \in Seq(Rows) /\ Len(rows) \in Nat /\ Ids \subseteq Nat
           /\ \A i \in Ids : rows[i] \in Rows
<1>1. rows \in Seq(Rows)
    BY DEF TypeOK
<1> QED BY <1>1, LenProperties, ElementOfSeq DEF Ids

(* The foremost row of a batch is one of it.                                *)
LEMMA ForemostIs ==
    ASSUME TypeOK, batch # {}
    PROVE  Foremost \in batch /\ Foremost \in Ids
<1>1. batch \subseteq Nat /\ batch \subseteq Ids
    BY RowsAre DEF TypeOK
<1>2. \E i \in batch : \A j \in batch : i <= j
    BY <1>1, Least
<1> QED BY <1>1, <1>2 DEF Foremost

(* A step that replaces one row.                                            *)
Puts(i, r) == rows' = Put(rows, i, r)

(* The rows after it. *)
LEMMA PutDoes ==
    ASSUME TypeOK, NEW i \in Ids, NEW r \in Rows, Puts(i, r)
    PROVE  /\ rows' \in Seq(Rows) /\ Len(rows') = Len(rows) /\ Ids' = Ids /\ rows'[i] = r
           /\ \A j \in Ids : j # i => rows'[j] = rows[j]
<1>1. rows \in Seq(Rows) /\ i \in 1 .. Len(rows) /\ rows' = Put(rows, i, r)
    BY RowsAre DEF Ids, Puts
<1>2. /\ Put(rows, i, r) \in Seq(Rows) /\ Len(Put(rows, i, r)) = Len(rows)
      /\ Put(rows, i, r)[i] = r
      /\ \A j \in 1 .. Len(rows) : j # i => Put(rows, i, r)[j] = rows[j]
    BY <1>1, Updated
<1> QED BY <1>1, <1>2 DEF Ids

(* The latest open row of a kind is its only one.                           *)
LEMMA LatestIs ==
    ASSUME TypeOK, OneOpen, NEW k, OpenOf(k) # {}
    PROVE  Latest(k) \in Ids /\ rows[Latest(k)].open /\ rows[Latest(k)].kind = k
           /\ OpenOf(k) = {Latest(k)}
<1>1. PICK i \in OpenOf(k) : TRUE
    OBVIOUS
<1>2. OpenOf(k) = {i}
    BY <1>1 DEF OpenOf, OneOpen
<1>3. i \in Nat
    BY <1>1, RowsAre DEF OpenOf
<1>4. Latest(k) = i
    BY <1>2, <1>3 DEF Latest
<1> QED BY <1>1, <1>2, <1>4 DEF OpenOf

-----------------------------------------------------------------------------
(* What opening, closing and the panel may do to the rows: no message.      *)
Quiet ==
    /\ rows' \in Seq(Rows) /\ Len(rows) <= Len(rows')
    /\ \A i \in Ids :
          /\ rows'[i].kind = rows[i].kind /\ rows'[i].told = rows[i].told
          /\ rows'[i].alerts = rows[i].alerts /\ rows'[i].recoveries = rows[i].recoveries
          /\ rows'[i].open => rows[i].open
          /\ rows[i].acked => rows'[i].acked
    /\ \A i \in Ids' \ Ids :
          rows'[i].told = "never" /\ rows'[i].alerts = 0 /\ rows'[i].recoveries = 0

(* Of the other kinds the same rows are open as before.                     *)
OnlyOf(k) == \A q \in Kinds \ {k} : OpenOf(q)' = OpenOf(q)

(* Nothing happens to the rows.                                             *)
LEMMA RowsStay ==
    ASSUME TypeOK, OneOpen, rows' = rows
    PROVE  Quiet /\ OneOpen' /\ \A q : OpenOf(q)' = OpenOf(q)
<1>1. Ids' = Ids
    BY DEF Ids
<1> QED BY <1>1, RowsAre DEF Quiet, OneOpen, OpenOf

(* Opening an incident adds a row only where none of the kind is open.      *)
LEMMA OpenDoes ==
    ASSUME TypeOK, OneOpen, NEW k \in Kinds, OpenIncident(k)
    PROVE  Quiet /\ OneOpen' /\ OnlyOf(k)
<1>1. CASE OpenOf(k) # {}
    <2>1. rows' = rows
        BY <1>1 DEF OpenIncident
    <2> QED BY <2>1, RowsStay DEF OnlyOf
<1>2. CASE OpenOf(k) = {}
    <2>1. rows' = Append(rows, NewRow(k))
        BY <1>2 DEF OpenIncident
    <2>2. NewRow(k) \in Rows /\ rows \in Seq(Rows) /\ Len(rows) \in Nat
        BY RowsAre DEF NewRow, Rows
    <2>3. /\ rows' \in Seq(Rows) /\ Len(rows') = Len(rows) + 1
          /\ rows'[Len(rows) + 1] = NewRow(k) /\ \A j \in 1 .. Len(rows) : rows'[j] = rows[j]
        BY <2>1, <2>2, Added
    <2>4. Ids' = Ids \cup {Len(rows) + 1} /\ Len(rows) + 1 \notin Ids
        BY <2>2, <2>3 DEF Ids
    <2>5. \A j \in Ids : rows'[j] = rows[j] /\ (rows[j].open => rows[j].kind # k)
        BY <1>2, <2>3 DEF Ids, OpenOf
    <2>6. Quiet
        BY <2>2, <2>3, <2>4, <2>5 DEF Quiet, NewRow
    <2>7. OneOpen'
        BY <2>3, <2>4, <2>5 DEF OneOpen, NewRow
    <2>8. OnlyOf(k)
        BY <2>3, <2>4, <2>5 DEF OnlyOf, OpenOf, NewRow
    <2> QED BY <2>6, <2>7, <2>8
<1> QED BY <1>1, <1>2

(* A row that only loses its being open.                                    *)
Shuts(i) == rows' = [rows EXCEPT ![i].open = FALSE]

(* The rows after it: one is closed, the others are as they were.          *)
LEMMA ShutDoes ==
    ASSUME TypeOK, OneOpen, NEW i \in Ids, Shuts(i)
    PROVE  /\ Quiet /\ OneOpen' /\ Ids' = Ids /\ ~rows'[i].open
           /\ \A j \in Ids \ {i} : rows'[j] = rows[j]
<1>1. PICK r \in Rows : /\ r = [rows[i] EXCEPT !.open = FALSE]
                        /\ ~r.open /\ r.acked = rows[i].acked /\ r.kind = rows[i].kind
                        /\ r.told = rows[i].told
                        /\ r.alerts = rows[i].alerts /\ r.recoveries = rows[i].recoveries
    <2> DEFINE q == [rows[i] EXCEPT !.open = FALSE]
    <2>1. /\ q \in Rows /\ ~q.open /\ q.acked = rows[i].acked /\ q.kind = rows[i].kind
          /\ q.told = rows[i].told
          /\ q.alerts = rows[i].alerts /\ q.recoveries = rows[i].recoveries
        BY RowsAre DEF Rows
    <2> QED BY <2>1
<1>2. Puts(i, r)
    BY <1>1 DEF Shuts, Puts, Put
<1>3. /\ rows' \in Seq(Rows) /\ Len(rows') = Len(rows) /\ Ids' = Ids /\ rows'[i] = r
      /\ \A j \in Ids : j # i => rows'[j] = rows[j]
    BY <1>2, PutDoes
<1>4. Ids' = Ids /\ Len(rows) \in Nat
    BY <1>3, RowsAre
<1>5. /\ ~rows'[i].open /\ rows'[i].acked = rows[i].acked /\ rows'[i].kind = rows[i].kind
      /\ rows'[i].told = rows[i].told
      /\ rows'[i].alerts = rows[i].alerts /\ rows'[i].recoveries = rows[i].recoveries
    BY <1>1, <1>3
<1>6. \A j \in Ids :
          /\ rows'[j].kind = rows[j].kind /\ rows'[j].told = rows[j].told
          /\ rows'[j].alerts = rows[j].alerts /\ rows'[j].recoveries = rows[j].recoveries
          /\ rows'[j].open => rows[j].open
          /\ rows[j].acked => rows'[j].acked
    BY <1>3, <1>5
<1>7. Quiet
    BY <1>3, <1>4, <1>6 DEF Quiet
<1>8. OneOpen'
    BY <1>4, <1>6 DEF OneOpen
<1> QED BY <1>3, <1>4, <1>5, <1>7, <1>8

(* Closing an incident leaves none of the kind open, and a recovery that    *)
(* follows it is due.                                                       *)
LEMMA CloseDoes ==
    ASSUME TypeOK, OneOpen, RecoveredOnce, NEW k \in Kinds, Close(k)
    PROVE  /\ Quiet /\ OneOpen' /\ OnlyOf(k) /\ OpenOf(k)' = {}
           /\ \A i : Recovers(k) /\ i = Latest(k) => i \in Ids /\ Due(i)' /\ rows'[i].kind = k
<1>1. CASE OpenOf(k) = {}
    <2>1. rows' = rows
        BY <1>1 DEF Close
    <2> QED BY <1>1, <2>1, RowsStay DEF OnlyOf, Recovers
<1>2. CASE OpenOf(k) # {}
    <2>1. PICK i \in Ids : i = Latest(k) /\ rows[i].open /\ rows[i].kind = k /\ OpenOf(k) = {i}
        BY <1>2, LatestIs
    <2>2. Shuts(i)
        BY <1>2, <2>1 DEF Close, Shuts
    <2>3. /\ Quiet /\ OneOpen' /\ Ids' = Ids /\ ~rows'[i].open
          /\ \A j \in Ids \ {i} : rows'[j] = rows[j]
        BY <2>1, <2>2, ShutDoes
    <2>4. /\ rows'[i].kind = k /\ rows'[i].told = rows[i].told
          /\ rows'[i].recoveries = rows[i].recoveries
        BY <2>1, <2>3 DEF Quiet
    <2>5. OpenOf(k)' = {} /\ OnlyOf(k)
        BY <2>1, <2>3, <2>4 DEF OpenOf, OnlyOf
    <2>6. rows[i].recoveries = 0
        BY <2>1, RowsAre DEF RecoveredOnce, Rows
    <2>7. Recovers(k) => ~rows'[i].open /\ rows'[i].told # "never" /\ rows'[i].recoveries = 0
        BY <2>1, <2>3, <2>4, <2>6 DEF Recovers
    <2>8. Recovers(k) => Due(i)'
        BY <2>7 DEF Due
    <2> QED BY <2>1, <2>3, <2>4, <2>5, <2>8
<1> QED BY <1>1, <1>2

-----------------------------------------------------------------------------
(* The check of the server, branch by branch: an outage, or a server that   *)
(* is reachable and whose outage, if any, is over.                          *)
Outage == view.verdict = "none" /\ (Close("down") \/ OpenIncident("down"))
          /\ cpc' = "agent" /\ UNCHANGED recovering
(* An outage of a kind is over: its recovery follows if it was alerted.     *)
Over(k, next, recover) ==
    /\ Close(k)
    /\ \/ ~Recovers(k) /\ cpc' = next /\ UNCHANGED recovering
       \/ /\ Recovers(k) /\ cpc' = recover
          /\ recovering' = [recovering EXCEPT !.check = Latest(k)]

(* The check of the server is one of the two.                               *)
LEMMA CheckDownIs ==
    ASSUME TypeOK, CheckDown
    PROVE  Outage \/ (view.verdict # "none" /\ Over("down", "agent", "recover_agent"))
<1>1. CASE view.verdict = "none" /\ view.shut
    BY <1>1 DEF CheckDown, CheckGoTo, Outage
<1>2. CASE view.verdict = "none" /\ ~view.shut
    BY <1>2 DEF CheckDown, CheckGoTo, Outage
<1>3. CASE view.verdict # "none"
    BY <1>3 DEF CheckDown, CheckGoTo, Over
<1> QED BY <1>1, <1>2, <1>3

(* The check of the address, likewise.                                      *)
LEMMA CheckIpIs ==
    ASSUME CheckIp
    PROVE  \/ (rows' = rows \/ OpenIncident("ip_down")) /\ cpc' = "dispatch" /\ UNCHANGED recovering
           \/ Over("ip_down", "dispatch", "recover_dispatch")
<1>1. CASE status \in {"down", "maintenance"}
    BY <1>1 DEF CheckIp, CheckGoTo
<1>2. CASE status \notin {"down", "maintenance"} /\ ~ipUp
    BY <1>2 DEF CheckIp, CheckGoTo
<1>3. CASE status \notin {"down", "maintenance"} /\ ipUp
    BY <1>3 DEF CheckIp, CheckGoTo, Over
<1> QED BY <1>1, <1>2, <1>3

(* And the threshold.                                                       *)
LEMMA ThresholdActIs ==
    ASSUME TypeOK, ThresholdAct
    PROVE  \/ (rows' = rows \/ OpenIncident("cpu")) /\ tpc' = "idle" /\ UNCHANGED recovering
           \/ /\ Close("cpu")
              /\ \/ ~Recovers("cpu") /\ tpc' = "idle" /\ UNCHANGED recovering
                 \/ /\ Recovers("cpu") /\ tpc' = "recover"
                    /\ recovering' = [recovering EXCEPT !.threshold = Latest("cpu")]
<1>0. heat \in {"low", "middle", "high"}
    BY DEF TypeOK, Loads
<1>1. CASE heat = "high"
    BY <1>1 DEF ThresholdAct
<1>2. CASE heat = "middle"
    BY <1>2 DEF ThresholdAct
<1>3. CASE heat = "low"
    BY <1>3 DEF ThresholdAct
<1> QED BY <1>0, <1>1, <1>2, <1>3

(* An acknowledgement changes nothing that counts here.                     *)
LEMMA AckDoes ==
    ASSUME TypeOK, OneOpen, NEW i \in Ids, Ack(i)
    PROVE  Quiet /\ OneOpen' /\ \A q : OpenOf(q)' = OpenOf(q)
<1>1. PICK r \in Rows : /\ r = [rows[i] EXCEPT !.acked = TRUE]
                        /\ r.open = rows[i].open /\ r.acked /\ r.kind = rows[i].kind
                        /\ r.told = rows[i].told
                        /\ r.alerts = rows[i].alerts /\ r.recoveries = rows[i].recoveries
    <2> DEFINE q == [rows[i] EXCEPT !.acked = TRUE]
    <2>1. /\ q \in Rows /\ q.open = rows[i].open /\ q.acked /\ q.kind = rows[i].kind
          /\ q.told = rows[i].told
          /\ q.alerts = rows[i].alerts /\ q.recoveries = rows[i].recoveries
        BY RowsAre DEF Rows
    <2> QED BY <2>1
<1>2. Puts(i, r)
    BY <1>1 DEF Ack, Puts, Put
<1>3. /\ rows' \in Seq(Rows) /\ Len(rows') = Len(rows) /\ Ids' = Ids /\ rows'[i] = r
      /\ \A j \in Ids : j # i => rows'[j] = rows[j]
    BY <1>2, PutDoes
<1>4. \A j \in Ids :
          /\ rows'[j].kind = rows[j].kind /\ rows'[j].told = rows[j].told
          /\ rows'[j].alerts = rows[j].alerts /\ rows'[j].recoveries = rows[j].recoveries
          /\ rows'[j].open = rows[j].open
          /\ rows[j].acked => rows'[j].acked
    BY <1>1, <1>3
<1>5. Quiet
    BY <1>3, <1>4, RowsAre DEF Quiet
<1> QED BY <1>3, <1>4, <1>5 DEF OneOpen, OpenOf

(* The steps that send, mark or make due; all others are quiet.            *)
Loud == Mute \/ Tell \/ Mark \/ RecoverCheck \/ RecoverThreshold \/ \E i \in Ids : FallDue(i)

(* They open and close rows, of each kind one.                              *)
LEMMA QuietStep ==
    ASSUME TypeOK, OneOpen, RecoveredOnce, [Next]_vars, ~Loud
    PROVE  Quiet /\ OneOpen'
<1>0. {"down", "agent_lost", "ip_down", "cpu"} = Kinds
    BY DEF Kinds
<1>1. CASE CheckDown
    BY <1>0, <1>1, CheckDownIs, OpenDoes, CloseDoes DEF Outage, Over
<1>2. CASE CheckAgent
    BY <1>0, <1>2, OpenDoes, CloseDoes DEF CheckAgent
<1>3. CASE CheckIp
    BY <1>0, <1>3, CheckIpIs, RowsStay, OpenDoes, CloseDoes DEF Over
<1>4. CASE ThresholdAct
    BY <1>0, <1>4, ThresholdActIs, RowsStay, OpenDoes, CloseDoes
<1>5. ASSUME NEW i \in Ids, Ack(i) PROVE Quiet /\ OneOpen'
    BY <1>5, AckDoes
<1>6. ASSUME NEW i \in Ids, AdminResolve(i) PROVE Quiet /\ OneOpen'
    BY <1>6, ShutDoes DEF AdminResolve, Shuts
<1>7. CASE CheckRead \/ Judge \/ DispatchRead \/ ThresholdRead \/ Report \/ Change \/ Crash
    BY <1>7, RowsStay DEF CheckRead, Judge, DispatchRead, ThresholdRead, Report, Change, Crash
<1>8. ASSUME NEW s \in {"up", "maintenance"}, SetStatus(s) PROVE Quiet /\ OneOpen'
    BY <1>8, RowsStay DEF SetStatus
<1>9. CASE UNCHANGED vars
    BY <1>9, RowsStay DEF vars
<1> QED BY <1>1, <1>2, <1>3, <1>4, <1>5, <1>6, <1>7, <1>8, <1>9 DEF Next, CheckStep, ThresholdStep, Loud

(* A loud step touches one row, and neither its kind nor its being open.    *)
Touches(i) ==
    /\ rows' \in Seq(Rows) /\ Len(rows') = Len(rows) /\ Ids' = Ids
    /\ \A j \in Ids \ {i} : rows'[j] = rows[j]
    /\ rows'[i].kind = rows[i].kind /\ rows'[i].open = rows[i].open
    /\ rows'[i].acked = rows[i].acked

(* It leaves the same rows open.                                            *)
LEMMA TouchLeaves ==
    ASSUME OneOpen, NEW i \in Ids, Touches(i)
    PROVE  OneOpen' /\ \A q : OpenOf(q)' = OpenOf(q)
<1>1. \A j \in Ids : rows'[j].kind = rows[j].kind /\ rows'[j].open = rows[j].open
    BY DEF Touches
<1> QED BY <1>1 DEF Touches, OneOpen, OpenOf

(* What a dispatch has taken is marked, and not sent again.                 *)
LEMMA MarkDoes ==
    ASSUME TypeOK, Mute \/ Mark
    PROVE  \E i \in Ids :
              /\ Touches(i) /\ i = Foremost /\ i \in batch /\ rows'[i].told = "recent"
              /\ rows'[i].alerts = rows[i].alerts /\ rows'[i].recoveries = rows[i].recoveries
<1>1. PICK i \in Ids : i = Foremost /\ i \in batch
    BY ForemostIs DEF Mute, Mark, TypeOK
<1>2. PICK r \in Rows : /\ r = [rows[i] EXCEPT !.told = "recent"]
                        /\ r.open = rows[i].open /\ r.acked = rows[i].acked
                        /\ r.kind = rows[i].kind /\ r.told = "recent"
                        /\ r.alerts = rows[i].alerts /\ r.recoveries = rows[i].recoveries
    <2> DEFINE q == [rows[i] EXCEPT !.told = "recent"]
    <2>1. /\ q \in Rows /\ q.open = rows[i].open /\ q.acked = rows[i].acked
          /\ q.kind = rows[i].kind /\ q.told = "recent"
          /\ q.alerts = rows[i].alerts /\ q.recoveries = rows[i].recoveries
        BY RowsAre DEF Rows
    <2> QED BY <2>1
<1>3. Puts(i, r)
    BY <1>1, <1>2 DEF Mute, Mark, Puts, Put
<1>4. /\ rows' \in Seq(Rows) /\ Len(rows') = Len(rows) /\ Ids' = Ids /\ rows'[i] = r
      /\ \A j \in Ids : j # i => rows'[j] = rows[j]
    BY <1>3, PutDoes
<1>5. Touches(i)
    BY <1>2, <1>4 DEF Touches
<1> QED BY <1>1, <1>2, <1>4, <1>5

(* An alert goes out, or no channel takes it.                               *)
LEMMA TellDoes ==
    ASSUME TypeOK, Tell
    PROVE  \E i \in Ids :
              /\ i = Foremost /\ i \in batch
              /\ \/ rows' = rows /\ events' = events + 1
                 \/ /\ Touches(i) /\ events' = events
                    /\ rows'[i].told = rows[i].told /\ rows'[i].recoveries = rows[i].recoveries
                    /\ rows'[i].alerts = rows[i].alerts + 1
<1>1. PICK i \in Ids : i = Foremost /\ i \in batch
    BY ForemostIs DEF Tell, TypeOK
<1>2. CASE Event /\ UNCHANGED rows
    BY <1>1, <1>2 DEF Event
<1>3. CASE rows' = [rows EXCEPT ![Foremost].alerts = @ + 1] /\ UNCHANGED events
    <2>1. PICK r \in Rows : /\ r = [rows[i] EXCEPT !.alerts = @ + 1]
                            /\ r.open = rows[i].open /\ r.acked = rows[i].acked
                            /\ r.kind = rows[i].kind /\ r.told = rows[i].told
                            /\ r.alerts = rows[i].alerts + 1
                            /\ r.recoveries = rows[i].recoveries
        <3> DEFINE q == [rows[i] EXCEPT !.alerts = @ + 1]
        <3>1. rows[i] \in Rows /\ rows[i].alerts + 1 \in Nat
            BY RowsAre DEF Rows
        <3>2. q \in Rows
            BY <3>1 DEF Rows
        <3>3. /\ q.open = rows[i].open /\ q.acked = rows[i].acked /\ q.kind = rows[i].kind
              /\ q.told = rows[i].told
              /\ q.alerts = rows[i].alerts + 1 /\ q.recoveries = rows[i].recoveries
            BY <3>1 DEF Rows
        <3> QED BY <3>2, <3>3
    <2>2. Puts(i, r)
        BY <1>1, <1>3, <2>1 DEF Puts, Put
    <2>3. /\ rows' \in Seq(Rows) /\ Len(rows') = Len(rows) /\ Ids' = Ids /\ rows'[i] = r
          /\ \A j \in Ids : j # i => rows'[j] = rows[j]
        BY <2>2, PutDoes
    <2>4. Touches(i)
        BY <2>1, <2>3 DEF Touches
    <2> QED BY <1>1, <1>3, <2>1, <2>3, <2>4
<1> QED BY <1>2, <1>3 DEF Tell

(* The message that it is over goes out.                                    *)
LEMMA SendDoes ==
    ASSUME TypeOK, NEW i \in Ids, SendRecovery(i)
    PROVE  /\ Touches(i)
           /\ rows'[i].told = rows[i].told /\ rows'[i].alerts = rows[i].alerts
           /\ rows'[i].recoveries = rows[i].recoveries + 1
<1>1. PICK r \in Rows : /\ r = [rows[i] EXCEPT !.recoveries = @ + 1]
                        /\ r.open = rows[i].open /\ r.acked = rows[i].acked
                        /\ r.kind = rows[i].kind /\ r.told = rows[i].told
                        /\ r.alerts = rows[i].alerts /\ r.recoveries = rows[i].recoveries + 1
    <2> DEFINE q == [rows[i] EXCEPT !.recoveries = @ + 1]
    <2>1. rows[i] \in Rows /\ rows[i].recoveries + 1 \in Nat
        BY RowsAre DEF Rows
    <2>2. q \in Rows
        BY <2>1 DEF Rows
    <2>3. /\ q.open = rows[i].open /\ q.acked = rows[i].acked /\ q.kind = rows[i].kind
          /\ q.told = rows[i].told /\ q.alerts = rows[i].alerts
          /\ q.recoveries = rows[i].recoveries + 1
        BY <2>1 DEF Rows
    <2> QED BY <2>2, <2>3
<1>2. Puts(i, r)
    BY <1>1 DEF SendRecovery, Puts, Put
<1>3. /\ rows' \in Seq(Rows) /\ Len(rows') = Len(rows) /\ Ids' = Ids /\ rows'[i] = r
      /\ \A j \in Ids : j # i => rows'[j] = rows[j]
    BY <1>2, PutDoes
<1>4. Touches(i)
    BY <1>1, <1>3 DEF Touches
<1> QED BY <1>1, <1>3, <1>4

(* The repetition of an alert falls due.                                    *)
LEMMA DueDoes ==
    ASSUME TypeOK, NEW i \in Ids, FallDue(i)
    PROVE  /\ Touches(i) /\ rows[i].told = "recent" /\ rows'[i].told = "due"
           /\ rows'[i].alerts = rows[i].alerts /\ rows'[i].recoveries = rows[i].recoveries
<1>1. PICK r \in Rows : /\ r = [rows[i] EXCEPT !.told = "due"]
                        /\ r.open = rows[i].open /\ r.acked = rows[i].acked
                        /\ r.kind = rows[i].kind /\ r.told = "due"
                        /\ r.alerts = rows[i].alerts /\ r.recoveries = rows[i].recoveries
    <2> DEFINE q == [rows[i] EXCEPT !.told = "due"]
    <2>1. /\ q \in Rows /\ q.open = rows[i].open /\ q.acked = rows[i].acked
          /\ q.kind = rows[i].kind /\ q.told = "due"
          /\ q.alerts = rows[i].alerts /\ q.recoveries = rows[i].recoveries
        BY RowsAre DEF Rows
    <2> QED BY <2>1
<1>2. Puts(i, r)
    BY <1>1 DEF FallDue, Puts, Put
<1>3. /\ rows' \in Seq(Rows) /\ Len(rows') = Len(rows) /\ Ids' = Ids /\ rows'[i] = r
      /\ \A j \in Ids : j # i => rows'[j] = rows[j]
    BY <1>2, PutDoes
<1>4. Touches(i)
    BY <1>1, <1>3 DEF Touches
<1> QED BY <1>1, <1>3, <1>4 DEF FallDue

(* The row whose recovery is to be sent is one of the rows.                 *)
LEMMA RecoveringIs ==
    ASSUME TypeOK, RecoveryKept
    PROVE  /\ recovering.check # 0 => recovering.check \in Ids
           /\ recovering.threshold # 0 => recovering.threshold \in Ids
<1>1. recovering.check \in 0 .. Len(rows) /\ recovering.threshold \in 0 .. Len(rows)
    BY DEF TypeOK
<1> QED BY <1>1, RowsAre DEF Ids

-----------------------------------------------------------------------------
(* Every step keeps one open row of a kind.                                 *)
LEMMA OpenStep ==
    ASSUME TypeOK, OneOpen, RecoveredOnce, RecoveryKept, [Next]_vars
    PROVE  OneOpen'
<1>1. CASE ~Loud
    BY <1>1, QuietStep
<1>2. CASE Mute \/ Mark
    BY <1>2, MarkDoes, TouchLeaves
<1>3. CASE Tell
    BY <1>3, TellDoes, TouchLeaves, RowsStay
<1>4. CASE RecoverCheck
    <2>1. recovering.check \in Ids /\ SendRecovery(recovering.check)
        BY <1>4, RecoveringIs DEF RecoverCheck, RecoveryKept
    <2> QED BY <2>1, SendDoes, TouchLeaves
<1>5. CASE RecoverThreshold
    <2>1. recovering.threshold \in Ids /\ SendRecovery(recovering.threshold)
        BY <1>5, RecoveringIs DEF RecoverThreshold, RecoveryKept
    <2> QED BY <2>1, SendDoes, TouchLeaves
<1>6. ASSUME NEW i \in Ids, FallDue(i) PROVE OneOpen'
    BY <1>6, DueDoes, TouchLeaves
<1> QED BY <1>1, <1>2, <1>3, <1>4, <1>5, <1>6 DEF Loud

(* The rows stay rows, and none of them is lost.                            *)
LEMMA RowsKept ==
    ASSUME TypeOK, OneOpen, RecoveredOnce, RecoveryKept, [Next]_vars
    PROVE  rows' \in Seq(Rows) /\ Len(rows) <= Len(rows') /\ Ids \subseteq Ids'
<1>0. Len(rows) \in Nat
    BY RowsAre
<1>1. rows' \in Seq(Rows) /\ Len(rows) <= Len(rows')
    <2>1. CASE ~Loud
        BY <2>1, QuietStep DEF Quiet
    <2>2. CASE Mute \/ Mark
        BY <1>0, <2>2, MarkDoes DEF Touches
    <2>3. CASE Tell
        BY <1>0, <2>3, TellDoes, RowsAre DEF Touches
    <2>4. CASE RecoverCheck
        <3>1. recovering.check \in Ids /\ SendRecovery(recovering.check)
            BY <2>4, RecoveringIs DEF RecoverCheck, RecoveryKept
        <3> QED BY <1>0, <3>1, SendDoes DEF Touches
    <2>5. CASE RecoverThreshold
        <3>1. recovering.threshold \in Ids /\ SendRecovery(recovering.threshold)
            BY <2>5, RecoveringIs DEF RecoverThreshold, RecoveryKept
        <3> QED BY <1>0, <3>1, SendDoes DEF Touches
    <2>6. ASSUME NEW i \in Ids, FallDue(i) PROVE rows' \in Seq(Rows) /\ Len(rows) <= Len(rows')
        BY <1>0, <2>6, DueDoes DEF Touches
    <2> QED BY <2>1, <2>2, <2>3, <2>4, <2>5, <2>6 DEF Loud
<1>2. Len(rows') \in Nat
    BY <1>1, LenProperties
<1> QED BY <1>0, <1>1, <1>2 DEF Ids

(* The row whose recovery is due stays within the rows.                     *)
LEMMA RecoveringStays ==
    ASSUME TypeOK, rows' \in Seq(Rows), Len(rows) <= Len(rows'), NEW n \in 0 .. Len(rows),
           \/ UNCHANGED recovering
           \/ recovering' = [recovering EXCEPT !.check = n]
           \/ recovering' = [recovering EXCEPT !.threshold = n]
           \/ recovering' = [check |-> 0, threshold |-> 0]
    PROVE  recovering' \in [{"check", "threshold"} -> 0 .. Len(rows')]
<1>1. Len(rows) \in Nat /\ Len(rows') \in Nat
    BY RowsAre, LenProperties
<1>2. 0 .. Len(rows) \subseteq 0 .. Len(rows') /\ n \in 0 .. Len(rows') /\ 0 \in 0 .. Len(rows')
    BY <1>1
<1>3. recovering \in [{"check", "threshold"} -> 0 .. Len(rows')]
    BY <1>2 DEF TypeOK
<1>4. CASE recovering' = [check |-> 0, threshold |-> 0]
    BY <1>2, <1>4
<1> HIDE DEF TypeOK
<1> QED BY <1>2, <1>3, <1>4

(* Types of what is not a row. *)
RestOK ==
    /\ condition \in Conditions /\ ipUp \in BOOLEAN /\ load \in Loads /\ shut \in BOOLEAN
    /\ status \in Statuses /\ cpc \in CheckPlaces /\ view \in Views
    /\ tpc \in ThresholdPlaces /\ heat \in Loads
    /\ crashes \in Nat /\ events \in 0 .. MaxEvents

(* Types of the batch. *)
BatchOK == batch \subseteq Ids /\ (cpc \in {"tell", "mark"} => batch # {})

(* Types of what the cycles have noted. *)
RecoveringOK == recovering \in [{"check", "threshold"} -> 0 .. Len(rows)]

(* The type invariant by these parts. *)
LEMMA TypeParts == TypeOK <=> rows \in Seq(Rows) /\ RestOK /\ BatchOK /\ RecoveringOK
BY DEF TypeOK, RestOK, BatchOK, RecoveringOK

(* An event is counted within its bound.                                    *)
LEMMA EventCounts == ASSUME RestOK, Event PROVE events' \in 0 .. MaxEvents
BY BoundsAssumption DEF RestOK, Event, BoundsAssumption

(* Places, views and the world keep their types.                            *)
LEMMA RestStep ==
    ASSUME TypeOK, [Next]_vars
    PROVE  RestOK'
<1>0. Event => events' \in 0 .. MaxEvents
    BY TypeParts, EventCounts
<1>r. RestOK
    BY TypeParts
<1> USE DEF RestOK, Conditions, Loads, Statuses, CheckPlaces, ThresholdPlaces,
            worldVars, checkVars, thresholdVars
<1>1. CASE CheckRead
    <2>1. view' \in Views
        BY <1>r, <1>1 DEF CheckRead, Views, Verdicts
    <2> QED BY <1>r, <1>1, <2>1 DEF CheckRead, CheckGoTo
<1>2. CASE Judge
    <2>1. view' \in Views
        BY <1>r, <1>2 DEF Judge, Views, Verdicts
    <2> QED BY <1>r, <1>2, <2>1 DEF Judge, CheckGoTo
<1>3. CASE CheckDown
    <2>1. cpc' \in {"agent", "recover_agent"}
        BY <1>3, CheckDownIs DEF Outage, Over
    <2>2. UNCHANGED <<worldVars, status, view, thresholdVars, crashes, events>>
        BY <1>3 DEF CheckDown
    <2> QED BY <1>r, <2>1, <2>2
<1>4. CASE CheckAgent
    <2>1. view' \in Views
        BY <1>r, <1>4 DEF CheckAgent, NoView, Views, Verdicts
    <2> QED BY <1>r, <1>4, <2>1 DEF CheckAgent, CheckGoTo
<1>5. CASE CheckIp
    <2>1. cpc' \in {"dispatch", "recover_dispatch"}
        BY <1>5, CheckIpIs DEF Over
    <2>2. UNCHANGED <<worldVars, status, view, thresholdVars, crashes, events>>
        BY <1>5 DEF CheckIp
    <2> QED BY <1>r, <2>1, <2>2
<1>6. CASE RecoverCheck \/ DispatchRead \/ Mute \/ Mark
    BY <1>r, <1>6 DEF RecoverCheck, DispatchRead, Mute, Mark, CheckGoTo, AfterBatch
<1>7. CASE Tell
    BY <1>0, <1>r, <1>7 DEF Tell, CheckGoTo
<1>8. CASE ThresholdRead \/ RecoverThreshold
    BY <1>r, <1>8 DEF ThresholdRead, RecoverThreshold
<1>9. CASE ThresholdAct
    <2>1. tpc' \in {"idle", "recover"}
        BY <1>9, ThresholdActIs
    <2>2. UNCHANGED <<worldVars, status, checkVars, crashes, events>> /\ heat' = "low"
        BY <1>9 DEF ThresholdAct
    <2> QED BY <1>r, <2>1, <2>2
<1>10. ASSUME NEW i \in Ids, Ack(i) \/ AdminResolve(i) \/ FallDue(i) PROVE RestOK'
    BY <1>0, <1>r, <1>10 DEF Ack, AdminResolve, FallDue
<1>11. ASSUME NEW s \in {"up", "maintenance"}, SetStatus(s) PROVE RestOK'
    BY <1>0, <1>r, <1>11 DEF SetStatus
<1>12. CASE Report \/ UNCHANGED vars
    BY <1>r, <1>12 DEF Report, vars
<1>13. CASE Change
    <2>1. condition' \in Conditions /\ load' \in Loads
        BY <1>r, <1>13 DEF Change
    <2>2. ipUp' \in BOOLEAN /\ shut' \in BOOLEAN
        BY <1>r, <1>13 DEF Change
    <2>3. Event /\ UNCHANGED <<status, checkVars, thresholdVars, crashes>>
        BY <1>13 DEF Change
    <2> QED BY <1>0, <1>r, <2>1, <2>2, <2>3
<1>14. CASE Crash
    <2>1. NoView \in Views
        BY DEF NoView, Views, Verdicts
    <2> QED BY <1>0, <1>r, <1>14, <2>1 DEF Crash
<1> HIDE DEF RestOK, Conditions, Loads, Statuses, CheckPlaces, ThresholdPlaces,
             worldVars, checkVars, thresholdVars
<1> QED BY <1>1, <1>2, <1>3, <1>4, <1>5, <1>6, <1>7, <1>8, <1>9, <1>10, <1>11, <1>12, <1>13, <1>14
        DEF Next, CheckStep, ThresholdStep

(* A step keeps the batch, takes a new one, sends its foremost row or loses  *)
(* it in a restart.                                                         *)
LEMMA BatchMoves ==
    ASSUME TypeOK, [Next]_vars
    PROVE  \/ batch' = batch /\ (cpc' = cpc \/ (cpc = "tell" /\ cpc' = "mark")
                                 \/ cpc' \notin {"tell", "mark"})
           \/ DispatchRead
           \/ Mute \/ Mark
           \/ Crash
<1> USE DEF worldVars, checkVars, thresholdVars
<1>1. CASE CheckRead \/ Judge \/ CheckAgent \/ RecoverCheck \/ Tell
    BY <1>1 DEF CheckRead, Judge, CheckAgent, RecoverCheck, Tell, CheckGoTo
<1>2. CASE CheckDown
    BY <1>2, CheckDownIs DEF CheckDown, Outage, Over
<1>3. CASE CheckIp
    BY <1>3, CheckIpIs DEF CheckIp, Over
<1>4. CASE ThresholdStep
    BY <1>4 DEF ThresholdStep, ThresholdRead, ThresholdAct, RecoverThreshold
<1>5. ASSUME NEW i \in Ids, Ack(i) \/ AdminResolve(i) \/ FallDue(i) PROVE UNCHANGED checkVars
    BY <1>5 DEF Ack, AdminResolve, FallDue
<1>6. ASSUME NEW s \in {"up", "maintenance"}, SetStatus(s) PROVE UNCHANGED checkVars
    BY <1>6 DEF SetStatus
<1>7. CASE Report \/ Change \/ UNCHANGED vars
    BY <1>7 DEF Report, Change, vars
<1> QED BY <1>1, <1>2, <1>3, <1>4, <1>5, <1>6, <1>7 DEF Next, CheckStep

(* A batch has only rows, and is not empty while it is sent.                *)
LEMMA BatchOKStep ==
    ASSUME TypeOK, [Next]_vars, Ids \subseteq Ids'
    PROVE  BatchOK'
<1>0. BatchOK /\ batch \subseteq Ids'
    BY TypeParts DEF BatchOK
<1>1. CASE batch' = batch /\ (cpc' = cpc \/ (cpc = "tell" /\ cpc' = "mark")
                               \/ cpc' \notin {"tell", "mark"})
    BY <1>0, <1>1 DEF BatchOK
<1>2. CASE DispatchRead
    BY <1>0, <1>2 DEF DispatchRead, CheckGoTo, BatchOK
<1>3. CASE Mute \/ Mark
    <2>1. batch # {} /\ batch' = batch \ {Foremost} /\ cpc' = AfterBatch
        BY <1>0, <1>3 DEF Mute, Mark, CheckGoTo, BatchOK
    <2>2. batch' = {} => batch = {Foremost}
        BY <2>1, ForemostIs
    <2> QED BY <1>0, <2>1, <2>2 DEF BatchOK, AfterBatch
<1>4. CASE Crash
    BY <1>4 DEF Crash, BatchOK
<1> QED BY <1>1, <1>2, <1>3, <1>4, BatchMoves

(* The row whose recovery is due is one of the rows, after every step.      *)
LEMMA RecoveringOKStep ==
    ASSUME TypeOK, OneOpen, [Next]_vars, rows' \in Seq(Rows), Len(rows) <= Len(rows')
    PROVE  RecoveringOK'
<1> DEFINE Within == recovering' \in [{"check", "threshold"} -> 0 .. Len(rows')]
<1>s. SUFFICES Within
    BY DEF RecoveringOK
<1>0. Len(rows) \in Nat /\ 0 \in 0 .. Len(rows)
    BY RowsAre
<1>1. \A k : Recovers(k) => Latest(k) \in 0 .. Len(rows)
    BY <1>0, LatestIs DEF Recovers, Ids
<1>2. CASE UNCHANGED recovering
    BY <1>0, <1>2, RecoveringStays
<1>3. ASSUME NEW k, Recovers(k), recovering' = [recovering EXCEPT !.check = Latest(k)]
      PROVE  Within
    <2>1. PICK n \in 0 .. Len(rows) : n = Latest(k)
        BY <1>1, <1>3
    <2>2. recovering' = [recovering EXCEPT !.check = n]
        BY <1>3, <2>1
    <2> QED BY <2>2, RecoveringStays
<1>4. ASSUME NEW k, Recovers(k), recovering' = [recovering EXCEPT !.threshold = Latest(k)]
      PROVE  Within
    <2>1. PICK n \in 0 .. Len(rows) : n = Latest(k)
        BY <1>1, <1>4
    <2>2. recovering' = [recovering EXCEPT !.threshold = n]
        BY <1>4, <2>1
    <2> QED BY <2>2, RecoveringStays
<1>5. CASE \/ recovering' = [recovering EXCEPT !.check = 0]
           \/ recovering' = [recovering EXCEPT !.threshold = 0]
    BY <1>0, <1>5, RecoveringStays
<1>6. CASE Crash
    BY <1>0, <1>6, RecoveringStays DEF Crash
<1>7. CASE CheckDown
    BY <1>2, <1>3, <1>7, CheckDownIs DEF Outage, Over
<1>8. CASE CheckIp
    BY <1>2, <1>3, <1>8, CheckIpIs DEF Over
<1>9. CASE ThresholdAct
    BY <1>2, <1>4, <1>9, ThresholdActIs
<1>10. CASE RecoverCheck \/ RecoverThreshold
    BY <1>5, <1>10 DEF RecoverCheck, RecoverThreshold
<1>11. CASE \/ CheckRead \/ Judge \/ CheckAgent \/ DispatchRead \/ Mute \/ Tell \/ Mark
            \/ ThresholdRead \/ Report \/ Change \/ UNCHANGED vars
    BY <1>2, <1>11 DEF CheckRead, Judge, CheckAgent, DispatchRead, Mute, Tell, Mark,
       ThresholdRead, Report, Change, vars
<1>12. ASSUME NEW i \in Ids, Ack(i) \/ AdminResolve(i) \/ FallDue(i) PROVE Within
    BY <1>2, <1>12 DEF Ack, AdminResolve, FallDue
<1>13. ASSUME NEW s \in {"up", "maintenance"}, SetStatus(s) PROVE Within
    BY <1>2, <1>13 DEF SetStatus
<1> HIDE DEF Within
<1> QED BY <1>6, <1>7, <1>8, <1>9, <1>10, <1>11, <1>12, <1>13 DEF Next, CheckStep, ThresholdStep

(* Every step keeps the types.                                              *)
LEMMA TypeStep ==
    ASSUME TypeOK, OneOpen, RecoveredOnce, RecoveryKept, [Next]_vars
    PROVE  TypeOK'
<1>1. rows' \in Seq(Rows) /\ Len(rows) <= Len(rows') /\ Ids \subseteq Ids'
    BY RowsKept
<1>2. RestOK' /\ BatchOK' /\ RecoveringOK'
    BY <1>1, RestStep, BatchOKStep, RecoveringOKStep
<1>3. (TypeOK <=> rows \in Seq(Rows) /\ RestOK /\ BatchOK /\ RecoveringOK)'
    BY TypeParts, PTL
<1> QED BY <1>1, <1>2, <1>3

-----------------------------------------------------------------------------
(* The rows of a batch are not marked before they are sent.                 *)
LEMMA BatchStep ==
    ASSUME TypeOK, OneOpen, RecoveredOnce, RecoveryKept, BatchKept, [Next]_vars
    PROVE  BatchKept'
<1>0. batch \subseteq Ids
    BY DEF TypeOK
<1>1. CASE DispatchRead
    <2>1. batch' \subseteq {i \in Ids : Pending(i)} /\ rows' = rows
        BY <1>1 DEF DispatchRead
    <2> QED BY <2>1 DEF BatchKept, Pending
<1>2. CASE Mute \/ Mark
    <2>1. PICK i \in Ids : Touches(i) /\ i = Foremost
        BY <1>2, MarkDoes
    <2>2. batch' = batch \ {i} /\ cpc \in {"tell", "mark"}
        BY <1>2, <2>1 DEF Mute, Mark
    <2> QED BY <1>0, <2>1, <2>2 DEF BatchKept, Touches
<1>3. CASE Crash
    BY <1>3 DEF Crash, BatchKept
<1>4. CASE /\ \A i \in Ids : rows'[i].told = rows[i].told \/ rows'[i].told = "due"
           /\ ~(DispatchRead \/ Mute \/ Mark \/ Crash)
    <2>1. \/ batch' = batch /\ (cpc' = cpc \/ (cpc = "tell" /\ cpc' = "mark"))
          \/ cpc' \notin {"tell", "mark"}
        BY <1>4, BatchMoves
    <2> QED BY <1>0, <1>4, <2>1 DEF BatchKept
<1>5. CASE ~Loud
    BY <1>1, <1>3, <1>4, <1>5, QuietStep DEF Quiet, Loud
<1>6. CASE RecoverCheck
    BY <1>6 DEF RecoverCheck, CheckGoTo, BatchKept
<1>7. ASSUME NEW i \in Ids, Touches(i), rows'[i].told = rows[i].told \/ rows'[i].told = "due"
      PROVE  BatchKept'
    <2>1. \A j \in Ids : rows'[j].told = rows[j].told \/ rows'[j].told = "due"
        BY <1>7 DEF Touches
    <2> QED BY <1>1, <1>2, <1>3, <1>4, <2>1
<1>8. CASE RecoverThreshold
    <2>1. recovering.threshold \in Ids /\ SendRecovery(recovering.threshold)
        BY <1>8, RecoveringIs DEF RecoverThreshold, RecoveryKept
    <2> QED BY <1>7, <2>1, SendDoes
<1>9. CASE Tell
    <2>1. CASE rows' = rows
        BY <1>1, <1>2, <1>3, <1>4, <2>1
    <2> QED BY <1>7, <1>9, <2>1, TellDoes
<1>10. ASSUME NEW i \in Ids, FallDue(i) PROVE BatchKept'
    BY <1>7, <1>10, DueDoes
<1> QED BY <1>2, <1>5, <1>6, <1>8, <1>9, <1>10 DEF Loud

-----------------------------------------------------------------------------
(* The events are counted up, and a restart is one.                         *)
LEMMA EventsGrow ==
    ASSUME TypeOK, [Next]_vars
    PROVE  events \in Nat /\ events' \in Nat /\ events <= events' /\ (Crash => events' = events + 1)
<1>0. events \in Nat
    BY BoundsAssumption DEF TypeOK, BoundsAssumption
<1>1. UNCHANGED events \/ Event
    <2>1. CASE \/ CheckRead \/ Judge \/ CheckDown \/ CheckAgent \/ CheckIp \/ RecoverCheck
               \/ DispatchRead \/ Mute \/ Mark \/ ThresholdStep \/ Report \/ UNCHANGED vars
        BY <2>1 DEF CheckRead, Judge, CheckDown, CheckAgent, CheckIp, RecoverCheck, DispatchRead,
           Mute, Mark, ThresholdStep, ThresholdRead, ThresholdAct, RecoverThreshold, Report, vars
    <2>2. CASE Tell \/ Change \/ Crash
        BY <2>2 DEF Tell, Change, Crash
    <2>3. ASSUME NEW i \in Ids, Ack(i) \/ AdminResolve(i) \/ FallDue(i) PROVE Event
        BY <2>3 DEF Ack, AdminResolve, FallDue
    <2>4. ASSUME NEW s \in {"up", "maintenance"}, SetStatus(s) PROVE Event
        BY <2>4 DEF SetStatus
    <2> QED BY <2>1, <2>2, <2>3, <2>4 DEF Next, CheckStep
<1> QED BY <1>0, <1>1 DEF Event, Crash

(* Between the message and its mark the check stands still, whatever else   *)
(* happens, unless the worker restarts.                                     *)
LEMMA MarkMoves ==
    ASSUME TypeOK, [Next]_vars, ~Tell, ~Mark, ~Crash
    PROVE  \/ cpc = "mark" /\ cpc' = "mark" /\ Foremost' = Foremost
           \/ cpc # "mark" /\ cpc' # "mark"
<1> USE DEF worldVars, checkVars, thresholdVars
<1>s. SUFFICES \/ cpc = "mark" /\ cpc' = "mark" /\ batch' = batch
               \/ cpc # "mark" /\ cpc' # "mark"
    BY DEF Foremost
<1>1. CASE CheckRead \/ Judge \/ CheckAgent \/ RecoverCheck \/ DispatchRead \/ Mute
    BY <1>1 DEF CheckRead, Judge, CheckAgent, RecoverCheck, DispatchRead, Mute, CheckGoTo, AfterBatch
<1>2. CASE CheckDown
    BY <1>2, CheckDownIs DEF CheckDown, Outage, Over
<1>3. CASE CheckIp
    BY <1>3, CheckIpIs DEF CheckIp, Over
<1>4. CASE ThresholdStep
    BY <1>4 DEF ThresholdStep, ThresholdRead, ThresholdAct, RecoverThreshold
<1>5. ASSUME NEW i \in Ids, Ack(i) \/ AdminResolve(i) \/ FallDue(i) PROVE UNCHANGED checkVars
    BY <1>5 DEF Ack, AdminResolve, FallDue
<1>6. ASSUME NEW q \in {"up", "maintenance"}, SetStatus(q) PROVE UNCHANGED checkVars
    BY <1>6 DEF SetStatus
<1>7. CASE Report \/ Change \/ UNCHANGED vars
    BY <1>7 DEF Report, Change, vars
<1> QED BY <1>1, <1>2, <1>3, <1>4, <1>5, <1>6, <1>7 DEF Next, CheckStep

(* The alerts of a row stay within what the events account for.             *)
LEMMA AlertsStep ==
    ASSUME TypeOK, OneOpen, RecoveredOnce, RecoveryKept, BatchKept, AlertsKept, [Next]_vars
    PROVE  AlertsKept'
<1>0. /\ events \in Nat /\ events' \in Nat /\ events <= events'
      /\ Crash => events' = events + 1
    BY EventsGrow
<1>1. \A i \in Ids : rows[i].alerts \in Nat /\ rows[i].alerts <= events + 1
    <2>1. \A i \in Ids : rows[i].alerts \in Nat
        BY RowsAre DEF Rows
    <2>2. \A i \in Ids : rows[i].alerts <= events + 1 \/ rows[i].alerts <= events
        BY DEF AlertsKept
    <2> QED BY <1>0, <2>1, <2>2
<1>2. ASSUME \A i \in Ids : rows'[i].alerts = rows[i].alerts,
             \A i \in Ids' \ Ids : rows'[i].alerts = 0,
             \/ events' = events + 1
             \/ \A i \in Ids : Alerted(i) => Alerted(i)'
      PROVE  AlertsKept'
    BY <1>0, <1>1, <1>2 DEF AlertsKept
<1>3. ASSUME ~Tell, ~Mark, ~Crash
      PROVE  \A i \in Ids : (rows[i].told = "recent" => rows'[i].told = "recent")
                            => (Alerted(i) => Alerted(i)')
    BY <1>3, MarkMoves DEF Alerted
<1>4. CASE ~Loud
    <2>1. Quiet
        BY <1>4, QuietStep
    <2>2. CASE Crash
        BY <1>0, <1>2, <2>1, <2>2 DEF Quiet
    <2>3. CASE ~Crash
        BY <1>2, <1>3, <1>4, <2>1, <2>3 DEF Quiet, Loud
    <2> QED BY <2>2, <2>3
<1>5. CASE Mute \/ Mark
    <2>1. PICK i \in Ids : Touches(i) /\ i = Foremost /\ rows'[i].told = "recent"
                           /\ rows'[i].alerts = rows[i].alerts
        BY <1>5, MarkDoes
    <2>2. \A j \in Ids : rows'[j].alerts = rows[j].alerts /\ Ids' = Ids
        BY <2>1 DEF Touches
    <2>3. \A j \in Ids : Alerted(j) => Alerted(j)'
        BY <1>5, <2>1 DEF Touches, Alerted, Mute
    <2> QED BY <1>2, <2>2, <2>3
<1>6. CASE Tell
    <2>0. cpc = "tell" /\ cpc' = "mark" /\ batch' = batch
        BY <1>6 DEF Tell, CheckGoTo
    <2>1. Foremost' = Foremost
        BY <2>0 DEF Foremost
    <2>2. PICK i \in Ids :
              /\ i = Foremost /\ i \in batch
              /\ \/ rows' = rows /\ events' = events + 1
                 \/ /\ Touches(i) /\ events' = events
                    /\ rows'[i].told = rows[i].told
                    /\ rows'[i].alerts = rows[i].alerts + 1
        BY <1>6, TellDoes
    <2>3. CASE rows' = rows /\ events' = events + 1
        <3>1. Ids' = Ids
            BY <2>3 DEF Ids
        <3> QED BY <1>2, <2>3, <3>1
    <2>4. CASE Touches(i) /\ events' = events /\ rows'[i].told = rows[i].told
               /\ rows'[i].alerts = rows[i].alerts + 1
        <3>1. ~Alerted(i) /\ Alerted(i)'
            BY <2>0, <2>1, <2>2 DEF BatchKept, Alerted
        <3>2. rows'[i].alerts <= events' + 1
            BY <1>0, <1>1, <2>4, <3>1 DEF AlertsKept
        <3>3. \A j \in Ids \ {i} : rows'[j] = rows[j] /\ (Alerted(j) <=> Alerted(j)')
            BY <2>0, <2>1, <2>2, <2>4 DEF Alerted, Touches
        <3>4. \A j \in Ids \ {i} : rows'[j].alerts <= IF Alerted(j)' THEN events' + 1 ELSE events'
            BY <2>4, <3>3 DEF AlertsKept
        <3> QED BY <2>4, <3>1, <3>2, <3>4 DEF AlertsKept, Touches
    <2> QED BY <2>2, <2>3, <2>4
<1>7. ASSUME NEW i \in Ids, RecoverCheck \/ RecoverThreshold, SendRecovery(i) PROVE AlertsKept'
    <2>1. /\ Ids' = Ids
          /\ \A j \in Ids : rows'[j].alerts = rows[j].alerts /\ rows'[j].told = rows[j].told
        BY <1>7, SendDoes DEF Touches
    <2>2. \A j \in Ids : Alerted(j) => Alerted(j)'
        <3>1. CASE RecoverCheck
            BY <2>1, <3>1 DEF RecoverCheck, Alerted
        <3>2. CASE RecoverThreshold
            BY <2>1, <3>2 DEF RecoverThreshold, Alerted, Foremost, checkVars
        <3> QED BY <1>7, <3>1, <3>2
    <2> QED BY <1>2, <2>1, <2>2
<1>8. CASE RecoverCheck
    <2>1. recovering.check \in Ids /\ SendRecovery(recovering.check)
        BY <1>8, RecoveringIs DEF RecoverCheck, RecoveryKept
    <2> QED BY <1>7, <1>8, <2>1
<1>9. CASE RecoverThreshold
    <2>1. recovering.threshold \in Ids /\ SendRecovery(recovering.threshold)
        BY <1>9, RecoveringIs DEF RecoverThreshold, RecoveryKept
    <2> QED BY <1>7, <1>9, <2>1
<1>10. ASSUME NEW i \in Ids, FallDue(i) PROVE AlertsKept'
    <2>1. /\ Ids' = Ids
          /\ \A j \in Ids : rows'[j].alerts = rows[j].alerts
        BY <1>10, DueDoes DEF Touches
    <2>2. events' = events + 1
        BY <1>10 DEF FallDue, Event
    <2> QED BY <1>2, <2>1, <2>2
<1> QED BY <1>4, <1>5, <1>6, <1>8, <1>9, <1>10 DEF Loud

-----------------------------------------------------------------------------
(* Only the check of the server opens one of the two rows.                  *)
LEMMA Shrinks ==
    ASSUME TypeOK, OneOpen, RecoveredOnce, RecoveryKept, [Next]_vars, ~CheckDown, ~CheckAgent,
           NEW q \in {"down", "agent_lost"}
    PROVE  OpenOf(q)' \subseteq OpenOf(q)
<1>0. Kinds = {"down", "agent_lost", "ip_down", "cpu"}
    BY DEF Kinds
<1>1. CASE CheckIp
    BY <1>0, <1>1, CheckIpIs, RowsStay, OpenDoes, CloseDoes DEF Over, OnlyOf
<1>2. CASE ThresholdAct
    BY <1>0, <1>2, ThresholdActIs, RowsStay, OpenDoes, CloseDoes DEF OnlyOf
<1>3. CASE \/ CheckRead \/ Judge \/ DispatchRead \/ ThresholdRead \/ Report \/ Change
           \/ Crash \/ UNCHANGED vars
    <2>1. rows' = rows
        BY <1>3 DEF CheckRead, Judge, DispatchRead, ThresholdRead, Report, Change, Crash, vars
    <2> QED BY <2>1, RowsStay
<1>4. ASSUME NEW s \in {"up", "maintenance"}, SetStatus(s) PROVE OpenOf(q)' \subseteq OpenOf(q)
    BY <1>4, RowsStay DEF SetStatus
<1>5. ASSUME NEW i \in Ids, Ack(i) PROVE OpenOf(q)' \subseteq OpenOf(q)
    BY <1>5, AckDoes
<1>6. ASSUME NEW i \in Ids, AdminResolve(i) PROVE OpenOf(q)' \subseteq OpenOf(q)
    <2>1. Quiet /\ Ids' = Ids
        BY <1>6, ShutDoes DEF AdminResolve, Shuts
    <2> QED BY <2>1 DEF Quiet, OpenOf
<1>7. ASSUME NEW i \in Ids, FallDue(i) PROVE OpenOf(q)' \subseteq OpenOf(q)
    BY <1>7, DueDoes, TouchLeaves
<1>8. CASE Mute \/ Mark
    BY <1>8, MarkDoes, TouchLeaves
<1>9. CASE Tell
    BY <1>9, TellDoes, TouchLeaves, RowsStay
<1>10. CASE RecoverCheck
    <2>1. recovering.check \in Ids /\ SendRecovery(recovering.check)
        BY <1>10, RecoveringIs DEF RecoverCheck, RecoveryKept
    <2> QED BY <2>1, SendDoes, TouchLeaves
<1>11. CASE RecoverThreshold
    <2>1. recovering.threshold \in Ids /\ SendRecovery(recovering.threshold)
        BY <1>11, RecoveringIs DEF RecoverThreshold, RecoveryKept
    <2> QED BY <2>1, SendDoes, TouchLeaves
<1> QED BY <1>1, <1>2, <1>3, <1>4, <1>5, <1>6, <1>7, <1>8, <1>9, <1>10, <1>11
        DEF Next, CheckStep, ThresholdStep

(* Between its verdict and the row of the silent agent the check holds on   *)
(* to the verdict.                                                          *)
LEMMA BetweenMoves ==
    ASSUME TypeOK, [Next]_vars, ~CheckDown, ~CheckAgent, ~Crash
    PROVE  crashes' = crashes /\ (\/ Between /\ Between' /\ view' = view
                                  \/ ~Between /\ ~Between')
<1> USE DEF worldVars, checkVars, thresholdVars, Between
<1>1. CASE CheckRead \/ Judge \/ RecoverCheck \/ DispatchRead \/ Mute \/ Tell \/ Mark
    BY <1>1 DEF CheckRead, Judge, RecoverCheck, DispatchRead, Mute, Tell, Mark, CheckGoTo, AfterBatch
<1>2. CASE CheckIp
    BY <1>2, CheckIpIs DEF CheckIp, Over
<1>3. CASE ThresholdStep
    BY <1>3 DEF ThresholdStep, ThresholdRead, ThresholdAct, RecoverThreshold
<1>4. ASSUME NEW i \in Ids, Ack(i) \/ AdminResolve(i) \/ FallDue(i)
      PROVE  UNCHANGED <<checkVars, crashes>>
    BY <1>4 DEF Ack, AdminResolve, FallDue
<1>5. ASSUME NEW q \in {"up", "maintenance"}, SetStatus(q) PROVE UNCHANGED <<checkVars, crashes>>
    BY <1>5 DEF SetStatus
<1>6. CASE Report \/ Change \/ UNCHANGED vars
    BY <1>6 DEF Report, Change, vars
<1> QED BY <1>1, <1>2, <1>3, <1>4, <1>5, <1>6 DEF Next, CheckStep

(* A server that is down is not reported for its silent agent too.          *)
LEMMA NoiseStep ==
    ASSUME TypeOK, OneOpen, RecoveredOnce, RecoveryKept, NoiseKept, [Next]_vars
    PROVE  NoiseKept'
<1>0. {"down", "agent_lost"} \subseteq Kinds
    BY DEF Kinds
<1>1. CASE CheckDown
    <2>1. crashes' = crashes /\ view' = view
        BY <1>1 DEF CheckDown
    <2>2. CASE Outage
        BY <2>1, <2>2 DEF Outage, NoiseKept, Between
    <2>3. CASE Over("down", "agent", "recover_agent")
        <3>1. OpenOf("down")' = {}
            BY <1>0, <2>3, CloseDoes DEF Over
        <3> QED BY <3>1 DEF NoiseKept
    <2> QED BY <1>1, <2>2, <2>3, CheckDownIs
<1>2. CASE CheckAgent
    <2>1. crashes' = crashes /\ Between /\ ~Between'
        BY <1>2 DEF CheckAgent, CheckGoTo, Between
    <2>2. CASE view.verdict = "other"
        <3>1. OpenIncident("agent_lost")
            BY <1>2, <2>2 DEF CheckAgent
        <3>2. OpenOf("down")' = OpenOf("down")
            BY <1>0, <3>1, OpenDoes DEF OnlyOf
        <3> QED BY <2>1, <2>2, <3>2 DEF NoiseKept
    <2>3. CASE view.verdict # "other"
        <3>1. Close("agent_lost")
            BY <1>2, <2>3 DEF CheckAgent
        <3>2. OpenOf("agent_lost")' = {}
            BY <1>0, <3>1, CloseDoes
        <3> QED BY <2>1, <3>2 DEF NoiseKept
    <2> QED BY <2>2, <2>3
<1>3. CASE Crash
    <2>1. crashes' # 0
        BY <1>3 DEF Crash, TypeOK
    <2> QED BY <2>1 DEF NoiseKept
<1>4. CASE ~CheckDown /\ ~CheckAgent /\ ~Crash
    <2>1. OpenOf("down")' \subseteq OpenOf("down") /\ OpenOf("agent_lost")' \subseteq OpenOf("agent_lost")
        BY <1>4, Shrinks
    <2>2. /\ crashes' = crashes
          /\ \/ Between /\ Between' /\ view' = view
             \/ ~Between /\ ~Between'
        BY <1>4, BetweenMoves
    <2> QED BY <2>1, <2>2 DEF NoiseKept
<1> QED BY <1>1, <1>2, <1>3, <1>4

-----------------------------------------------------------------------------
(* What every step but the two that send a recovery keeps of a row.         *)
Keeps ==
    \A i \in Ids :
        /\ rows'[i].kind = rows[i].kind /\ rows'[i].recoveries = rows[i].recoveries
        /\ rows'[i].open => rows[i].open
        /\ rows'[i].told = "never" => rows[i].told = "never"

(* The two steps that send a recovery. *)
Sends == RecoverCheck \/ RecoverThreshold

(* All others keep what a recovery depends on.                              *)
LEMMA KeepsStep ==
    ASSUME TypeOK, OneOpen, RecoveredOnce, [Next]_vars, ~Sends
    PROVE  Keeps /\ \A i \in Ids' \ Ids : rows'[i].recoveries = 0
<1>1. CASE ~Loud
    BY <1>1, QuietStep DEF Quiet, Keeps
<1>2. CASE Mute \/ Mark
    BY <1>2, MarkDoes DEF Touches, Keeps
<1>3. CASE Tell
    <2>1. CASE rows' = rows
        <3>1. Ids' = Ids
            BY <2>1 DEF Ids
        <3> QED BY <2>1, <3>1 DEF Keeps
    <2> QED BY <1>3, <2>1, TellDoes DEF Touches, Keeps
<1>4. ASSUME NEW i \in Ids, FallDue(i)
      PROVE  Keeps /\ \A j \in Ids' \ Ids : rows'[j].recoveries = 0
    BY <1>4, DueDoes DEF Touches, Keeps
<1> QED BY <1>1, <1>2, <1>3, <1>4 DEF Loud, Sends

(* A row whose recovery is due remains so until it is sent.                 *)
LEMMA DueStays ==
    ASSUME Keeps, NEW i \in Ids, Due(i)
    PROVE  Due(i)' /\ rows'[i].kind = rows[i].kind
BY DEF Keeps, Due

(* The cycles note a row as recovering only when they close one.            *)
LEMMA NoteMoves ==
    ASSUME TypeOK, [Next]_vars, ~CheckDown, ~CheckIp, ~ThresholdAct, ~Sends, ~Crash
    PROVE  /\ recovering' = recovering
           /\ cpc' \in {"recover_agent", "recover_dispatch"} => cpc' = cpc
           /\ tpc' = "recover" => tpc' = tpc
<1> USE DEF worldVars, checkVars, thresholdVars
<1>1. CASE CheckRead \/ Judge \/ CheckAgent \/ DispatchRead \/ Mute \/ Tell \/ Mark
    BY <1>1 DEF CheckRead, Judge, CheckAgent, DispatchRead, Mute, Tell, Mark, CheckGoTo, AfterBatch
<1>2. CASE ThresholdRead
    BY <1>2 DEF ThresholdRead
<1>3. ASSUME NEW i \in Ids, Ack(i) \/ AdminResolve(i) \/ FallDue(i)
      PROVE UNCHANGED <<checkVars, thresholdVars, recovering>>
    BY <1>3 DEF Ack, AdminResolve, FallDue
<1>4. ASSUME NEW q \in {"up", "maintenance"}, SetStatus(q)
      PROVE UNCHANGED <<checkVars, thresholdVars, recovering>>
    BY <1>4 DEF SetStatus
<1>5. CASE Report \/ Change \/ UNCHANGED vars
    BY <1>5 DEF Report, Change, vars
<1> QED BY <1>1, <1>2, <1>3, <1>4, <1>5 DEF Next, CheckStep, ThresholdStep, Sends

(* So do the rows that the cycles have noted.                               *)
LEMMA NotedStay ==
    ASSUME TypeOK, RecoveryKept, Keeps
    PROVE  /\ \A i : i = recovering.check /\ i # 0 => Due(i)' /\ rows'[i].kind # "cpu"
           /\ \A i : i = recovering.threshold /\ i # 0 => Due(i)' /\ rows'[i].kind = "cpu"
<1>1. ASSUME NEW i, i = recovering.check, i # 0 PROVE Due(i)' /\ rows'[i].kind # "cpu"
    <2>1. i \in Ids /\ Due(i) /\ rows[i].kind # "cpu"
        BY <1>1, RecoveringIs DEF RecoveryKept
    <2> QED BY <2>1, DueStays
<1>2. ASSUME NEW i, i = recovering.threshold, i # 0 PROVE Due(i)' /\ rows'[i].kind = "cpu"
    <2>1. i \in Ids /\ Due(i) /\ rows[i].kind = "cpu"
        BY <1>2, RecoveringIs DEF RecoveryKept
    <2> QED BY <2>1, DueStays
<1> QED BY <1>1, <1>2

(* The check notes the row that it has just closed.                         *)
LEMMA OverStep ==
    ASSUME TypeOK, OneOpen, RecoveredOnce, RecoveryKept, Keeps,
           NEW k \in Kinds \ {"cpu"}, NEW next, NEW recover,
           next \notin {"recover_agent", "recover_dispatch"}, Over(k, next, recover), tpc' = tpc
    PROVE  RecoveryKept'
<1>0. DOMAIN recovering = {"check", "threshold"}
    BY DEF TypeOK
<1>1. CASE cpc' = next /\ UNCHANGED recovering
    BY <1>1, NotedStay DEF RecoveryKept, Due
<1>2. CASE Recovers(k) /\ recovering' = [recovering EXCEPT !.check = Latest(k)]
    <2>1. PICK i \in Ids : i = Latest(k) /\ Due(i)' /\ rows'[i].kind = k
        BY <1>2, CloseDoes DEF Over
    <2>2. i # 0
        BY <2>1, RowsAre DEF Ids
    <2>3. recovering'.check = i /\ recovering'.threshold = recovering.threshold
        BY <1>0, <1>2, <2>1
    <2> QED BY <2>1, <2>2, <2>3, NotedStay DEF RecoveryKept, Due
<1> QED BY <1>1, <1>2 DEF Over

(* The threshold cycle likewise.                                            *)
LEMMA CooledStep ==
    ASSUME TypeOK, OneOpen, RecoveredOnce, RecoveryKept, Keeps, ThresholdAct
    PROVE  RecoveryKept'
<1>0. DOMAIN recovering = {"check", "threshold"} /\ "cpu" \in Kinds /\ cpc' = cpc
    BY DEF TypeOK, Kinds, ThresholdAct, checkVars
<1>1. CASE tpc' = "idle" /\ UNCHANGED recovering
    BY <1>0, <1>1, NotedStay DEF RecoveryKept, Due
<1>2. CASE /\ Close("cpu") /\ Recovers("cpu")
           /\ recovering' = [recovering EXCEPT !.threshold = Latest("cpu")]
    <2>1. PICK i \in Ids : i = Latest("cpu") /\ Due(i)' /\ rows'[i].kind = "cpu"
        BY <1>0, <1>2, CloseDoes
    <2>2. i # 0
        BY <2>1, RowsAre DEF Ids
    <2>3. recovering'.threshold = i /\ recovering'.check = recovering.check
        BY <1>0, <1>2, <2>1
    <2> QED BY <1>0, <2>1, <2>2, <2>3, NotedStay DEF RecoveryKept, Due
<1> QED BY <1>1, <1>2, ThresholdActIs

(* What is sent was due, and what the other cycle has noted is still due.   *)
LEMMA SentStep ==
    ASSUME TypeOK, RecoveryKept, RecoveredOnce, Sends
    PROVE  RecoveryKept' /\ RecoveredOnce'
<1>0. DOMAIN recovering = {"check", "threshold"}
    BY DEF TypeOK
<1>1. PICK i \in Ids : SendRecovery(i) /\ Due(i)
                       /\ \/ RecoverCheck /\ i = recovering.check
                          \/ RecoverThreshold /\ i = recovering.threshold
    BY RecoveringIs DEF Sends, RecoverCheck, RecoverThreshold, RecoveryKept
<1>2. /\ Ids' = Ids /\ \A j \in Ids \ {i} : rows'[j] = rows[j]
      /\ rows'[i].open = rows[i].open /\ rows'[i].told = rows[i].told
      /\ rows'[i].recoveries = 1
    BY <1>1, SendDoes DEF Touches, Due
<1>3. RecoveredOnce'
    BY <1>1, <1>2 DEF RecoveredOnce, Due
<1>4. CASE RecoverCheck /\ i = recovering.check
    <2>1. recovering'.check = 0 /\ recovering'.threshold = recovering.threshold /\ tpc' = tpc
          /\ cpc' \notin {"recover_agent", "recover_dispatch"}
        BY <1>0, <1>4 DEF RecoverCheck, CheckGoTo, thresholdVars
    <2>2. \A j : j = recovering.threshold /\ j # 0 =>
                    rows'[j] = rows[j] /\ Due(j) /\ rows[j].kind = "cpu"
        <3>1. i # 0
            BY RowsAre DEF Ids
        <3> QED BY <1>2, <1>4, <3>1, RecoveringIs DEF RecoveryKept
    <2> QED BY <1>3, <2>1, <2>2 DEF RecoveryKept, Due
<1>5. CASE RecoverThreshold /\ i = recovering.threshold
    <2>1. /\ recovering'.threshold = 0 /\ recovering'.check = recovering.check
          /\ cpc' = cpc /\ tpc' = "idle"
        BY <1>0, <1>5 DEF RecoverThreshold, checkVars
    <2>2. \A j : j = recovering.check /\ j # 0 =>
                    rows'[j] = rows[j] /\ Due(j) /\ rows[j].kind # "cpu"
        <3>1. i # 0
            BY RowsAre DEF Ids
        <3> QED BY <1>2, <1>5, <3>1, RecoveringIs DEF RecoveryKept
    <2> QED BY <1>3, <2>1, <2>2 DEF RecoveryKept, Due
<1> QED BY <1>1, <1>4, <1>5

(* Of an outage one recovery is sent, of a closed row that was alerted.     *)
LEMMA RecoveryStep ==
    ASSUME TypeOK, OneOpen, RecoveredOnce, RecoveryKept, [Next]_vars
    PROVE  RecoveryKept' /\ RecoveredOnce'
<1>1. CASE Sends
    BY <1>1, SentStep
<1>2. CASE ~Sends
    <2>1. Keeps /\ \A i \in Ids' \ Ids : rows'[i].recoveries = 0
        BY <1>2, KeepsStep
    <2>2. SUFFICES RecoveryKept'
        BY <2>1 DEF RecoveredOnce, Keeps
    <2>3. CASE CheckDown
        <3>1. tpc' = tpc /\ "down" \in Kinds \ {"cpu"}
            BY <2>3 DEF CheckDown, thresholdVars, Kinds
        <3>2. CASE Outage
            BY <2>1, <3>1, <3>2, NotedStay DEF Outage, RecoveryKept, Due
        <3> QED BY <2>1, <2>3, <3>1, <3>2, CheckDownIs, OverStep
    <2>4. CASE CheckIp
        <3>1. tpc' = tpc /\ "ip_down" \in Kinds \ {"cpu"}
            BY <2>4 DEF CheckIp, thresholdVars, Kinds
        <3>2. CASE cpc' = "dispatch" /\ UNCHANGED recovering
            BY <2>1, <3>1, <3>2, NotedStay DEF RecoveryKept, Due
        <3> QED BY <2>1, <2>4, <3>1, <3>2, CheckIpIs, OverStep
    <2>5. CASE ThresholdAct
        BY <2>1, <2>5, CooledStep
    <2>6. CASE Crash
        BY <2>6 DEF Crash, RecoveryKept
    <2>7. CASE ~CheckDown /\ ~CheckIp /\ ~ThresholdAct /\ ~Crash
        BY <1>2, <2>1, <2>7, NoteMoves, NotedStay DEF RecoveryKept, Due
    <2> QED BY <2>3, <2>4, <2>5, <2>6, <2>7
<1> QED BY <1>1, <1>2

-----------------------------------------------------------------------------
(* The invariant holds at the start.                                        *)
LEMMA Begins == ASSUME Init PROVE IInv
<1>1. rows = <<>> /\ Ids = {} /\ rows \in Seq(Rows) /\ Len(rows) = 0
    BY DEF Init, Ids
<1>2. TypeOK
    <2>1. NoView \in Views
        BY DEF NoView, Views, Verdicts, Statuses
    <2>2. 0 \in Nat /\ 0 \in 0 .. MaxEvents /\ 0 \in 0 .. 0
        BY BoundsAssumption DEF BoundsAssumption
    <2>3. RestOK
        BY <2>1, <2>2 DEF Init, RestOK, Conditions, Loads, Statuses, CheckPlaces, ThresholdPlaces
    <2>4. BatchOK /\ RecoveringOK
        BY <1>1, <2>2 DEF Init, BatchOK, RecoveringOK
    <2> QED BY <1>1, <2>3, <2>4, TypeParts
<1>3. OneOpen /\ AlertsKept /\ RecoveredOnce /\ NoiseKept
    BY <1>1 DEF OneOpen, AlertsKept, RecoveredOnce, NoiseKept, OpenOf, Init, Between
<1>4. BatchKept /\ RecoveryKept
    BY DEF Init, BatchKept, RecoveryKept
<1> QED BY <1>2, <1>3, <1>4 DEF IInv

(* The inductive invariant holds in every reachable state.                  *)
THEOREM Invariance == Spec => []IInv
<1>1. ASSUME IInv, [Next]_vars PROVE IInv'
    BY <1>1, TypeStep, OpenStep, BatchStep, AlertsStep, NoiseStep, RecoveryStep DEF IInv
<1> QED BY <1>1, Begins, PTL DEF Spec

(* What the admin hears of an outage: of a kind at most one row is open,    *)
(* and it is alerted once, and once more for each time its repetition fell  *)
(* due or a restart came between message and mark; a server that is down is *)
(* not also reported for its silent agent; and one recovery follows, of a   *)
(* closed row that was alerted before.                                      *)
THEOREM AlertsRightHolds == Spec => []AlertsRight
<1>1. ASSUME IInv PROVE AlertsRight
    <2> USE <1>1 DEF IInv
    <2>1. \A k : Cardinality(OpenOf(k)) <= 1
        <3>1. TAKE k
        <3>2. CASE OpenOf(k) = {}
            BY <3>2, FS_EmptySet
        <3>3. CASE OpenOf(k) # {}
            <4>1. PICK i : OpenOf(k) = {i}
                BY <3>3, LatestIs
            <4>2. Cardinality({i}) = 1
                BY FS_Singleton
            <4> QED BY <4>1, <4>2
        <3> QED BY <3>2, <3>3
    <2>2. events \in Nat
        BY BoundsAssumption DEF TypeOK, BoundsAssumption
    <2>3. \A i \in Ids : rows[i].alerts <= 1 + events
        <3>1. \A i \in Ids : rows[i].alerts \in Nat
            BY RowsAre DEF Rows
        <3>2. \A i \in Ids : rows[i].alerts <= events + 1 \/ rows[i].alerts <= events
            BY DEF AlertsKept
        <3> QED BY <2>2, <3>1, <3>2
    <2>4. NoiseSuppressed
        BY DEF NoiseKept, NoiseSuppressed, Between
    <2> QED BY <2>1, <2>3, <2>4 DEF AlertsRight, AlertsBounded
<1> QED BY <1>1, Invariance, PTL

-----------------------------------------------------------------------------
(* No step takes an acknowledgement back, or alerts of another row than the *)
(* foremost of the batch.                                                   *)
LEMMA AckStands ==
    ASSUME TypeOK, OneOpen, RecoveredOnce, RecoveryKept, [Next]_vars, NEW i \in Ids
    PROVE  /\ rows[i].acked => rows'[i].acked
           /\ i \notin batch => rows'[i].alerts = rows[i].alerts
<1>1. CASE ~Loud
    BY <1>1, QuietStep DEF Quiet
<1>2. CASE Mute \/ Mark
    BY <1>2, MarkDoes DEF Touches
<1>3. CASE Tell
    BY <1>3, TellDoes DEF Touches
<1>4. CASE RecoverCheck
    <2>1. recovering.check \in Ids /\ SendRecovery(recovering.check)
        BY <1>4, RecoveringIs DEF RecoverCheck, RecoveryKept
    <2> QED BY <2>1, SendDoes DEF Touches
<1>5. CASE RecoverThreshold
    <2>1. recovering.threshold \in Ids /\ SendRecovery(recovering.threshold)
        BY <1>5, RecoveringIs DEF RecoverThreshold, RecoveryKept
    <2> QED BY <2>1, SendDoes DEF Touches
<1>6. ASSUME NEW j \in Ids, FallDue(j)
      PROVE  rows'[i].acked = rows[i].acked /\ rows'[i].alerts = rows[i].alerts
    BY <1>6, DueDoes DEF Touches
<1> QED BY <1>1, <1>2, <1>3, <1>4, <1>5, <1>6 DEF Loud

(* What no dispatch has taken and somebody has acknowledged is not taken.   *)
LEMMA AckStep ==
    ASSUME IInv, [Next]_vars, NEW i \in Ids, Silenced(i)
    PROVE  Silenced(i)' /\ rows'[i].alerts = rows[i].alerts
<1>1. /\ TypeOK /\ OneOpen /\ RecoveredOnce /\ RecoveryKept
      /\ rows[i].acked /\ i \notin batch
    BY DEF IInv, Silenced
<1>2. rows'[i].acked /\ rows'[i].alerts = rows[i].alerts /\ i \in Ids'
    BY <1>1, AckStands, RowsKept
<1>3. i \notin batch'
    <2>1. CASE DispatchRead
        BY <1>1, <2>1 DEF DispatchRead, Pending
    <2>2. CASE Mute \/ Mark \/ Crash
        BY <1>1, <2>2 DEF Mute, Mark, Crash
    <2> QED BY <1>1, <2>1, <2>2, BatchMoves
<1> QED BY <1>2, <1>3 DEF Silenced

(* The step of AckSilences. *)
AckStepAct == \A i \in Ids : Silenced(i) => Silenced(i)' /\ rows'[i].alerts = rows[i].alerts

(* An incident that was acknowledged while no dispatch had taken it is      *)
(* never alerted again, in whatever order the cycles, the panel, the        *)
(* repetitions and the restarts of the worker come.                         *)
THEOREM AckSilencesHolds == Spec => AckSilences
<1>1. ASSUME IInv, [Next]_vars PROVE AckStepAct
    BY <1>1, AckStep DEF AckStepAct
<1>2. AckStepAct => \A i \in Ids : Silenced(i) => Silenced(i)' /\ rows'[i].alerts = rows[i].alerts
    BY DEF AckStepAct
<1> QED BY <1>1, <1>2, Invariance, PTL DEF Spec, AckSilences
=============================================================================
