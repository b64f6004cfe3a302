------------------------------ MODULE Transfer ------------------------------
(***************************************************************************)
(* One transfer of a configuration file between the panel and a switch     *)
(* (worker/transfer.mjs with configCopy of worker/snmp.mjs).  The panel    *)
(* tells the switch over SNMP to fetch a file from it or to send one, and  *)
(* asks until the switch has finished; the file travels by TFTP, through   *)
(* the small server in the worker, or by SFTP, through a directory that    *)
(* the worker shares.                                                      *)
(*                                                                         *)
(* Datagrams are lost, repeated and reordered: net is the set of those     *)
(* ever sent, and any of them may arrive at any time, or never.  The       *)
(* client in the switch is external and keeps to RFC 1350; it may begin    *)
(* anew, from another port.                                                *)
(***************************************************************************)
EXTENDS Naturals, Sequences, FiniteSets

CONSTANTS
    Last,        \* the blocks of the file; only the last is shorter than 512 octets
    MaxRetries,  \* MAX_RETRIES of transfer.mjs
    Ways,        \* the ways to create the row: createAndGo or createAndWait, with either address column
    Ports        \* the ports the switch may send from, one for each attempt of its client

TransferAssumption ==
    Last \in Nat \ {0} /\ MaxRetries \in Nat /\ Ways \in Nat \ {0} /\ Ports \in Nat \ {0}

VARIABLES
    job,    \* direction and protocol of the transfer
    slot,   \* the name of the file is known to the server
    ses,    \* the sessions of the server, by port of the client
    file,   \* the promise of the slot: not settled, rejected, or the blocks received
    dev,    \* the switch: state of the copy row, its client, the blocks it has received
    net,    \* the datagrams ever sent
    panel   \* where configCopy and its caller are

vars == <<job, slot, ses, file, dev, net, panel>>

Whole == [b \in 1..Last |-> b]
None == <<>>
Rejected == <<0>>       \* no file has a block 0
NoSession == [on |-> FALSE, block |-> 0, retries |-> 0, chunks |-> <<>>]

ToServer(op, port, block) == [to |-> "server", op |-> op, port |-> port, block |-> block]
ToClient(op, port, block) == [to |-> "client", op |-> op, port |-> port, block |-> block]
Request == IF job.dir = "pull" THEN "WRQ" ELSE "RRQ"

TypeOK ==
    /\ job \in [dir : {"pull", "push"}, by : {"tftp", "sftp"}]
    /\ slot \in BOOLEAN
    /\ \A p \in 1..Ports : ses[p].block \in 0..Last /\ ses[p].retries \in 0..MaxRetries
    /\ dev.row \in {"none", "running", "successful", "partial", "failed"} /\ dev.port \in 0..Ports
    /\ panel.pc \in {"create", "poll", "read", "done", "failed"} /\ panel.way \in 1..Ways

Init ==
    /\ job \in [dir : {"pull", "push"}, by : {"tftp", "sftp"}]
    /\ slot = TRUE                                  \* offerFile, expectFile
    /\ ses = [p \in 1..Ports |-> NoSession]
    /\ file = None
    /\ dev = [row |-> "none", port |-> 0, got |-> <<>>]
    /\ net = {}
    /\ panel = [pc |-> "create", way |-> 1]

-----------------------------------------------------------------------------
(* configCopy and its callers, pullRunning and pushRunning.                *)

\* The verdict; the row is destroyed and the name forgotten (cleanup).  The
\* destroy request may be lost, and the copy then goes on.
Verdict(pc) ==
    /\ panel' = [panel EXCEPT !.pc = pc]
    /\ slot' = FALSE
    /\ \/ UNCHANGED dev
       \/ dev' = [dev EXCEPT !.row = "none"]

\* A row is created: the switch refuses and the next way is tried; or it begins;
\* or the answer is lost, which ends the transfer for the panel whether the
\* switch has begun or not.
Create ==
    /\ panel.pc = "create"
    /\ \/ /\ panel.way < Ways
          /\ panel' = [panel EXCEPT !.way = @ + 1]
          /\ UNCHANGED <<slot, dev>>
       \/ /\ panel' = [panel EXCEPT !.pc = "poll"]
          /\ dev' = [dev EXCEPT !.row = "running"]
          /\ UNCHANGED slot
       \/ Verdict("failed")
       \/ /\ panel' = [panel EXCEPT !.pc = "failed"]
          /\ slot' = FALSE
          /\ dev' = [dev EXCEPT !.row = "running"]
    /\ UNCHANGED <<job, ses, file, net>>

\* ccCopyState is successful, or failed because some lines of a configuration
\* that was read whole were not taken (allowPartial).
Copied == dev.row = "successful" \/ (job.dir = "push" /\ dev.row = "partial")

\* Once a second the state of the row is asked for.  A lost answer, a failure
\* and the end of the seconds all end the transfer; a file to be fetched from
\* the panel has then arrived, one to be sent is read from the slot.
Poll ==
    /\ panel.pc = "poll"
    /\ \/ Verdict("failed")
       \/ /\ Copied
          /\ IF job.dir = "pull"
             THEN panel' = [panel EXCEPT !.pc = "read"] /\ UNCHANGED <<slot, dev>>
             ELSE Verdict("done")
    /\ UNCHANGED <<job, ses, file, net>>

\* read(): the last datagrams may still be on their way; for 15 seconds with
\* TFTP, in ten looks at the directory with SFTP.
Read ==
    /\ panel.pc = "read"
    /\ \/ Verdict("failed")
       \/ file \notin {None, Rejected} /\ Verdict("done")
    /\ UNCHANGED <<job, ses, file, net>>

-----------------------------------------------------------------------------
(* The server in the worker.                                               *)

\* A request for a name that is known and of the right kind opens a session in
\* place of one the port has had; any other gets an error.
Open(p) ==
    /\ ToServer(Request, p, 0) \in net
    /\ IF ~slot
       THEN /\ net' = net \union {ToClient("ERROR", p, 0)}
            /\ UNCHANGED ses
       ELSE IF job.dir = "pull"
       THEN /\ ses' = [ses EXCEPT ![p] = [NoSession EXCEPT !.on = TRUE]]
            /\ net' = net \union {ToClient("ACK", p, 0)}
       ELSE /\ ses' = [ses EXCEPT ![p] = [NoSession EXCEPT !.on = TRUE, !.block = 1]]
            /\ net' = net \union {ToClient("DATA", p, 1)}
    /\ UNCHANGED <<job, slot, file, dev, panel>>

\* Mutant: a block that is not the next one is taken too.
AnyLater(s, block) == block > s.block

\* The block the session waits for.
Expected(s, block) == block = s.block + 1

\* The promise of the slot settles once, and nobody reads it after cleanup.
Resolve(blocks) == IF file = None THEN blocks ELSE file
Reject == IF job.dir = "pull" THEN Resolve(Rejected) ELSE file

\* DATA: the block that is expected is kept and acknowledged, and the short one
\* ends the file; a repeated one is acknowledged again; others are ignored.
ReceiveData(p, block) ==
    LET s == ses[p]
        blocks == Append(s.chunks, block)
    IN  /\ job.dir = "pull" /\ s.on
        /\ ToServer("DATA", p, block) \in net
        /\ Expected(s, block)
        /\ net' = net \union {ToClient("ACK", p, block)}
        /\ IF block = Last
           THEN ses' = [ses EXCEPT ![p] = NoSession] /\ file' = Resolve(blocks)
           ELSE /\ ses' = [ses EXCEPT ![p] = [on |-> TRUE, block |-> block, retries |-> 0, chunks |-> blocks]]
                /\ UNCHANGED file
    /\ UNCHANGED <<job, slot, dev, panel>>

\* ACK of the block sent last: the next one, or the end after the short one.
ReceiveAck(p, block) ==
    /\ job.dir = "push" /\ ses[p].on
    /\ ToServer("ACK", p, block) \in net
    /\ block = ses[p].block
    /\ IF block = Last
       THEN ses' = [ses EXCEPT ![p] = NoSession] /\ UNCHANGED net
       ELSE /\ ses' = [ses EXCEPT ![p] = [@ EXCEPT !.block = block + 1, !.retries = 0]]
            /\ net' = net \union {ToClient("DATA", p, block + 1)}
    /\ UNCHANGED <<job, slot, file, dev, panel>>

\* Two seconds without an answer: the last datagram is sent again, and after
\* some times the session is given up.
Retry(p) ==
    /\ ses[p].on
    /\ IF ses[p].retries >= MaxRetries
       THEN ses' = [ses EXCEPT ![p] = NoSession] /\ file' = Reject
       ELSE ses' = [ses EXCEPT ![p].retries = @ + 1] /\ UNCHANGED file
    /\ UNCHANGED <<job, slot, dev, net, panel>>

\* The client gives its session up.
ReceiveError(p) ==
    /\ ses[p].on /\ ToServer("ERROR", p, 0) \in net
    /\ ses' = [ses EXCEPT ![p] = NoSession]
    /\ file' = Reject
    /\ UNCHANGED <<job, slot, dev, net, panel>>

Server == \E p \in 1..Ports :
    \/ Open(p)
    \/ \E block \in 1..Last : ReceiveData(p, block) \/ ReceiveAck(p, block)
    \/ Retry(p) \/ ReceiveError(p)

-----------------------------------------------------------------------------
(* The switch.                                                             *)

Client == job.by = "tftp" /\ dev.row = "running"

\* The client begins, or begins anew from another port.
ClientRequest ==
    /\ Client /\ dev.port < Ports
    /\ dev' = [dev EXCEPT !.port = @ + 1, !.got = <<>>]
    /\ net' = net \union {ToServer(Request, dev.port + 1, 0)}
    /\ UNCHANGED <<job, slot, ses, file, panel>>

\* It sends the next block when the one before was acknowledged, and has done
\* its part with the acknowledgement of the last.
ClientSend(block) ==
    /\ Client /\ job.dir = "pull" /\ dev.port > 0
    /\ ToClient("ACK", dev.port, block) \in net
    /\ IF block = Last
       THEN dev' = [dev EXCEPT !.row = "successful"] /\ UNCHANGED net
       ELSE net' = net \union {ToServer("DATA", dev.port, block + 1)} /\ UNCHANGED dev
    /\ UNCHANGED <<job, slot, ses, file, panel>>

\* It takes the next block and acknowledges what it has taken; then it applies
\* the file, all its lines or some.
ClientTake(block, outcome) ==
    /\ Client /\ job.dir = "push" /\ dev.port > 0
    /\ ToClient("DATA", dev.port, block) \in net
    /\ block = Len(dev.got) + 1
    /\ dev' = [dev EXCEPT !.got = Append(@, block), !.row = IF block = Last THEN outcome ELSE @]
    /\ net' = net \union {ToServer("ACK", dev.port, block)}
    /\ UNCHANGED <<job, slot, ses, file, panel>>

\* By SFTP the file is in the directory when the copy has ended, or was there.
Sftp ==
    /\ job.by = "sftp" /\ dev.row = "running"
    /\ IF job.dir = "pull"
       THEN /\ file' = IF slot THEN Whole ELSE file
            /\ dev' = [dev EXCEPT !.row = "successful"]
       ELSE /\ slot
            /\ dev' = [dev EXCEPT !.row = "successful", !.got = Whole]
            /\ UNCHANGED file
    /\ UNCHANGED <<job, slot, ses, net, panel>>

\* The switch gives the copy up, for reasons of its own or after an error.
CopyFails ==
    /\ dev.row = "running"
    /\ dev' = [dev EXCEPT !.row = "failed"]
    /\ net' = IF dev.port > 0 THEN net \union {ToServer("ERROR", dev.port, 0)} ELSE net
    /\ UNCHANGED <<job, slot, ses, file, panel>>

Switch ==
    \/ ClientRequest
    \/ \E block \in 0..Last : ClientSend(block) \/ \E o \in {"successful", "partial"} : ClientTake(block, o)
    \/ Sftp \/ CopyFails

-----------------------------------------------------------------------------

Panel == Create \/ Poll \/ Read

Next == Panel \/ Server \/ Switch

\* The loops of the panel end: each is bounded by its seconds.
Spec == Init /\ [][Next]_vars /\ WF_vars(Panel)

-----------------------------------------------------------------------------

\* What the receiver has, as the promise sees it.
Received ==
    LET blocks == IF job.dir = "pull" THEN file ELSE dev.got
    IN  CASE blocks = Whole -> "whole"
          [] job.dir = "pull" /\ blocks \notin {None, Rejected, Whole} -> "damaged"
          [] OTHER -> "none"

Told == IF panel.pc \in {"done", "failed"} THEN panel.pc ELSE "waiting"

D == INSTANCE Delivery WITH copy <- Received, told <- Told

\* Whatever is lost, repeated, reordered or begun anew, the receiver has the
\* whole file or none of it, the panel says done only when it is there ...
DeliversSafely == D!Safely
\* ... and it says something in the end.
ComesToAVerdict == D!Verdict
=============================================================================
