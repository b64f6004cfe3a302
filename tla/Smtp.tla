-------------------------------- MODULE Smtp --------------------------------
(***************************************************************************)
(* The sending of one e-mail over SMTP (worker/smtp.mjs): the commands the *)
(* client sends one after the other, the answers of one or several lines   *)
(* that arrive in pieces, the change to TLS in the middle, and the server, *)
(* which is external: it refuses, falls silent or hangs up when it likes.  *)
(***************************************************************************)
EXTENDS Naturals, Sequences

VARIABLES
    conf,      \* security of the connection and the way of signing in
    at,        \* the command sent last, as a place in Script
    server,    \* the command the server answers next
    flight,    \* lines of answers on their way
    buffer,    \* lines that have come and are not read yet
    accepted,  \* the server has taken the message
    trouble,   \* history: the server refused, fell silent or hung up
    result     \* what sendMail returns

vars == <<conf, at, server, flight, buffer, accepted, trouble, result>>

\* The commands of one sending, with the code each expects.
Step(cmd, code) == <<[cmd |-> cmd, code |-> code]>>
Script ==
    Step("greeting", 220) \o Step("EHLO", 250)
    \o (IF conf.security = "starttls" THEN Step("STARTTLS", 220) \o Step("EHLO", 250) ELSE <<>>)
    \o (CASE conf.auth = "none" -> <<>>
          [] conf.auth = "PLAIN" -> Step("AUTH PLAIN", 235)
          [] conf.auth = "LOGIN" -> Step("AUTH LOGIN", 334) \o Step("user", 334) \o Step("pass", 235))
    \o Step("MAIL FROM", 250) \o Step("RCPT TO", 250) \o Step("DATA", 354) \o Step(".", 250)

Init ==
    /\ conf \in [security : {"none", "starttls", "tls"}, auth : {"none", "PLAIN", "LOGIN"}]
    /\ at = 1 /\ server = 1
    /\ flight = <<>> /\ buffer = <<>>
    /\ accepted = FALSE /\ trouble = FALSE
    /\ result = "talking"

\* The server answers in one line or in two.
Answer(code) ==
    /\ result = "talking" /\ server = at
    /\ \E more \in BOOLEAN :
          flight' = flight \o (IF more THEN <<[code |-> code, last |-> FALSE]>> ELSE <<>>) \o <<[code |-> code, last |-> TRUE]>>
    /\ server' = server + 1
    /\ accepted' = (accepted \/ (Script[at].cmd = "." /\ code = 250))
    /\ trouble' = (trouble \/ code # Script[at].code)
    /\ UNCHANGED <<conf, at, buffer, result>>

\* A line comes out of the socket.
Arrive ==
    /\ flight # <<>> /\ result = "talking"
    /\ buffer' = Append(buffer, Head(flight))
    /\ flight' = Tail(flight)
    /\ UNCHANGED <<conf, at, server, accepted, trouble, result>>

\* Mutant: every line is taken for an answer.
AnyLine(lines) == IF lines = <<>> THEN 0 ELSE 1

\* Where the first complete answer ends, or 0: after a line whose code is
\* followed by a blank and not by a hyphen.
CompleteResponse(lines) ==
    IF \E n \in DOMAIN lines : lines[n].last
    THEN CHOOSE n \in DOMAIN lines : lines[n].last /\ \A m \in 1..(n - 1) : ~lines[m].last
    ELSE 0

\* read and cmd: the answer must have the code expected; then the next command,
\* after STARTTLS on a new session, or the end.
Read ==
    LET end == CompleteResponse(buffer)
    IN  /\ result = "talking" /\ end > 0
        /\ IF buffer[end].code # Script[at].code
           THEN result' = "failed" /\ UNCHANGED <<at, buffer>>
           ELSE IF at = Len(Script)
           THEN result' = "ok" /\ UNCHANGED <<at, buffer>>
           ELSE /\ at' = at + 1
                /\ buffer' = IF Script[at].cmd = "STARTTLS" THEN <<>> ELSE SubSeq(buffer, end + 1, Len(buffer))
                /\ UNCHANGED result
        /\ UNCHANGED <<conf, server, flight, accepted, trouble>>

\* No answer in time, the connection closed, or TLS refused; and a server that
\* offers neither way of signing in, or no STARTTLS.
Lose ==
    /\ result = "talking"
    /\ result' = "failed" /\ trouble' = TRUE
    /\ UNCHANGED <<conf, at, server, flight, buffer, accepted>>

Next ==
    \/ \E code \in {Script[at].code, 500} : Answer(code)
    \/ Arrive \/ Read \/ Lose

Spec == Init /\ [][Next]_vars /\ WF_vars(Read \/ Lose)

-----------------------------------------------------------------------------

\* The verdict is right: a message said to be sent was taken by the server, and
\* one is said to have failed only when something went wrong, never because the
\* conversation fell a step behind.
VerdictIsRight ==
    /\ result = "ok" => accepted
    /\ result = "failed" => trouble
=============================================================================
