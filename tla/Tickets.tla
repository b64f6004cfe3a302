------------------------------ MODULE Tickets -------------------------------
(* A ticket between a customer and the support (lib/tickets.ts): the       *)
(* status is written from our side, open when it is our turn, answered     *)
(* when it is the customer's, closed.  A message is stored and the status  *)
(* follows from its author in a second statement; the answer of the panel  *)
(* is then announced to the customer, which takes as long as the channels  *)
(* take, and the ticket closed when the admin asked for both at once.      *)
(*                                                                         *)
(* One ticket, one page of the portal and one of the panel, each with one  *)
(* request under way (both disable their buttons), and a second admin who  *)
(* sets the status by hand.  The web process may restart at any moment.    *)
EXTENDS Naturals, Sequences

CONSTANT MaxMessages    \* messages in the ticket

MessagesAssumption == MaxMessages \in Nat \ {0}

Authors == {"customer", "admin"}
Statuses == {"open", "answered", "closed"}

VARIABLES
    status,     \* tickets.status, "none" before the ticket exists
    messages,   \* authors of ticket_messages, in the order they were stored
    portal,     \* the request of the customer: "idle", "stored", "announced"
    panel,      \* the request of the panel: "idle", "stored", "announced"
    closing,    \* the panel sends its answer and closes
    byHand,     \* the status was chosen by somebody since the last message
    crossed     \* the last message came while the other side had a request under way, or was cut off

vars == <<status, messages, portal, panel, closing, byHand, crossed>>

TypeOK ==
    /\ status \in Statuses \cup {"none"}
    /\ messages \in Seq(Authors) /\ Len(messages) <= MaxMessages
    /\ portal \in {"idle", "stored"} /\ panel \in {"idle", "stored", "announced"}
    /\ closing \in BOOLEAN /\ byHand \in BOOLEAN /\ crossed \in BOOLEAN

Init ==
    /\ status = "none" /\ messages = <<>>
    /\ portal = "idle" /\ panel = "idle" /\ closing = FALSE /\ byHand = FALSE /\ crossed = FALSE

Insert(author) ==
    /\ Len(messages) < MaxMessages
    /\ messages' = Append(messages, author)
    /\ byHand' = FALSE
    /\ crossed' = (portal # "idle" \/ panel # "idle")

\* Mutant: a message reopens only what has been answered.
StaysClosed(author) == IF status = "closed" THEN "closed" ELSE IF author = "customer" THEN "open" ELSE "answered"

\* The status that follows from the author of a message.
StatusAfter(author) == IF author = "customer" THEN "open" ELSE "answered"

-----------------------------------------------------------------------------
(* The portal.                                                             *)

\* A new ticket, and its first message.
Submit ==
    /\ status = "none"
    /\ status' = "open"             \* the default of the column
    /\ Insert("customer") /\ portal' = "stored"
    /\ UNCHANGED <<panel, closing>>

Reply ==
    /\ status # "none" /\ portal = "idle"
    /\ Insert("customer") /\ portal' = "stored"
    /\ UNCHANGED <<status, panel, closing>>

\* The turn of the customer's message; the admins are told after it.
CustomerTurn ==
    /\ portal = "stored" /\ portal' = "idle"
    /\ status' = StatusAfter("customer")
    /\ UNCHANGED <<messages, panel, closing, byHand, crossed>>

CustomerCloses ==
    /\ status # "none" /\ portal = "idle"
    /\ status' = "closed" /\ byHand' = TRUE
    /\ UNCHANGED <<messages, portal, panel, closing, crossed>>

-----------------------------------------------------------------------------
(* The panel.                                                              *)

Send(close) ==
    /\ status # "none" /\ panel = "idle"
    /\ Insert("admin") /\ panel' = "stored" /\ closing' = close
    /\ UNCHANGED <<status, portal>>

AdminTurn ==
    /\ panel = "stored" /\ panel' = "announced"
    /\ status' = StatusAfter("admin")
    /\ UNCHANGED <<messages, portal, closing, byHand, crossed>>

\* The announcement has gone out, or failed.
Announced ==
    /\ panel = "announced" /\ panel' = "idle"
    /\ status' = IF closing THEN "closed" ELSE status
    /\ closing' = FALSE
    /\ UNCHANGED <<messages, portal, byHand, crossed>>

SetStatus(s) ==
    /\ status # "none"
    /\ status' = s /\ byHand' = TRUE
    /\ UNCHANGED <<messages, portal, panel, closing, crossed>>

\* The web process restarts: the second statement of a request never comes.
Restart ==
    /\ portal # "idle" \/ panel # "idle"
    /\ portal' = "idle" /\ panel' = "idle" /\ closing' = FALSE /\ crossed' = TRUE
    /\ UNCHANGED <<status, messages, byHand>>

Next ==
    \/ Restart
    \/ Submit \/ Reply \/ CustomerTurn \/ CustomerCloses
    \/ AdminTurn \/ Announced
    \/ \E close \in BOOLEAN : Send(close)
    \/ \E s \in Statuses : SetStatus(s)

Spec == Init /\ [][Next]_vars

-----------------------------------------------------------------------------
\* The list of open tickets is what has work (lib/tickets.ts:13): unless the last
\* message crossed a request of the other side or a restart, or somebody chose the
\* status since, a ticket is open if the customer has the last word, closed
\* before or not, and is not on that list if it is not.
OpenIsOurTurn ==
    portal = "idle" /\ panel = "idle" /\ messages # <<>> /\ ~byHand /\ ~crossed =>
        (messages[Len(messages)] = "customer") = (status = "open")
=============================================================================
