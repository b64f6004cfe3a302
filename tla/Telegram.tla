------------------------------ MODULE Telegram ------------------------------
(***************************************************************************)
(* Customers join their account to a chat with the bot (telegram-link.mjs, *)
(* api/portal/telegram, TelegramLink.tsx).  The portal makes a code; the   *)
(* customer sends it to the bot; the worker reads what was sent to the bot *)
(* every ten seconds, joins or leaves, and stores how far it has read at   *)
(* the end of the round.  Telegram repeats what is not confirmed.  A       *)
(* notice that cannot be delivered ends the link of the customer           *)
(* (lib/customer-notify.ts); the portal ends it too.                       *)
(***************************************************************************)
EXTENDS Naturals, Sequences, FiniteSets

CONSTANTS
    Customers, Chats,
    None,
    MaxCodes, MaxSent, MaxMishaps, MaxNotices   \* bounds: codes, messages to the bot, restarts and failed statements, notices

TelegramAssumption ==
    /\ None \notin Customers \union Chats
    /\ {MaxCodes, MaxSent, MaxMishaps, MaxNotices} \subseteq Nat

VARIABLES
    link,     \* telegram_chat_id of each customer
    codes,    \* the codes ever made: whose, and whether it can be used
    sent,     \* what was sent to the bot, in order: the chat, and "stop" or the number of a code
    offset,   \* how many of them are confirmed, as stored
    worker,   \* the round: the messages in hand, and the customer whose code was just taken
    missed,   \* history: the messages to stop whose last handling threw
    notice,   \* a notice under way: customer and chat it was read with
    mishaps, notices

vars == <<link, codes, sent, offset, worker, missed, notice, mishaps, notices>>

Resting == [pc |-> "rest", at |-> 0, upto |-> 0, customer |-> None]
Quiet == [customer |-> None, chat |-> None]

Init ==
    /\ link = [c \in Customers |-> None]
    /\ codes = <<>> /\ sent = <<>> /\ offset = 0
    /\ worker = Resting /\ missed = {} /\ notice = Quiet
    /\ mishaps = 0 /\ notices = 0

\* UPDATE telegram_link_tokens SET consumed_at of one customer.
Consumed(c) == [k \in DOMAIN codes |-> IF codes[k].customer = c THEN [codes[k] EXCEPT !.live = FALSE] ELSE codes[k]]

-----------------------------------------------------------------------------
(* The portal and the customer.                                            *)

\* The codes made before become useless.  The two statements of each handler are taken
\* as one step: what comes between them meets a code that the customer has just given up.
Connect(c) ==
    /\ Len(codes) < MaxCodes
    /\ codes' = Append(Consumed(c), [customer |-> c, live |-> TRUE])
    /\ UNCHANGED <<link, sent, offset, worker, missed, notice, mishaps, notices>>

Disconnect(c) ==
    /\ link' = [link EXCEPT ![c] = None]
    /\ codes' = Consumed(c)
    /\ link[c] # None
    /\ UNCHANGED <<sent, offset, worker, missed, notice, mishaps, notices>>

\* Five minutes pass.
Expire(k) ==
    /\ codes[k].live
    /\ codes' = [codes EXCEPT ![k].live = FALSE]
    /\ UNCHANGED <<link, sent, offset, worker, missed, notice, mishaps, notices>>

Write(h) ==
    /\ Len(sent) < MaxSent
    /\ \/ sent' = Append(sent, [chat |-> h, stop |-> TRUE, code |-> 0])
       \/ \E k \in DOMAIN codes : sent' = Append(sent, [chat |-> h, stop |-> FALSE, code |-> k])
    /\ UNCHANGED <<link, codes, offset, worker, missed, notice, mishaps, notices>>

-----------------------------------------------------------------------------
(* The worker.                                                             *)

\* Mutant: what was read is confirmed at once.
ConfirmedFirst(upto) == upto

\* What is confirmed when a round begins.
Confirmed(upto) == offset

Fetch ==
    /\ worker.pc = "rest" /\ offset < Len(sent)
    /\ worker' = [pc |-> "handle", at |-> offset + 1, upto |-> Len(sent), customer |-> None]
    /\ offset' = Confirmed(Len(sent))
    /\ UNCHANGED <<link, codes, sent, missed, notice, mishaps, notices>>

Message == sent[worker.at]
NextMessage == IF worker.at < worker.upto
               THEN [worker EXCEPT !.pc = "handle", !.at = @ + 1, !.customer = None]
               ELSE [worker EXCEPT !.pc = "store", !.customer = None]

HandleStop ==
    /\ worker.pc = "handle" /\ Message.stop
    /\ link' = [c \in Customers |-> IF link[c] = Message.chat THEN None ELSE link[c]]
    /\ missed' = missed \ {worker.at}
    /\ worker' = NextMessage
    /\ UNCHANGED <<codes, sent, offset, notice, mishaps, notices>>

\* The code is taken, in one statement, if it can be.
HandleStart ==
    /\ worker.pc = "handle" /\ ~Message.stop
    /\ IF codes[Message.code].live
       THEN /\ codes' = [codes EXCEPT ![Message.code].live = FALSE]
            /\ worker' = [worker EXCEPT !.pc = "leave", !.customer = codes[Message.code].customer]
       ELSE worker' = NextMessage /\ UNCHANGED codes
    /\ UNCHANGED <<link, sent, offset, missed, notice, mishaps, notices>>

\* The chat leaves the account it was joined to before.
LeaveOthers ==
    /\ worker.pc = "leave"
    /\ link' = [c \in Customers |-> IF link[c] = Message.chat /\ c # worker.customer THEN None ELSE link[c]]
    /\ worker' = [worker EXCEPT !.pc = "join"]
    /\ UNCHANGED <<codes, sent, offset, missed, notice, mishaps, notices>>

Join ==
    /\ worker.pc = "join"
    /\ link' = [link EXCEPT ![worker.customer] = Message.chat]
    /\ worker' = NextMessage
    /\ UNCHANGED <<codes, sent, offset, missed, notice, mishaps, notices>>

Mishap == mishaps < MaxMishaps /\ mishaps' = mishaps + 1

\* A statement of a handling fails: this is logged, and the round goes on with
\* the next message; the offset moves past this one as past the others.
Throw ==
    /\ worker.pc \in {"handle", "leave", "join"}
    /\ Mishap
    /\ worker' = NextMessage
    /\ missed' = IF Message.stop THEN missed \union {worker.at} ELSE missed
    /\ UNCHANGED <<link, codes, sent, offset, notice, notices>>

StoreOffset ==
    /\ worker.pc = "store"
    /\ offset' = worker.upto
    /\ worker' = Resting
    /\ UNCHANGED <<link, codes, sent, missed, notice, mishaps, notices>>

\* A restart; the round also ends where the offset could not be stored.
Crash ==
    /\ worker.pc # "rest" /\ Mishap
    /\ worker' = Resting
    /\ UNCHANGED <<link, codes, sent, offset, missed, notice, notices>>

-----------------------------------------------------------------------------
(* notifyCustomer.                                                         *)

Notify(c) ==
    /\ notice = Quiet /\ link[c] # None /\ notices < MaxNotices
    /\ notice' = [customer |-> c, chat |-> link[c]]
    /\ notices' = notices + 1
    /\ UNCHANGED <<link, codes, sent, offset, worker, missed, mishaps>>

\* The chat cannot be reached any more: the link of the customer is ended, with
\* whatever chat it is by now.
Undeliverable ==
    /\ notice # Quiet
    /\ link' = [link EXCEPT ![notice.customer] = None]
    /\ notice' = Quiet
    /\ UNCHANGED <<codes, sent, offset, worker, missed, mishaps, notices>>

Delivered ==
    /\ notice # Quiet /\ notice' = Quiet
    /\ UNCHANGED <<link, codes, sent, offset, worker, missed, mishaps, notices>>

Worker == Fetch \/ HandleStop \/ HandleStart \/ LeaveOthers \/ Join \/ StoreOffset

Next ==
    \/ \E c \in Customers : Connect(c) \/ Disconnect(c) \/ Notify(c)
    \/ \E k \in DOMAIN codes : Expire(k)
    \/ \E h \in Chats : Write(h)
    \/ Worker \/ Throw \/ Crash \/ Undeliverable \/ Delivered

Spec == Init /\ [][Next]_vars /\ WF_vars(Worker)

-----------------------------------------------------------------------------

\* The last message of a chat is to stop, and it did not get lost in a handling that
\* threw.
Heard(h) ==
    LET own == {n \in DOMAIN sent : sent[n].chat = h}
    IN \E last \in own : sent[last].stop /\ last \notin missed /\ \A n \in own : n <= last

\* A chat is joined to one account at most, and one whose last word was stop to none
\* in the end: restarts repeat messages, failed statements lose none but the message
\* they failed for, and what was joined by a message before does not come back.
StopIsHeard ==
    /\ [](\A c, d \in Customers : c # d /\ link[c] = link[d] => link[c] = None)
    /\ <>[](\A h \in Chats : Heard(h) => \A c \in Customers : link[c] # h)

=============================================================================
