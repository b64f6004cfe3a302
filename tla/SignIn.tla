------------------------------- MODULE SignIn -------------------------------
(***************************************************************************)
(* Signing in, with a code sent by SMS or with a password, and changing    *)
(* the password: the forms in the browser, the routes, which are several   *)
(* queries each, the cookie.  The limit of requests is in RateLimit: here  *)
(* a request that is turned away is one that was not made.                 *)
(*                                                                         *)
(* One account, used from several browsers behind one address; way says    *)
(* whether they use codes or the password.  A session lasts seven days and *)
(* does not run out here.  Time is in steps of the shortest of the periods.*)
(***************************************************************************)
EXTENDS Integers, Sequences, FiniteSets

CONSTANTS
    Browsers, Passwords,
    RESEND_COOLDOWN, TTL, Hour,    \* periods of a code
    MAX_ATTEMPTS, MAX_PER_HOUR,
    MaxNow, MaxCodes, MaxWrites, MaxEvents   \* bounds: time, codes, passwords written, admins and restarts

SignInAssumption ==
    /\ IsFiniteSet(Browsers) /\ Browsers # {} /\ Passwords # {}
    /\ {RESEND_COOLDOWN, TTL, Hour, MAX_ATTEMPTS, MAX_PER_HOUR} \subseteq Nat \ {0}
    /\ RESEND_COOLDOWN < TTL /\ TTL < Hour
    /\ {MaxNow, MaxCodes, MaxWrites, MaxEvents} \subseteq Nat

VARIABLES
    way,       \* "code" or "password"
    next,      \* the page that was asked for without a session
    now,
    account,   \* the row of users; writes is a history: how often somebody else could notice a change
    codes,     \* otp_codes in the order of created_at; crossed is a history: another request came between
    inbox,     \* the codes that have reached the phone
    form,      \* OtpForm, or the form of the password, in each browser
    req,       \* the request of each browser between its queries
    session,   \* the cookie of each browser and the page it is on
    opened,    \* history: the codes that have opened a session
    events

vars == <<way, next, now, account, codes, inbox, form, req, session, opened, events>>

NoRequest == [pc |-> "none", row |-> 0, attempts |-> 0, typed |-> 0, word |-> "", read |-> "", new |-> "",
              seen |-> 0, spent |-> FALSE]
NewForm == [sent |-> FALSE, left |-> 0, known |-> 0, refused |-> FALSE]
SignedOut == [role |-> "none", at |-> "login"]

\* The middleware: without a session a page leads to /login, which remembers it.
Middleware == {"none", "panel", "portal"}

First == CHOOSE w \in Passwords : TRUE

\* A code of the hour before, used up.
Earlier == [made |-> 0 - 1, attempts |-> 1, consumed |-> TRUE, crossed |-> FALSE]

Init ==
    /\ way \in {"code", "password"}
    /\ next \in (IF way = "code" THEN {"panel"} ELSE Middleware)
    /\ now = 0
    /\ \E r \in (IF way = "code" THEN {"customer"} ELSE {"customer", "admin"}) :
          account = [active |-> TRUE, role |-> r, word |-> First, writes |-> 0]
    /\ codes = <<Earlier>> /\ inbox = {}
    /\ form = [b \in Browsers |-> NewForm]
    /\ req = [b \in Browsers |-> NoRequest]
    /\ session = [b \in Browsers |-> SignedOut]
    /\ opened = {} /\ events = 0

-----------------------------------------------------------------------------
(* The guard of the pages, and the session.                                *)

\* "goHome": the remembered page when it is of the role, else the page of the role.
GoHome ==
    LET home == IF account.role = "customer" THEN "portal" ELSE "panel"
    IN  IF next # "none" /\ (home = "panel" \/ next = "portal") THEN next ELSE home

Answer(b) == req' = [req EXCEPT ![b] = NoRequest]

\* The cookie says the role for as long as it lasts; the routes ask nothing else.
Token(role) == [role |-> role, at |-> GoHome]
Serves(role, page) == role # "none" /\ (page = "portal") = (role = "customer")
SignedIn(b) == session[b].role # "none"

\* startSession, and the page goes on.
StartSession(b) ==
    /\ req[b].pc = "session"
    /\ session' = [session EXCEPT ![b] = Token(account.role)]
    /\ opened' = opened \union (IF way = "code" THEN {req[b].row} ELSE {})
    /\ Answer(b) /\ form' = [form EXCEPT ![b] = NewForm]
    /\ UNCHANGED <<way, next, now, account, codes, inbox,  events>>

Logout(b) ==
    /\ SignedIn(b) /\ req[b].pc = "none"
    /\ session' = [session EXCEPT ![b] = SignedOut]
    /\ UNCHANGED <<way, next, now, account, codes, inbox, form, req, opened, events>>

-----------------------------------------------------------------------------
(* requestOtp and the form that asks.                                      *)

Asking == {b \in Browsers : req[b].pc \in {"recent", "replace", "insert"}}

\* The button waits for its countdown.
Request(b) ==
    /\ way = "code" /\ ~SignedIn(b) /\ req[b].pc = "none"
    /\ form[b].left = 0 /\ Len(codes) + Cardinality(Asking) < MaxCodes
    /\ req' = [req EXCEPT ![b].pc = "recent"]
    /\ UNCHANGED <<way, next, now, account, codes, inbox, form, session, opened, events>>

\* The number is changed: the form begins again, and so does its countdown.
ChangeNumber(b) ==
    /\ form[b].sent /\ req[b].pc = "none"
    /\ form' = [form EXCEPT ![b] = NewForm]
    /\ UNCHANGED <<way, next, now, account, codes, inbox, req, session, opened, events>>

\* Mutant: the seconds left are one too few.
OneTooFew(elapsed) == RESEND_COOLDOWN - elapsed - 1

\* "retryAfter".
RetryAfter(elapsed) == RESEND_COOLDOWN - elapsed

LastAt == codes[Len(codes)].made
InHour == {i \in DOMAIN codes : now - codes[i].made < Hour}

\* Too soon after the last code, the form shows its field and counts down what is
\* left; too many in an hour is an error; without an account all looks as if it were sent.
Recent(b) ==
    /\ req[b].pc = "recent"
    /\ IF codes # <<>> /\ now - LastAt < RESEND_COOLDOWN
       THEN /\ form' = [form EXCEPT ![b].sent = TRUE, ![b].left = RetryAfter(now - LastAt), ![b].known = Len(codes),
                                    ![b].refused = form[b].sent /\ form[b].known = Len(codes)]
            /\ Answer(b)
       ELSE IF Cardinality(InHour) >= MAX_PER_HOUR
       THEN Answer(b) /\ UNCHANGED form
       ELSE IF ~account.active
       THEN /\ form' = [form EXCEPT ![b].sent = TRUE, ![b].left = RESEND_COOLDOWN, ![b].known = Len(codes)]
            /\ Answer(b)
       ELSE req' = [req EXCEPT ![b].pc = "replace", ![b].seen = Len(codes)] /\ UNCHANGED form
    /\ UNCHANGED <<way, next, now, account, codes, inbox,  session, opened, events>>

\* The codes before are void.
Replace(b) ==
    /\ req[b].pc = "replace"
    /\ codes' = [i \in DOMAIN codes |-> [codes[i] EXCEPT !.consumed = TRUE]]
    /\ req' = [req EXCEPT ![b].pc = "insert"]
    /\ UNCHANGED <<way, next, now, account, inbox, form, session, opened, events>>

Insert(b) ==
    /\ req[b].pc = "insert"
    /\ codes' = Append(codes, [made |-> now, attempts |-> 0, consumed |-> FALSE,
                               crossed |-> Len(codes) # req[b].seen])
    /\ req' = [req EXCEPT ![b].pc = "sms", ![b].row = Len(codes) + 1]
    /\ UNCHANGED <<way, next, now, account, inbox, form, session, opened, events>>

\* A message that is not taken is an error message; its row stays.
SendSms(b) ==
    /\ req[b].pc = "sms"
    /\ \/ /\ inbox' = inbox \union {req[b].row}
          /\ form' = [form EXCEPT ![b].sent = TRUE, ![b].left = RESEND_COOLDOWN, ![b].known = Len(codes)]
       \/ UNCHANGED <<inbox, form>>
    /\ Answer(b)
    /\ UNCHANGED <<way, next, now, account, codes,  session, opened, events>>

-----------------------------------------------------------------------------
(* verifyOtp.                                                              *)

\* The last code is typed, if it has reached the phone, or a wrong or older one (0).
Verify(b) ==
    /\ way = "code" /\ form[b].sent /\ ~SignedIn(b) /\ req[b].pc = "none"
    /\ \E c \in {0} \union (inbox \intersect {Len(codes)}) : req' = [req EXCEPT ![b].pc = "read", ![b].typed = c]
    /\ UNCHANGED <<way, next, now, account, codes, inbox, form, session, opened, events>>

\* Only the last code of the number counts.
Usable(c) == ~c.consumed /\ now < c.made + TTL /\ c.attempts < MAX_ATTEMPTS

ReadRow(b) ==
    /\ req[b].pc = "read"
    /\ IF codes # <<>> /\ Usable(codes[Len(codes)])
       THEN req' = [req EXCEPT ![b].pc = "count", ![b].row = Len(codes), ![b].spent = Len(codes) \in opened]
       ELSE Answer(b)
    /\ UNCHANGED <<way, next, now, account, codes, inbox, form, session, opened, events>>

\* The attempt is counted, then compared.
Count(b) ==
    /\ req[b].pc = "count"
    /\ codes' = [codes EXCEPT ![req[b].row].attempts = @ + 1]
    /\ IF req[b].typed = req[b].row THEN req' = [req EXCEPT ![b].pc = "user"] ELSE Answer(b)
    /\ UNCHANGED <<way, next, now, account, inbox, form, session, opened, events>>

FindUser(b) ==
    /\ req[b].pc = "user"
    /\ req' = [req EXCEPT ![b].pc = IF account.active THEN "consume" ELSE "burn", ![b].seen = account.writes]
    /\ UNCHANGED <<way, next, now, account, codes, inbox, form, session, opened, events>>

\* Mutant: the code is not marked as used.
NotMarked(c) == c

\* "consumed_at = now()".
Consumed(c) == [c EXCEPT !.consumed = TRUE]

\* The code is used up, whether a session follows or the account is no longer active.
Consume(b) ==
    /\ req[b].pc \in {"consume", "burn"}
    /\ codes' = [codes EXCEPT ![req[b].row] = Consumed(@)]
    /\ IF req[b].pc = "burn" THEN Answer(b) ELSE req' = [req EXCEPT ![b].pc = "session"]
    /\ UNCHANGED <<way, next, now, account, inbox, form, session, opened, events>>

-----------------------------------------------------------------------------
(* The password: to sign in, and to change it.                             *)

\* The account is read; then the password is compared, which takes its time.
Login(b) ==
    /\ way = "password" /\ ~SignedIn(b) /\ req[b].pc = "none"
    /\ account.active
    /\ \E w \in Passwords :
          req' = [req EXCEPT ![b].pc = "compare", ![b].word = w, ![b].read = account.word, ![b].seen = account.writes]
    /\ UNCHANGED <<way, next, now, account, codes, inbox, form, session, opened, events>>

VerifyPassword(word, stored) == word = stored

CheckLogin(b) ==
    /\ req[b].pc = "compare"
    /\ IF VerifyPassword(req[b].word, req[b].read) THEN req' = [req EXCEPT ![b].pc = "session"] ELSE Answer(b)
    /\ UNCHANGED <<way, next, now, account, codes, inbox, form, session, opened, events>>

\* The profile: the current password is asked for and compared; the new one was typed twice.
ChangePassword(b) ==
    /\ way = "password" /\ Serves(session[b].role, "portal") /\ req[b].pc = "none"
    /\ \E w, new \in Passwords :
          req' = [req EXCEPT ![b].pc = "current", ![b].word = w, ![b].new = new,
                             ![b].read = account.word, ![b].seen = account.writes]
    /\ UNCHANGED <<way, next, now, account, codes, inbox, form, session, opened, events>>

CheckCurrent(b) ==
    /\ req[b].pc = "current"
    /\ IF VerifyPassword(req[b].word, req[b].read) THEN req' = [req EXCEPT ![b].pc = "write"] ELSE Answer(b)
    /\ UNCHANGED <<way, next, now, account, codes, inbox, form, session, opened, events>>

\* What was stored meanwhile is overwritten.
WritePassword(b) ==
    /\ req[b].pc = "write" /\ account.writes < MaxWrites
    /\ account' = [account EXCEPT !.word = req[b].new, !.writes = @ + 1]
    /\ Answer(b)
    /\ UNCHANGED <<way, next, now, codes, inbox, form, session, opened, events>>

-----------------------------------------------------------------------------
(* Time, admins and restarts.                                              *)

\* The forms count down once a step.
Tick ==
    /\ way = "code" /\ now < MaxNow /\ now' = now + 1
    /\ form' = [b \in Browsers |-> [form[b] EXCEPT !.left = IF @ > 0 THEN @ - 1 ELSE 0]]
    /\ UNCHANGED <<way, next, account, codes, inbox, req, session, opened, events>>

\* The customer is made inactive, or a login is given anew.
Deactivate ==
    /\ account.active /\ account.role = "customer"
    /\ account' = [account EXCEPT !.active = FALSE, !.writes = @ + 1]
GiveLogin ==
    \E w \in (IF way = "code" THEN {First} ELSE Passwords) :
        /\ w # account.word \/ ~account.active
        /\ account' = [account EXCEPT !.active = TRUE, !.word = w, !.writes = @ + 1]

Admin ==
    /\ events < MaxEvents /\ events' = events + 1
    /\ Deactivate \/ GiveLogin
    /\ UNCHANGED <<way, next, now, codes, inbox, form, req, session, opened>>

\* The requests under way end in an error.
Restart ==
    /\ events < MaxEvents /\ events' = events + 1
    /\ \E b \in Browsers : req[b].pc # "none"
    /\ req' = [b \in Browsers |-> NoRequest]
    /\ UNCHANGED <<way, next, now, account, codes, inbox, form, session, opened>>

ByCode(b) == Request(b) \/ ChangeNumber(b) \/ Recent(b) \/ Replace(b) \/ Insert(b) \/ SendSms(b)
             \/ Verify(b) \/ ReadRow(b) \/ Count(b) \/ FindUser(b) \/ Consume(b)
ByPassword(b) == Login(b) \/ CheckLogin(b) \/ ChangePassword(b) \/ CheckCurrent(b) \/ WritePassword(b)

Next ==
    \/ \E b \in Browsers : ByCode(b) \/ ByPassword(b) \/ StartSession(b) \/ Logout(b)
    \/ Tick \/ Admin \/ Restart

Spec == Init /\ [][Next]_vars

-----------------------------------------------------------------------------
\* A code that has opened a session opens none to a request that comes later
\* (lib/otp.ts:284, "one use"); two requests that cross may both go in.
UsedOnce == \A b \in Browsers : req[b].pc = "session" => ~req[b].spent

\* Codes are a cooldown apart, so many in an hour, and one of them is alive at most,
\* unless the requests for them crossed: the count is read before the row is written.
CodesApart ==
    \A j \in DOMAIN codes : (\A i \in 1..j : ~codes[i].crossed) =>
        /\ \A i \in 1..(j - 1) : codes[j].made - codes[i].made >= RESEND_COOLDOWN
        /\ Cardinality({i \in 1..j : codes[j].made - codes[i].made < Hour}) <= MAX_PER_HOUR
        /\ \A i \in 1..(j - 1) : codes[i].consumed

\* A code is compared so often and, the count being read before it is raised, once
\* more at most for each other request under way (lib/otp.ts:239-242).
AttemptsBounded == \A i \in DOMAIN codes : codes[i].attempts < MAX_ATTEMPTS + Cardinality(Browsers)

\* The button that counted down to its end is not told to wait, unless another
\* request has made a code meanwhile.
WaitsEnough == \A b \in Browsers : ~form[b].refused

\* No session for an account that is not active, no password written by somebody who
\* does not know the present one, unless the account changed after it had been read.
AsRead ==
    \A b \in Browsers : account.writes = req[b].seen =>
        /\ req[b].pc = "session" => account.active
        /\ req[b].pc = "session" /\ way = "password" => req[b].word = account.word
        /\ req[b].pc = "write" => req[b].word = account.word

\* Who has signed in is on a page whose routes answer (app/login/page.tsx:20-26),
\* but for an admin who had asked for one of the portal.
LandsHome ==
    \A b \in Browsers : SignedIn(b) =>
        Serves(session[b].role, session[b].at) \/ (session[b].role = "admin" /\ next = "portal")

SignInHolds == UsedOnce /\ CodesApart /\ AttemptsBounded /\ WaitsEnough /\ AsRead /\ LandsHome
=============================================================================
