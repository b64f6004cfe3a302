--------------------------- MODULE Announcements ---------------------------
(* Announcements: what the panel writes, who is shown it in the portal and  *)
(* who has confirmed it.                                                    *)
(*                                                                          *)
(* An announcement pops up for every customer until that customer presses   *)
(* "understood"; the press is a row of its own, and the row is the record   *)
(* of who was told what.  Two admins work from lists loaded earlier, the    *)
(* edit form carries neither the switch nor the zone of the two times, and  *)
(* a deletion counts the readers in one statement and deletes in the next.  *)
(*                                                                          *)
(* Times are whole steps.  Offset is the distance of the panel's zone from  *)
(* UTC: a form holds the digits of a UTC instant and sends them back as     *)
(* local time.  Title, text and severity are left out: no step reads them.  *)
EXTENDS Integers, Sequences

CONSTANTS
    Admins,       \* who writes announcements
    Customers,    \* who is shown them
    Offset,       \* the zone of the panel, in steps of time
    Plans,        \* the ranges an admin may type: [starts, ends]
    None,         \* no limit at that end: not a time
    MaxMade,      \* bound: announcements ever made
    MaxActs,      \* bound: presses and saves of the admins
    MaxNow        \* bound: time

Ends == {"starts", "ends"}

AnnouncementsAssumption ==
    /\ MaxMade \in Nat \ {0} /\ {MaxActs, MaxNow, Offset} \subseteq Nat /\ None \notin Int
    /\ Plans \subseteq [Ends -> Int \union {None}]
    /\ \A p \in Plans : p.starts = None \/ p.ends = None \/ p.starts < p.ends

VARIABLES
    board,        \* table announcements, by id
    made,         \* announcements ever made: the next id is made + 1
    reads,        \* table announcement_reads: pairs of customer and id
    lists,        \* what the page of an admin holds: the rows and who had seen them
    removing,     \* a deletion that has counted the readers: an id, or 0
    modal,        \* what the portal of a customer shows, one after the other
    time,
    acts,         \* presses and saves so far
    confirmed,    \* history: presses of "understood" the panel has taken
    overlapped    \* history: those that fell between the count and the deletion

Unplanned == [planned |-> [e \in Ends |-> None], moved |-> [e \in Ends |-> 0]]
SeenOf(id) == {c \in Customers : <<c, id>> \in reads}

Init ==
    /\ board = << >> /\ made = 0 /\ reads = {} /\ time = 0 /\ acts = 0
    /\ lists = [a \in Admins |-> [rows |-> << >>, seen |-> {}]]
    /\ removing = [a \in Admins |-> 0]
    /\ modal = [c \in Customers |-> << >>]
    /\ confirmed = {} /\ overlapped = {}

-----------------------------------------------------------------------------
(* The page of the panel.                                                   *)

\* The page shows of every announcement its switch and how many have seen it.
Load(a) ==
    /\ lists' = [lists EXCEPT ![a] = [rows |-> board, seen |-> {id \in DOMAIN board : SeenOf(id) # {}}]]
    /\ UNCHANGED <<board, made, reads, removing, modal, time, acts, confirmed, overlapped>>

\* What the badge says: on, but not begun or over, is not being shown.
Badge(r) ==
    IF ~r.active THEN "off"
    ELSE IF r.starts # None /\ r.starts > time THEN "scheduled"
    ELSE IF r.ends # None /\ r.ends <= time THEN "expired" ELSE "live"

\* The first digits of the instant, in UTC, without the zone.
Digits(t) == IF t = None THEN None ELSE t - Offset

\* What a form holds when it is opened for a new announcement or a copy of an old
\* one (without its times), or for the row as the list has it; and a time typed over it.
Blank == [starts |-> None, ends |-> None, typed |-> Ends, from |-> Unplanned]
Filled(r) ==
    [starts |-> Digits(r.starts), ends |-> Digits(r.ends), typed |-> {},
     from |-> [planned |-> r.planned, moved |-> r.moved]]
Typed(f, p, ends) ==
    [f EXCEPT !.starts = IF "starts" \in ends THEN p.starts ELSE @,
              !.ends = IF "ends" \in ends THEN p.ends ELSE @, !.typed = @ \cup ends]

-----------------------------------------------------------------------------
(* The routes.                                                              *)

Refused(f) == f.starts # None /\ f.ends # None /\ f.starts >= f.ends

\* The form sends no switch, and a missing switch is on.  The history keeps the
\* time typed last, how often the form has sent it back, and what the switch
\* was last meant to be.
Stored(f, meant) ==
    [active |-> TRUE, starts |-> f.starts, ends |-> f.ends, meant |-> meant, strayed |-> ~meant,
     planned |-> [e \in Ends |-> IF e \in f.typed THEN f[e] ELSE f.from.planned[e]],
     moved |-> [e \in Ends |-> IF e \in f.typed THEN 0 ELSE f.from.moved[e] + 1]]

\* A form is filled and sent in one step: the row it was filled from is as old as
\* the list.
Publish(a) ==
    /\ made < MaxMade /\ acts < MaxActs
    /\ \E p \in Plans :
         LET f == Typed(Blank, p, Ends) IN
         /\ ~Refused(f)
         /\ board' = [i \in DOMAIN board \cup {made + 1} |-> IF i = made + 1 THEN Stored(f, TRUE) ELSE board[i]]
    /\ made' = made + 1 /\ acts' = acts + 1
    /\ UNCHANGED <<reads, lists, removing, modal, time, confirmed, overlapped>>

Save(a) ==
    /\ acts < MaxActs
    /\ \E id \in DOMAIN lists[a].rows \cap DOMAIN board, p \in Plans, ends \in SUBSET Ends :
         LET f == Typed(Filled(lists[a].rows[id]), p, ends) IN
         /\ ~Refused(f)
         /\ board' = [board EXCEPT ![id] = Stored(f, @.meant)]
    /\ acts' = acts + 1
    /\ UNCHANGED <<made, reads, lists, removing, modal, time, confirmed, overlapped>>

\* The button says "off" or "on" as the list has it; the route turns the switch over.
Turned(r, shown) == [r EXCEPT !.active = ~r.active, !.meant = ~shown, !.strayed = shown # r.active]

Toggle(a) ==
    /\ acts < MaxActs
    /\ \E id \in DOMAIN lists[a].rows \cap DOMAIN board :
         board' = [board EXCEPT ![id] = Turned(@, lists[a].rows[id].active)]
    /\ acts' = acts + 1
    /\ UNCHANGED <<made, reads, lists, removing, modal, time, confirmed, overlapped>>

\* Mutant: the route trusts the list.
DeletableAny(id) == TRUE

\* The rows of the list with their buttons: deleting is offered where the list
\* counts no readers, and the route counts again.
Offered(a) == DOMAIN lists[a].rows \ lists[a].seen
Deletable(id) == SeenOf(id) = {}

Count(a) ==
    /\ removing[a] = 0 /\ acts < MaxActs
    /\ \E id \in Offered(a) \cap DOMAIN board :
         /\ Deletable(id)
         /\ removing' = [removing EXCEPT ![a] = id]
    /\ acts' = acts + 1
    /\ UNCHANGED <<board, made, reads, lists, modal, time, confirmed, overlapped>>

\* The readers go with the row.
Erase(a) ==
    /\ removing[a] # 0
    /\ board' = [i \in DOMAIN board \ {removing[a]} |-> board[i]]
    /\ reads' = {r \in reads : r[2] # removing[a]}
    /\ removing' = [removing EXCEPT ![a] = 0]
    /\ UNCHANGED <<made, lists, modal, time, acts, confirmed, overlapped>>

-----------------------------------------------------------------------------
(* The portal.                                                              *)

Live(r) == r.active /\ (r.starts = None \/ r.starts <= time) /\ (r.ends = None \/ r.ends > time)

\* Mutant: the first customer to confirm closes it for all.
UnreadByAll(c) == {id \in DOMAIN board : Live(board[id])} \ {r[2] : r \in reads}

\* Chosen by the table, not by the page: live, and not confirmed by this customer.
Unread(c) == {id \in DOMAIN board : Live(board[id]) /\ <<c, id>> \notin reads}

\* Those not confirmed yet, the newest first, each time the portal is opened.
Open(c) ==
    /\ modal' = [modal EXCEPT ![c] = SelectSeq([i \in 1..made |-> made + 1 - i], LAMBDA id : id \in Unread(c))]
    /\ UNCHANGED <<board, made, reads, lists, removing, time, acts, confirmed, overlapped>>

\* One at a time; the window has no way out but its button.
Current(c) == Head(modal[c])

\* The window closes when the answer is back; a press again after a lost one
\* finds the row and changes nothing.  Of a deleted one the row cannot be
\* written: the window shows the error and stays.
Understood(c) ==
    /\ modal[c] # << >> /\ Current(c) \in DOMAIN board
    /\ LET id == Current(c) IN
       /\ reads' = reads \cup {<<c, id>>}
       /\ confirmed' = confirmed \cup {<<c, id>>}
       /\ overlapped' = IF \E a \in Admins : removing[a] = id THEN overlapped \cup {<<c, id>>} ELSE overlapped
       /\ \/ modal' = [modal EXCEPT ![c] = Tail(@)]
          \/ UNCHANGED modal
    /\ UNCHANGED <<board, made, lists, removing, time, acts>>

Tick ==
    /\ time < MaxNow /\ time' = time + 1
    /\ UNCHANGED <<board, made, reads, lists, removing, modal, acts, confirmed, overlapped>>

Next ==
    \/ \E a \in Admins :
         \/ Load(a) \/ Publish(a) \/ Save(a) \/ Toggle(a) \/ Count(a) \/ Erase(a)
    \/ \E c \in Customers : Open(c) \/ Understood(c)
    \/ Tick

-----------------------------------------------------------------------------
(* The record of who was told: a press of "understood" stays recorded,      *)
(* whatever the admins do from old lists, unless it fell between the count   *)
(* of a deletion and the deletion.                                          *)
RecordKept == \A p \in confirmed : p \in reads \/ p \in overlapped

(* Everyone for himself: a live announcement a customer has not confirmed    *)
(* is what his portal would be given, whoever else has confirmed it.        *)
ForEachCustomer ==
    \A c \in Customers, id \in DOMAIN board :
        id \in Unread(c) <=> Badge(board[id]) = "live" /\ <<c, id>> \notin confirmed

(* The switch is as the last press meant it, unless that was made from a     *)
(* list older than another's press, or an edit has switched it on since.     *)
AsMeant == \A id \in DOMAIN board : board[id].active = board[id].meant \/ board[id].strayed

(* A time nobody types again is earlier by one offset for each save of the   *)
(* form, and by no more: the drift has no other source.                      *)
DriftsBySaves ==
    \A id \in DOMAIN board, e \in Ends :
        board[id][e] = IF board[id].planned[e] = None THEN None
                       ELSE board[id].planned[e] - Offset * board[id].moved[e]

(* What the four say together of announcements.                              *)
AnnouncementsHold == RecordKept /\ ForEachCustomer /\ AsMeant /\ DriftsBySaves
=============================================================================
