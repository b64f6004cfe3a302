---------------------------- MODULE OfficeProofs ----------------------------
(***************************************************************************)
(* Nine parts of MCOffice proved for every value of the constants: the     *)
(* status of a ticket (Tickets); a save of the settings page, its rows,    *)
(* the copy in memory and the worker's own key (Settings); the servers,    *)
(* their forms, tokens, payments and checks (Fleet); signing in (SignIn)   *)
(* and the limit of requests (RateLimit); the addresses of the anchor      *)
(* (Anchor); broadcasts, the sending of an e-mail and announcements        *)
(* (Broadcasts, Smtp, Announcements).  MCOffice runs its parts side by     *)
(* side, one of them moving at each step, so each invariant speaks of its  *)
(* own part alone and the other parts' steps leave it as it is.            *)
(***************************************************************************)
EXTENDS MCOffice, FiniteSetTheorems, SequenceTheorems, WellFoundedInduction, TLAPS

(***************************************************************************)
(* The last message of the ticket is author's.                             *)
(***************************************************************************)
LastOf(author) == messages # <<>> /\ messages[Len(messages)] = author

(***************************************************************************)
(* The inductive form of OpenIsOurTurn.  With a request between its        *)
(* message and its status the status is not yet due: the last message is   *)
(* the customer's while the portal's turn is still to come or the status   *)
(* says open, and the admin's while the panel's is still to come or the    *)
(* status has left open.  Hand-set statuses and crossed requests are out.  *)
(***************************************************************************)
TicketInv ==
    /\ messages \in Seq(K!Authors)
    /\ status \in K!Statuses \cup {"none"} /\ portal \in {"idle", "stored"} /\ panel \in {"idle", "stored", "announced"}
    /\ status = "none" => messages = <<>> /\ portal = "idle" /\ panel = "idle"
    /\ LastOf("customer") /\ ~crossed =>
          panel = "idle" /\ (byHand \/ portal = "stored" \/ status = "open")
    /\ LastOf("admin") /\ ~crossed =>
          /\ portal = "idle"
          /\ byHand \/ panel = "stored" \/ status \in {"answered", "closed"}

(***************************************************************************)
(* A message that is inserted is the last one, and the requests crossed    *)
(* when another one was between its two statements.                        *)
(***************************************************************************)
LEMMA Inserted ==
    ASSUME TicketInv, NEW author \in K!Authors, K!Insert(author)
    PROVE  /\ messages' \in Seq(K!Authors) /\ messages' # <<>> /\ messages'[Len(messages')] = author
           /\ crossed' = (portal # "idle" \/ panel # "idle")
BY AppendProperties DEF TicketInv, K!Insert

(***************************************************************************)
(* Every statement of the portal's and the panel's requests on a ticket    *)
(* keeps TicketInv.                                                        *)
(***************************************************************************)
LEMMA TicketStep == ASSUME TicketInv, K!Next PROVE TicketInv'
<1>0. "customer" \in K!Authors /\ "admin" \in K!Authors /\ "customer" # "admin"
    BY DEF K!Authors
<1>1. CASE K!Submit \/ K!Reply
    <2>1. /\ K!Insert("customer") /\ portal' = "stored" /\ panel' = panel
          /\ status' \in K!Statuses /\ status' # "none"
          /\ portal = "idle"
        BY <1>1 DEF K!Submit, K!Reply, TicketInv, K!Statuses
    <2> QED BY <1>0, <2>1, Inserted DEF TicketInv, LastOf
<1>2. CASE \E close \in BOOLEAN : K!Send(close)
    <2>1. /\ K!Insert("admin") /\ panel' = "stored" /\ portal' = portal /\ status' = status /\ panel = "idle" /\ status # "none"
        BY <1>2 DEF K!Send
    <2> QED BY <1>0, <2>1, Inserted DEF TicketInv, LastOf
<1>3. CASE K!CustomerTurn \/ K!CustomerCloses \/ K!AdminTurn \/ K!Announced \/ K!Restart \/ \E s \in K!Statuses : K!SetStatus(s)
    <2>1. messages' = messages
        BY <1>3 DEF K!CustomerTurn, K!CustomerCloses, K!AdminTurn, K!Announced, K!Restart, K!SetStatus
    <2>2. CASE K!CustomerTurn
        BY <2>1, <2>2 DEF K!CustomerTurn, K!StatusAfter, TicketInv, LastOf, K!Statuses
    <2>3. CASE K!CustomerCloses \/ \E s \in K!Statuses : K!SetStatus(s)
        BY <2>1, <2>3 DEF K!CustomerCloses, K!SetStatus, TicketInv, LastOf, K!Statuses
    <2>4. CASE K!AdminTurn
        BY <2>1, <2>4 DEF K!AdminTurn, K!StatusAfter, TicketInv, LastOf, K!Statuses
    <2>5. CASE K!Announced
        BY <2>1, <2>5 DEF K!Announced, TicketInv, LastOf, K!Statuses
    <2>6. CASE K!Restart
        BY <2>1, <2>6 DEF K!Restart, TicketInv, LastOf, K!Statuses
    <2> QED BY <1>3, <2>2, <2>3, <2>4, <2>5, <2>6
<1> QED BY <1>1, <1>2, <1>3 DEF K!Next

(***************************************************************************)
(* With no request under way, no status set by hand and no two requests    *)
(* crossed, a ticket is open exactly when its last message is the          *)
(* customer's, whatever the number of messages, customers' replies,        *)
(* closings and restarts of the panel.                                     *)
(***************************************************************************)
THEOREM OpenIsOurTurnHolds == Spec => []OpenIsOurTurn
<1>1. Init => TicketInv
    BY DEF Init, K!Init, TicketInv, LastOf
<1>2. TicketInv /\ [Next]_vars => TicketInv'
    <2> SUFFICES ASSUME TicketInv, [Next]_vars PROVE TicketInv'
        OBVIOUS
    <2>1. CASE UNCHANGED kvars
        BY <2>1 DEF kvars, TicketInv, LastOf
    <2>2. CASE K!Next
        BY <2>2, TicketStep
    <2> QED BY <2>1, <2>2 DEF Next, vars, talk, OnlyMessages, OnlyMail, OnlyAnchor, OnlyBilling, OnlyCalendar, OnlyDiff,
        OnlyTickets, OnlySignIn, OnlyLimiter, OnlyAnnouncements, OnlySettings, OnlyBackfill, OnlyFleet
<1>3. TicketInv => OpenIsOurTurn
    <2> SUFFICES ASSUME TicketInv, portal = "idle", panel = "idle", messages # <<>>, ~byHand, ~crossed
                 PROVE  (messages[Len(messages)] = "customer") = (status = "open")
        BY DEF OpenIsOurTurn, K!OpenIsOurTurn
    <2>1. messages[Len(messages)] \in {"customer", "admin"}
        BY DEF TicketInv, K!Authors
    <2> QED BY <2>1 DEF TicketInv, LastOf
<1> QED BY <1>1, <1>2, <1>3, PTL DEF Spec

-----------------------------------------------------------------------------
(***************************************************************************)
(* A set of numbers that is not empty has a least one.                     *)
(***************************************************************************)
LEMMA Least ==
    ASSUME NEW X \in SUBSET Nat, X # {}
    PROVE  \E i \in X : \A j \in X : i <= j
<1>1. PICK i \in X : \A j \in X : <<j, i>> \notin OpToRel(<, Nat)
    BY NatLessThanWellFounded, WFMin, Zenon
<1>2. \A j \in X : ~ j < i
    BY <1>1 DEF OpToRel
<1> QED BY <1>2

(***************************************************************************)
(* Every field of the settings page, every secret and every key kept to    *)
(* admins is a key the route writes.                                       *)
(***************************************************************************)
LEMMA FieldsListed == H!Fields \cup H!SECRET \cup H!ADMIN_ONLY \subseteq H!Allowed
<1>1. H!SmsFields \cup H!TelegramFields \cup H!CustomerFields \subseteq H!Allowed
    BY DEF H!SmsFields, H!TelegramFields, H!CustomerFields, H!Allowed, H!ALLOWED
<1>2. H!EmailFields \subseteq H!Allowed
    BY DEF H!EmailFields, H!Allowed, H!ALLOWED
<1>3. H!InvoiceFields \cup H!GatewayFields \subseteq H!Allowed
    BY DEF H!InvoiceFields, H!GatewayFields, H!Allowed, H!ALLOWED
<1>4. H!WatchFields \subseteq H!Allowed
    BY DEF H!WatchFields, H!Allowed, H!ALLOWED
<1>5. H!SECRET \cup H!ADMIN_ONLY \subseteq H!Allowed
    BY DEF H!SECRET, H!ADMIN_ONLY, H!Allowed, H!ALLOWED
<1> QED BY <1>1, <1>2, <1>3, <1>4, <1>5 DEF H!Fields

(***************************************************************************)
(* Every choice the page's lists offer is a value the route takes.         *)
(***************************************************************************)
LEMMA OffersTaken == \A key \in DOMAIN H!Offered : key \in H!Fields /\ H!Offered[key] \subseteq H!Taken[key]
<1>1. DOMAIN H!Offered = {"smtp_security", "payping_version", "payping_unit", "traffic_calendar"}
    BY DEF H!Offered
<1>2. DOMAIN H!Offered \subseteq H!Fields
    BY <1>1 DEF H!Fields, H!EmailFields, H!GatewayFields, H!WatchFields
<1> QED BY <1>1, <1>2 DEF H!Offered, H!Taken

(***************************************************************************)
(* The key the worker keeps among the settings is none the route writes.   *)
(***************************************************************************)
LEMMA WorkersOwn == H!WorkersKey \notin H!Allowed
BY DEF H!WorkersKey, H!Allowed, H!ALLOWED

(***************************************************************************)
(* The key that a save writes next is one of the keys it has left.         *)
(***************************************************************************)
LEMMA NextIsLeft == ASSUME NEW p, DOMAIN p # {} PROVE H!NextKey(p) \in DOMAIN p
<1>1. CASE H!Listed(p) = {}
    BY <1>1 DEF H!NextKey
<1>2. CASE H!Listed(p) # {}
    <2>1. H!Listed(p) \in SUBSET Nat
        BY DEF H!Listed, H!ALLOWED
    <2>2. \E i \in H!Listed(p) : \A j \in H!Listed(p) : i <= j
        BY <1>2, <2>1, Least
    <2> DEFINE i == CHOOSE i \in H!Listed(p) : \A j \in H!Listed(p) : i <= j
    <2>3. i \in H!Listed(p)
        BY <2>2
    <2>4. H!NextKey(p) = H!ALLOWED[i]
        BY <1>2 DEF H!NextKey
    <2> QED BY <2>3, <2>4 DEF H!Listed
<1> QED BY <1>1, <1>2

(***************************************************************************)
(* The keys every save of the page carries: the secrets left empty and the *)
(* keys kept to admins are dropped, and the worker's own is never sent.    *)
(***************************************************************************)
Shared == keys \ (H!SECRET \cup H!ADMIN_ONLY \cup {H!WorkersKey})
Writing(u) == saving[u].step = "write"
Same(data) == \A key \in keys \ {H!WorkersKey} : data[key] = table[key]

(***************************************************************************)
(* What a request under way holds, check or write: its fields are keys of  *)
(* the page and of the route, a secret among them was typed, and from the  *)
(* check on the values are good and an operator's patch has lost the       *)
(* admins' keys.                                                           *)
(***************************************************************************)
Save == {"step", "id", "patch", "typed"}
SaveKept(u) ==
    \/ saving[u] = H!Unsent
    \/ /\ DOMAIN saving[u] = Save
       /\ saving[u].step \in {"check", "write"}
       /\ DOMAIN saving[u].patch \subseteq keys \cap H!Allowed
       /\ \A key \in DOMAIN saving[u].patch \cap H!SECRET : key \in saving[u].typed
       /\ saving[u].step = "check" => Shared \subseteq DOMAIN saving[u].patch
       /\ saving[u].step = "write" =>
             /\ \A key \in H!SWITCH_NUM \cap DOMAIN saving[u].patch : saving[u].patch[key] # Empty
             /\ u \in Admins \/ DOMAIN saving[u].patch \cap H!ADMIN_ONLY = {}

(***************************************************************************)
(* The rows: as the database began them, no count of switches left empty,  *)
(* and the parts of OldPagesHarmless, which each row keeps by itself.      *)
(***************************************************************************)
RowsKept ==
    /\ keys \in KeySets /\ DOMAIN table = keys /\ DOMAIN last = keys
    /\ DOMAIN pages = People /\ \A u \in People : DOMAIN pages[u] = keys \ H!SECRET
    /\ DOMAIN saving = People /\ saves \in Nat
    /\ stale \in BOOLEAN /\ overlapping \in BOOLEAN
    /\ \A key \in keys \cap H!SWITCH_NUM : table[key] # Empty
    /\ H!OldPagesHarmless

(***************************************************************************)
(* While no two saves were writing at once: what the one writing save has  *)
(* written carries its number, and the shared rows are all of one save     *)
(* unless that one still has some of them left to write.                   *)
(***************************************************************************)
Even == \A key, other \in Shared : last[key].save = last[other].save

Together ==
    /\ \A u \in People : Writing(u) => \A key \in Shared \ DOMAIN saving[u].patch : last[key].save = saving[u].id
    /\ Even \/ \E u \in People : Writing(u) /\ Shared \cap DOMAIN saving[u].patch # {}

(***************************************************************************)
(* A copy in memory that no save crossed shows the rows, or a save is      *)
(* writing and will drop it; a read that is on its way back shows them as  *)
(* long as no save began after it.                                         *)
(***************************************************************************)
CopyKept ==
    /\ memory = H!NoCopy \/ (memory = [age |-> memory.age, data |-> memory.data] /\ memory.age \in Nat)
    /\ memory # H!NoCopy /\ ~stale /\ ~overlapping => Same(memory.data) \/ \E u \in People : Writing(u)

ReadingKept ==
    /\ \/ reading = H!NoReading
       \/ /\ reading = [data |-> reading.data, saves |-> reading.saves, beside |-> reading.beside]
          /\ reading.saves \in Nat /\ reading.saves <= saves /\ reading.beside \in BOOLEAN
    /\ reading # H!NoReading /\ ~reading.beside /\ reading.saves = saves =>
          (\A u \in People : ~H!UnderWay(u)) /\ Same(reading.data)

(***************************************************************************)
(* The inductive form of SettingsHold.                                     *)
(***************************************************************************)
SettingsInv ==
    /\ RowsKept /\ \A u \in People : SaveKept(u)
    /\ ~overlapping => Together
    /\ CopyKept /\ ReadingKept

(***************************************************************************)
(* A step that touches neither the rows nor the saves keeps SettingsInv    *)
(* when it keeps the part about the copy.                                  *)
(***************************************************************************)
LEMMA RowsUntouched ==
    ASSUME SettingsInv, UNCHANGED <<keys, table, last, saving, saves, overlapping>>,
           pages' = pages \/ (\E u \in People : pages' = [pages EXCEPT ![u] = H!Shown(table)]),
           stale' \in BOOLEAN, CopyKept', ReadingKept'
    PROVE  SettingsInv'
<1>1. RowsKept'
    BY DEF SettingsInv, RowsKept, H!Shown, H!OldPagesHarmless
<1>2. \A u \in People : SaveKept(u)'
    BY DEF SettingsInv, SaveKept, Shared
<1>3. ~overlapping' => Together'
    BY DEF SettingsInv, Together, Even, Shared, Writing
<1> QED BY <1>1, <1>2, <1>3 DEF SettingsInv

(***************************************************************************)
(* Opening the page takes the rows and leaves the secrets out.             *)
(***************************************************************************)
LEMMA ReloadStep == ASSUME SettingsInv, NEW u \in People, H!Reload(u) PROVE SettingsInv'
<1>1. UNCHANGED <<keys, table, last, saving, memory, reading, saves, overlapping, stale>>
    BY DEF H!Reload, H!settings
<1>2. CopyKept' /\ ReadingKept'
    BY <1>1 DEF SettingsInv, CopyKept, ReadingKept, Same, Writing, H!UnderWay
<1>3. stale' \in BOOLEAN
    BY <1>1 DEF SettingsInv, RowsKept
<1> QED BY <1>1, <1>2, <1>3, RowsUntouched DEF H!Reload

(***************************************************************************)
(* The three steps of the copy in memory: the read of the rows, the copy   *)
(* stored when it returns, its age.                                        *)
(***************************************************************************)
LEMMA CopyStep == ASSUME SettingsInv, H!Read \/ H!Store \/ H!Age PROVE SettingsInv'
<1>0. UNCHANGED <<keys, table, last, saving, saves, overlapping, pages>>
    BY DEF H!Read, H!Store, H!Age, H!settings
<1>1. CASE H!Read
    <2>1. memory' = memory /\ stale' = stale
          /\ reading' = [data |-> table, saves |-> saves, beside |-> \E u \in People : H!UnderWay(u)]
        BY <1>1 DEF H!Read
    <2>2. CopyKept'
        BY <1>0, <2>1 DEF SettingsInv, CopyKept, Same, Writing
    <2>3. ReadingKept'
        BY <1>0, <2>1 DEF SettingsInv, RowsKept, ReadingKept, Same, H!UnderWay
    <2>4. stale' \in BOOLEAN
        BY <2>1 DEF SettingsInv, RowsKept
    <2> QED BY <1>0, <2>2, <2>3, <2>4, RowsUntouched
<1>2. CASE H!Store
    <2>1. /\ memory' = [age |-> 0, data |-> reading.data] /\ stale' = (reading.beside \/ reading.saves # saves)
          /\ reading' = H!NoReading /\ reading # H!NoReading
        BY <1>2 DEF H!Store
    <2>2. CopyKept'
        BY <1>0, <2>1 DEF SettingsInv, CopyKept, ReadingKept, Same, Writing, H!NoCopy
    <2>3. ReadingKept'
        BY <1>0, <2>1 DEF ReadingKept, H!NoReading
    <2>4. stale' \in BOOLEAN
        BY <2>1
    <2> QED BY <1>0, <2>2, <2>3, <2>4, RowsUntouched
<1>3. CASE H!Age
    <2>1. /\ memory # H!NoCopy /\ reading' = reading
          /\ memory' = IF memory.age + 1 < TTL THEN [memory EXCEPT !.age = @ + 1] ELSE H!NoCopy
          /\ stale' = (stale /\ memory' # H!NoCopy)
        BY <1>3 DEF H!Age
    <2>2. CopyKept'
        <3>1. CASE memory' = H!NoCopy
            BY <3>1 DEF CopyKept
        <3>2. CASE memory' # H!NoCopy
            <4>1. memory' = [age |-> memory.age + 1, data |-> memory.data] /\ memory.age \in Nat
                BY <2>1, <3>2 DEF SettingsInv, CopyKept
            <4>2. memory'.data = memory.data /\ memory'.age = memory.age + 1
                BY <4>1
            <4>3. stale' = stale
                BY <2>1, <3>2 DEF SettingsInv, RowsKept
            <4> QED BY <1>0, <2>1, <4>1, <4>2, <4>3 DEF SettingsInv, CopyKept, Same, Writing
        <3> QED BY <3>1, <3>2
    <2>3. ReadingKept'
        BY <1>0, <2>1 DEF SettingsInv, ReadingKept, Same, H!UnderWay
    <2>4. stale' \in BOOLEAN
        BY <2>1
    <2> QED BY <1>0, <2>2, <2>3, <2>4, RowsUntouched
<1> QED BY <1>1, <1>2, <1>3

(***************************************************************************)
(* Sending the page: the patch carries every shared key, and of the secrets*)
(* only the typed ones.                                                    *)
(***************************************************************************)
LEMMA SendStep == ASSUME SettingsInv, H!SettingsAssumption, NEW u \in People, H!Send(u) PROVE SettingsInv'
<1>1. PICK typed \in UNION {[some -> Values] : some \in {q \in SUBSET (keys \cap H!Fields) : H!Cardinality(q) <= MaxTyped}} :
         saving' = [saving EXCEPT ![u] = [step |-> "check", id |-> saves + 1, patch |-> H!Patch(H!Over(pages[u], typed)),
                                          typed |-> DOMAIN typed]]
    BY DEF H!Send
<1>2. /\ UNCHANGED <<keys, table, last, pages, memory, reading, overlapping, stale>> /\ saves' = saves + 1
      /\ ~H!UnderWay(u)
    BY DEF H!Send, H!settings
<1> DEFINE p == H!Patch(H!Over(pages[u], typed))
<1>3. DOMAIN typed \subseteq keys
    BY <1>1
<1>4. /\ DOMAIN p \subseteq keys \cap H!Allowed
      /\ \A key \in DOMAIN p \cap H!SECRET : key \in DOMAIN typed
      /\ Shared \subseteq DOMAIN p
    <2>1. DOMAIN H!Over(pages[u], typed) = (keys \ H!SECRET) \cup DOMAIN typed
        BY DEF SettingsInv, RowsKept, H!Over
    <2>2. DOMAIN p = {q \in (keys \ H!SECRET) \cup DOMAIN typed :
                         q \in H!Allowed /\ (q \in H!SECRET => H!Over(pages[u], typed)[q] # Empty)}
        BY <2>1 DEF H!Patch
    <2>3. keys \subseteq H!Allowed \cup {H!WorkersKey}
        BY DEF SettingsInv, RowsKept, H!SettingsAssumption
    <2> QED BY <1>3, <2>2, <2>3 DEF Shared
<1> DEFINE r == [step |-> "check", id |-> saves + 1, patch |-> p, typed |-> DOMAIN typed]
<1>5. r.step = "check" /\ r.patch = p /\ r.typed = DOMAIN typed /\ r.id = saves + 1
      /\ DOMAIN r = Save
    BY DEF Save
<1>6. saving' = [saving EXCEPT ![u] = r]
    BY <1>1
<1> HIDE DEF r, p
<1>7. DOMAIN saving' = People /\ saving'[u] = r /\ \A w \in People \ {u} : saving'[w] = saving[w]
    BY <1>6 DEF SettingsInv, RowsKept
<1>8. RowsKept'
    BY <1>2, <1>7 DEF SettingsInv, RowsKept, H!OldPagesHarmless
<1>9. ASSUME NEW w \in People PROVE SaveKept(w)'
    <2>1. CASE w = u
        BY <1>2, <1>4, <1>5, <1>7, <2>1 DEF SaveKept, Shared
    <2>2. CASE w # u
        BY <1>2, <1>7, <2>2 DEF SettingsInv, SaveKept, Shared
    <2> QED BY <2>1, <2>2
<1>10. \A w \in People : Writing(w)' = Writing(w) /\ (Writing(w) => saving'[w] = saving[w])
    BY <1>2, <1>5, <1>7 DEF Writing, H!UnderWay, SettingsInv, SaveKept, H!Unsent
<1>11. ~overlapping' => Together'
    BY <1>2, <1>10 DEF SettingsInv, Together, Even, Shared
<1>12. CopyKept'
    BY <1>2, <1>10 DEF SettingsInv, CopyKept, Same
<1>13. ReadingKept'
    BY <1>2 DEF SettingsInv, RowsKept, ReadingKept
<1> QED BY <1>8, <1>9, <1>11, <1>12, <1>13 DEF SettingsInv

(***************************************************************************)
(* The route's checks: a patch it takes holds no empty count, and no       *)
(* admins' key for an operator.                                            *)
(***************************************************************************)
LEMMA CheckStep == ASSUME SettingsInv, NEW u \in People, H!Check(u) PROVE SettingsInv'
<1>1. UNCHANGED <<keys, table, last, pages, memory, reading, saves, overlapping, stale>>
      /\ saving[u].step = "check"
    BY DEF H!Check, H!settings
<1> DEFINE p == saving[u].patch
<1>0. DOMAIN saving[u] = Save
      /\ DOMAIN p \subseteq keys \cap H!Allowed /\ Shared \subseteq DOMAIN p
      /\ \A key \in DOMAIN p \cap H!SECRET : key \in saving[u].typed
    BY <1>1 DEF SettingsInv, SaveKept, H!Unsent
<1>2. ASSUME NEW r, saving' = [saving EXCEPT ![u] = r], r.step # "check",
             r = H!Unsent \/ (/\ DOMAIN r = Save
                              /\ r.step = "write" /\ Shared \subseteq DOMAIN r.patch
                              /\ DOMAIN r.patch \subseteq DOMAIN p /\ r.typed = saving[u].typed
                              /\ \A key \in H!SWITCH_NUM \cap DOMAIN r.patch : r.patch[key] # Empty
                              /\ u \in Admins \/ DOMAIN r.patch \cap H!ADMIN_ONLY = {})
      PROVE  SettingsInv'
    <2>1. DOMAIN saving' = People /\ saving'[u] = r /\ \A w \in People \ {u} : saving'[w] = saving[w]
        BY <1>2 DEF SettingsInv, RowsKept
    <2>2. RowsKept'
        BY <1>1, <2>1 DEF SettingsInv, RowsKept, H!OldPagesHarmless
    <2>3. ASSUME NEW w \in People PROVE SaveKept(w)'
        <3>1. CASE w = u
            BY <1>0, <1>1, <1>2, <2>1, <3>1 DEF SaveKept, Shared
        <3>2. CASE w # u
            BY <1>1, <2>1, <3>2 DEF SettingsInv, SaveKept, Shared
        <3> QED BY <3>1, <3>2
    <2>4. \A w \in People : Writing(w) => w # u /\ saving'[w] = saving[w] /\ Writing(w)'
        BY <1>1, <2>1 DEF Writing
    <2>5. ~overlapping' => Together'
        BY <1>1, <1>2, <2>1, <2>4 DEF SettingsInv, Together, Even, Shared, Writing, H!Unsent
    <2>6. CopyKept'
        BY <1>1, <2>4 DEF SettingsInv, CopyKept, Same
    <2>7. ReadingKept'
        BY <1>1 DEF SettingsInv, ReadingKept, H!UnderWay, Same
    <2> QED BY <2>2, <2>3, <2>5, <2>6, <2>7 DEF SettingsInv
<1>3. CASE saving' = [saving EXCEPT ![u] = H!Unsent]
    <2>1. H!Unsent.step = "none"
        BY DEF H!Unsent
    <2> QED BY <1>2, <1>3, <2>1
<1>4. CASE H!Valid(p) /\ saving' = [saving EXCEPT ![u] = [@ EXCEPT !.step = "write", !.patch = H!Permitted(u, p)]]
    <2> DEFINE r == [saving[u] EXCEPT !.step = "write", !.patch = H!Permitted(u, p)]
    <2>1. saving' = [saving EXCEPT ![u] = r]
        BY <1>4 DEF SettingsInv, RowsKept
    <2>2. DOMAIN r = Save
        BY <1>0 DEF Save
    <2>3. r.step = "write" /\ r.id = saving[u].id /\ r.patch = H!Permitted(u, p) /\ r.typed = saving[u].typed
        BY <1>0 DEF Save
    <2>4. /\ DOMAIN H!Permitted(u, p) \subseteq DOMAIN p /\ Shared \subseteq DOMAIN H!Permitted(u, p)
          /\ \A key \in DOMAIN H!Permitted(u, p) : H!Permitted(u, p)[key] = p[key]
          /\ u \in Admins \/ DOMAIN H!Permitted(u, p) \cap H!ADMIN_ONLY = {}
        BY <1>0 DEF H!Permitted, Shared
    <2>5. \A key \in H!SWITCH_NUM \cap DOMAIN p : p[key] # Empty
        BY <1>4 DEF H!Valid
    <2> HIDE DEF r, p
    <2> QED BY <1>2, <2>1, <2>2, <2>3, <2>4, <2>5
<1> QED BY <1>3, <1>4 DEF H!Check

(***************************************************************************)
(* One row of a save: of all the steps the one that moves the shared rows, *)
(* towards the save that writes.                                           *)
(***************************************************************************)
LEMMA WriteStep == ASSUME SettingsInv, NEW u \in People, H!Write(u) PROVE SettingsInv'
<1> DEFINE p == saving[u].patch
           key == H!NextKey(p)
           rest == [q \in DOMAIN p \ {key} |-> p[q]]
           r == [saving[u] EXCEPT !.patch = rest]
           row == [save |-> saving[u].id, by |-> u, typed |-> key \in saving[u].typed]
<1>1. /\ UNCHANGED <<keys, pages, memory, reading, saves, stale>>
      /\ saving[u].step = "write" /\ DOMAIN p # {}
      /\ table' = [table EXCEPT ![key] = p[key]] /\ last' = [last EXCEPT ![key] = row]
      /\ saving' = [saving EXCEPT ![u].patch = rest]
      /\ overlapping' = (overlapping \/ \E w \in People \ {u} : saving[w].step = "write")
    BY DEF H!Write
<1>2. saving' = [saving EXCEPT ![u] = r]
    BY <1>1 DEF SettingsInv, RowsKept
<1>3. /\ DOMAIN saving[u] = Save /\ DOMAIN p \subseteq keys \cap H!Allowed
      /\ \A q \in DOMAIN p \cap H!SECRET : q \in saving[u].typed
      /\ \A q \in H!SWITCH_NUM \cap DOMAIN p : p[q] # Empty
      /\ u \in Admins \/ DOMAIN p \cap H!ADMIN_ONLY = {}
    BY <1>1 DEF SettingsInv, SaveKept, H!Unsent
<1>4. key \in DOMAIN p
    BY <1>1, NextIsLeft
<1>5. key \in keys /\ key # H!WorkersKey
    BY <1>3, <1>4, WorkersOwn
<1>6. DOMAIN rest = DOMAIN p \ {key} /\ \A q \in DOMAIN rest : rest[q] = p[q]
    OBVIOUS
<1>7. DOMAIN r = Save /\ r.patch = rest /\ r.step = "write" /\ r.id = saving[u].id /\ r.typed = saving[u].typed
    BY <1>1, <1>3 DEF Save
<1>8. row.save = saving[u].id /\ row.by = u /\ row.typed = (key \in saving[u].typed)
    OBVIOUS
<1> HIDE DEF key, rest, r, row
<1>9. /\ DOMAIN saving' = People /\ saving'[u] = r /\ \A w \in People \ {u} : saving'[w] = saving[w]
      /\ DOMAIN table' = keys /\ table'[key] = p[key] /\ \A q \in keys \ {key} : table'[q] = table[q]
      /\ DOMAIN last' = keys /\ last'[key] = row /\ \A q \in keys \ {key} : last'[q] = last[q]
    BY <1>1, <1>2, <1>5 DEF SettingsInv, RowsKept
<1>10. RowsKept'
    <2>1. \A q \in keys \cap H!SWITCH_NUM : table'[q] # Empty
        BY <1>3, <1>4, <1>9 DEF SettingsInv, RowsKept
    <2>2. H!OldPagesHarmless'
        <3>1. ASSUME NEW q \in keys
              PROVE  /\ q \in H!SECRET => last'[q].typed
                     /\ q \in H!ADMIN_ONLY /\ last'[q].save # 0 => last'[q].by \in Admins
                     /\ q = H!WorkersKey => last'[q].save = 0
            <4>1. CASE q = key
                BY <1>3, <1>4, <1>5, <1>8, <1>9, <4>1
            <4>2. CASE q # key
                BY <1>9, <4>2 DEF SettingsInv, RowsKept, H!OldPagesHarmless
            <4> QED BY <4>1, <4>2
        <3> QED BY <1>1, <3>1 DEF H!OldPagesHarmless
    <2>3. overlapping' \in BOOLEAN
        BY <1>1 DEF SettingsInv, RowsKept
    <2> QED BY <1>1, <1>9, <2>1, <2>2, <2>3 DEF SettingsInv, RowsKept
<1>11. ASSUME NEW w \in People PROVE SaveKept(w)'
    <2>1. CASE w = u
        BY <1>1, <1>3, <1>6, <1>7, <1>9, <2>1 DEF SaveKept
    <2>2. CASE w # u
        BY <1>1, <1>9, <2>2 DEF SettingsInv, SaveKept, Shared
    <2> QED BY <2>1, <2>2
<1>12. ~overlapping' => Together'
    <2> SUFFICES ASSUME ~overlapping' PROVE Together'
        OBVIOUS
    <2>1. /\ \A w \in People \ {u} : ~Writing(w) /\ ~Writing(w)'
          /\ Shared' = Shared /\ Shared \subseteq keys
          /\ Writing(u) /\ Writing(u)'
        BY <1>1, <1>7, <1>9 DEF Writing, Shared
    <2>2. Together
        BY <1>1 DEF SettingsInv
    <2>3. \A q \in Shared \ DOMAIN rest : last'[q].save = saving[u].id
        BY <1>6, <1>8, <1>9, <2>1, <2>2 DEF Together
    <2>4. \A w \in People : Writing(w)' => \A q \in Shared \ DOMAIN saving'[w].patch : last'[q].save = saving'[w].id
        BY <1>7, <1>9, <2>1, <2>3
    <2>5. CASE Shared \cap DOMAIN rest # {}
        BY <1>7, <1>9, <2>1, <2>4, <2>5 DEF Together
    <2>6. CASE Shared \cap DOMAIN rest = {}
        <3>1. Even'
            BY <2>1, <2>3, <2>6 DEF Even
        <3> QED BY <2>1, <2>4, <3>1 DEF Together
    <2> QED BY <2>5, <2>6
<1>13. CopyKept'
    BY <1>1, <1>7, <1>9 DEF SettingsInv, CopyKept, Writing
<1>14. ReadingKept'
    BY <1>1 DEF SettingsInv, ReadingKept, H!UnderWay
<1> QED BY <1>10, <1>11, <1>12, <1>13, <1>14 DEF SettingsInv

(***************************************************************************)
(* The answer of a save drops the copy in memory; its shared rows are all  *)
(* written by then.                                                        *)
(***************************************************************************)
LEMMA AnswerStep == ASSUME SettingsInv, NEW u \in People, H!Answer(u) PROVE SettingsInv'
<1>1. /\ UNCHANGED <<keys, table, last, pages, reading, saves, overlapping, stale>>
      /\ saving[u].step = "write" /\ DOMAIN saving[u].patch = {}
      /\ saving' = [saving EXCEPT ![u] = H!Unsent] /\ memory' = H!NoCopy
    BY DEF H!Answer, H!settings, H!Dropped
<1>2. DOMAIN saving' = People /\ saving'[u] = H!Unsent /\ \A w \in People \ {u} : saving'[w] = saving[w]
    BY <1>1 DEF SettingsInv, RowsKept
<1>3. RowsKept'
    BY <1>1, <1>2 DEF SettingsInv, RowsKept, H!OldPagesHarmless
<1>4. \A w \in People : SaveKept(w)'
    BY <1>1, <1>2 DEF SettingsInv, SaveKept, Shared
<1>5. ~overlapping' => Together'
    <2>1. H!Unsent.step # "write"
        BY DEF H!Unsent
    <2> QED BY <1>1, <1>2, <2>1 DEF SettingsInv, Together, Even, Shared, Writing
<1>6. CopyKept' /\ ReadingKept'
    BY <1>1 DEF SettingsInv, CopyKept, ReadingKept, H!UnderWay
<1> QED BY <1>3, <1>4, <1>5, <1>6 DEF SettingsInv

(***************************************************************************)
(* The worker writes its own key, which no save, copy or page is judged by.*)
(***************************************************************************)
LEMMA WorkerStep == ASSUME SettingsInv, H!WorkerWrites PROVE SettingsInv'
<1>1. /\ UNCHANGED <<keys, pages, saving, memory, reading, saves, last, overlapping, stale>>
      /\ \E val : table' = [table EXCEPT ![H!WorkersKey] = val]
    BY DEF H!WorkerWrites
<1>2. DOMAIN table' = DOMAIN table /\ \A key \in keys \ {H!WorkersKey} : table'[key] = table[key]
    BY <1>1 DEF SettingsInv, RowsKept
<1>3. RowsKept'
    <2>1. H!WorkersKey \notin H!SWITCH_NUM
        BY DEF H!WorkersKey, H!SWITCH_NUM
    <2> QED BY <1>1, <1>2, <2>1 DEF SettingsInv, RowsKept, H!OldPagesHarmless
<1>4. \A u \in People : SaveKept(u)'
    BY <1>1 DEF SettingsInv, SaveKept, Shared
<1>5. ~overlapping' => Together'
    BY <1>1 DEF SettingsInv, Together, Even, Shared, Writing
<1>6. CopyKept' /\ ReadingKept'
    BY <1>1, <1>2 DEF SettingsInv, CopyKept, ReadingKept, H!UnderWay, Same, Writing
<1> QED BY <1>3, <1>4, <1>5, <1>6 DEF SettingsInv

(***************************************************************************)
(* A restart of the panel between the rows of a save: the requests and the *)
(* copy are gone, and the save it cut counts as crossed.                   *)
(***************************************************************************)
LEMMA PanelRestartStep == ASSUME SettingsInv, H!Restart PROVE SettingsInv'
<1>1. /\ UNCHANGED <<keys, table, last, pages, saves>>
      /\ saving' = [u \in People |-> H!Unsent]
      /\ memory' = H!NoCopy /\ reading' = H!NoReading /\ stale' = FALSE /\ overlapping' = TRUE
    BY DEF H!Restart, H!settings
<1>2. RowsKept'
    BY <1>1 DEF SettingsInv, RowsKept, H!OldPagesHarmless
<1>3. (\A u \in People : SaveKept(u)') /\ CopyKept' /\ ReadingKept'
    BY <1>1 DEF SaveKept, CopyKept, ReadingKept
<1> QED BY <1>1, <1>2, <1>3 DEF SettingsInv

(***************************************************************************)
(* SettingsHold for every set of keys, of people, of values and any TTL:   *)
(* the page and the route agree on keys and choices; a secret is only ever *)
(* overwritten by one that was typed, an admins' key by an admin, the      *)
(* worker's key by nobody; with no save under way and none crossed the     *)
(* shared rows are all of one save; and with no save crossing its read the *)
(* copy in memory is what was saved.                                       *)
(***************************************************************************)
THEOREM SettingsHoldAlways == Spec => []SettingsHold
<1>0. H!SettingsAssumption
    BY OfficeAssumption DEF OfficeAssumption
<1>1. Init => SettingsInv
    <2> SUFFICES ASSUME H!Init PROVE SettingsInv
        BY DEF Init
    <2>1. \A key \in keys \cap H!SWITCH_NUM : table[key] # Empty
        <3>1. (CHOOSE val \in Values : val # Empty) # Empty
            BY <1>0 DEF H!SettingsAssumption
        <3> QED BY <3>1 DEF H!Init
    <2>2. \A key \in keys : last[key].save = 0 /\ last[key].typed
        BY DEF H!Init
    <2>3. RowsKept
        BY <2>1, <2>2 DEF H!Init, RowsKept, H!Shown, H!OldPagesHarmless
    <2>4. Even
        BY <2>2 DEF Even, Shared
    <2>5. \A u \in People : saving[u] = H!Unsent /\ ~Writing(u)
        BY DEF H!Init, H!Unsent, Writing
    <2> QED BY <2>3, <2>4, <2>5 DEF H!Init, SettingsInv, SaveKept, Together, CopyKept, ReadingKept
<1>2. SettingsInv /\ [Next]_vars => SettingsInv'
    <2> SUFFICES ASSUME SettingsInv, [Next]_vars PROVE SettingsInv'
        OBVIOUS
    <2>1. CASE UNCHANGED hvars
        <3>1. CopyKept' /\ ReadingKept'
            BY <2>1 DEF hvars, SettingsInv, CopyKept, ReadingKept, Same, Writing, H!UnderWay
        <3>2. stale' \in BOOLEAN
            BY <2>1 DEF hvars, SettingsInv, RowsKept
        <3> QED BY <2>1, <3>1, <3>2, RowsUntouched DEF hvars
    <2>2. CASE H!Next
        BY <1>0, <2>2, ReloadStep, SendStep, CheckStep, WriteStep, AnswerStep, CopyStep, WorkerStep, PanelRestartStep
           DEF H!Next
    <2> QED BY <2>1, <2>2 DEF Next, vars, desk, talk, OnlyMessages, OnlyMail, OnlyAnchor, OnlyBilling, OnlyCalendar, OnlyDiff,
        OnlyTickets, OnlySignIn, OnlyLimiter, OnlyAnnouncements, OnlySettings, OnlyBackfill, OnlyFleet
<1>3. SettingsInv => SettingsHold
    <2> SUFFICES ASSUME SettingsInv PROVE H!SettingsHold
        BY DEF SettingsHold
    <2>1. H!PageFitsRoute
        BY FieldsListed, OffersTaken DEF H!PageFitsRoute, SettingsInv, RowsKept
    <2>2. H!OldPagesHarmless
        BY DEF SettingsInv, RowsKept
    <2>3. (\A u \in People : ~H!UnderWay(u)) => \A u \in People : ~Writing(u)
        BY DEF H!UnderWay, Writing
    <2>4. H!FromOnePage
        BY <2>3 DEF H!FromOnePage, SettingsInv, Together, Even, Shared
    <2>5. H!SavedIsUsed
        BY <2>3 DEF H!SavedIsUsed, SettingsInv, CopyKept, Same
    <2> QED BY <2>1, <2>2, <2>4, <2>5 DEF H!SettingsHold
<1> QED BY <1>1, <1>2, <1>3, PTL DEF Spec

-----------------------------------------------------------------------------
(* The servers: forms, payments, reports, checks, tokens and additions.    *)

Statuses == {"up", "down", "unknown", "maintenance"}
Rows == [ip : Ips, renews : Int, status : Statuses, customer : {0, 1}, active : BOOLEAN, token : Nat]
Named == Ips \cup {"none"}
Forms == [id : Nat, ip : Named, renews : Int, status : Statuses, customer : {0, 1}]
News == {"ip", "date", "status"}
Words == [ip : Named, date : Int, loads : Nat, status : {"watched", "maintenance", "archived"}, lost : SUBSET News]
Purses == [acts : Nat, adds : Nat, loads : Nat, paid : Nat, looks : Nat, now : Nat, crashes : Nat, moves : Nat]
Tokens == [id : Nat, token : Nat, age : Nat, after : Int]
Steps == [step : {"none", "insert", "address"}, ip : Named, id : Nat]

(***************************************************************************)
(* The rows, forms, tokens and counts of the servers; a form or a look is  *)
(* of a server that has a number, and so is what was removed.              *)
(***************************************************************************)
FleetTyped ==
    /\ fleet \in Seq(Rows) /\ Len(fleet) \in 1..MaxServers
    /\ gone \subseteq DOMAIN fleet /\ owner \in [Ips -> Nat] /\ agent \in [E!Ids -> Nat] /\ cache \in SUBSET Tokens
    /\ forms \in [Editors -> Forms] /\ additions \in [Editors -> Steps]
    /\ looked \in [E!Ids -> Statuses \cup {"none"}] /\ count \in Purses /\ word \in [E!Ids -> Words]
    /\ behind \in [E!Copies -> SUBSET (E!Ids \X News)]
    /\ \A p \in Editors : forms[p].id <= Len(fleet)
    /\ \A i \in E!Ids : looked[i] # "none" => i <= Len(fleet)

\* A date stays clear of the number that stands for none, however often it is loaded.
Clear(r) == r = NoDate \/ r > NoDate + count.loads
Near(r, w) == r = w.date \/ (r # NoDate /\ w.date # NoDate /\ w.date - r \in 0..w.loads)
FormDated(p, i) ==
    forms[p].id = i =>
        /\ Clear(forms[p].renews)
        /\ <<i, "date">> \in behind[p] \/ "date" \in word[i].lost \/ Near(forms[p].renews, word[i])
Dated(i) ==
    /\ "date" \in word[i].lost \/ Near(fleet[i].renews, word[i])
    /\ Clear(fleet[i].renews)
    /\ \A p \in Editors : FormDated(p, i)

Agrees(s, w) == (s = "maintenance") = (w.status = "maintenance")
FormStood(p, i) ==
    forms[p].id = i /\ <<i, "status">> \notin behind[p] /\ "status" \notin word[i].lost =>
        Agrees(forms[p].status, word[i]) /\ (word[i].status = "archived" => forms[p].status = "unknown")
LookStood(i) ==
    looked[i] # "none" /\ <<i, "status">> \notin behind["check"] /\ "status" \notin word[i].lost =>
        Agrees(looked[i], word[i]) /\ word[i].status # "archived"
Stood(i) ==
    /\ "status" \notin word[i].lost =>
           Agrees(fleet[i].status, word[i]) /\ (word[i].status = "archived" => fleet[i].status = "unknown" /\ ~fleet[i].active)
    /\ LookStood(i) /\ \A p \in Editors : FormStood(p, i)

\* A form that is not behind holds the address that was last typed, and so does the row.
FormPlaced(p, i) ==
    forms[p].id = i =>
        /\ forms[p].ip \in Ips
        /\ <<i, "ip">> \in behind[p] \/ "ip" \in word[i].lost \/ forms[p].ip = word[i].ip
Placed(i) ==
    /\ "ip" \in word[i].lost \/ fleet[i].ip = word[i].ip
    /\ \A p \in Editors : FormPlaced(p, i)

Exempt(ip) == ip \in met \cup edited
Added(p) ==
    /\ additions[p].step # "none" => additions[p].ip \in Ips
    /\ additions[p].step = "insert" => E!Unused(additions[p].ip) \/ Exempt(additions[p].ip)
    /\ additions[p].step = "address" =>
           /\ additions[p].id \in DOMAIN fleet
           /\ additions[p].id \notin gone => fleet[additions[p].id].ip = additions[p].ip \/ additions[p].ip \in edited
\* The address of a server belongs to one that has it, or an addition is about to give it to one.
Owned(i) ==
    LET ip == fleet[i].ip IN
    \/ ip \in torn \cup edited
    \/ \E p \in Editors : additions[p].step = "address" /\ additions[p].ip = ip /\ additions[p].id \notin gone
    \/ owner[ip] \in E!Standing /\ fleet[owner[ip]].ip = ip
Alone(i) == \A j \in E!Standing : j # i /\ fleet[j].ip = fleet[i].ip => Exempt(fleet[i].ip)
(***************************************************************************)
(* An addition that has asked about an address finds it unused or has met  *)
(* another one; one that has its row is of its address. Each server's      *)
(* address belongs to it and is its own, and no address belongs to a       *)
(* server that is not there; all but for the addresses that were edited.   *)
(***************************************************************************)
AddressesRight ==
    /\ \A p \in Editors : Added(p)
    /\ \A i \in E!Standing : Owned(i) /\ Alone(i)
    /\ \A ip \in Ips : owner[ip] = 0 \/ owner[ip] \in E!Standing

(***************************************************************************)
(* A cached token is younger than its validity, and was ended no earlier   *)
(* than it was cached.                                                     *)
(***************************************************************************)
TokensYoung ==
    /\ \A e \in cache : e.age < TokenTTL /\ e.after <= e.age
    /\ overdue \in Int /\ overdue < TokenTTL

(***************************************************************************)
(* Every date that may be chosen is further from the number that stands    *)
(* for none than loads can bring it.                                       *)
(***************************************************************************)
Future == \A r \in Dates \cup {Today} : r > NoDate + count.loads

(***************************************************************************)
(* The inductive form of ServersHold. A form gives the date a day back     *)
(* each time it is loaded, so a date is near the decided one by the loads  *)
(* since; the forms and the check that are not behind hold what was        *)
(* decided, and a save may therefore write them.                           *)
(***************************************************************************)
FleetInv ==
    /\ FleetTyped /\ AddressesRight /\ TokensYoung /\ Future
    /\ \A i \in DOMAIN fleet : Dated(i) /\ Stood(i) /\ Placed(i)

(***************************************************************************)
(* What the assumption on the constants says of the dates, the validity of *)
(* a token and the number of servers.                                      *)
(***************************************************************************)
LEMMA FleetConstants ==
    /\ NoDate \in Int /\ Today \in Nat /\ Period \in Nat /\ Dates \subseteq Int /\ "check" \notin Editors
    /\ TokenTTL \in Nat /\ TokenTTL > 0 /\ MaxServers \in Nat
BY OfficeAssumption DEF OfficeAssumption, E!FleetAssumption

(***************************************************************************)
(* What is known of a server is an address, a date, the forms loaded       *)
(* since, a status and what may have been lost.                            *)
(***************************************************************************)
LEMMA WordIs ==
    ASSUME FleetTyped, NEW i \in E!Ids
    PROVE  /\ word[i] \in Words /\ word[i].date \in Int /\ word[i].loads \in Nat /\ word[i].lost \in SUBSET News
<1>1. word[i] \in Words
    BY DEF FleetTyped
<1> QED BY <1>1 DEF Words

(***************************************************************************)
(* The servers are numbered from one, each with a row and a number that is *)
(* allowed.                                                                *)
(***************************************************************************)
LEMMA FleetRows ==
    ASSUME FleetTyped
    PROVE  /\ DOMAIN fleet = 1..Len(fleet) /\ Len(fleet) \in Nat /\ DOMAIN fleet \subseteq E!Ids
           /\ \A i \in DOMAIN fleet : i \in Nat /\ i # 0 /\ fleet[i] \in Rows
<1>1. fleet \in Seq(Rows) /\ Len(fleet) \in 1..MaxServers
    BY DEF FleetTyped
<1>2. DOMAIN fleet = 1..Len(fleet) /\ \A i \in 1..Len(fleet) : fleet[i] \in Rows
    BY <1>1, LenProperties, ElementOfSeq
<1> QED BY <1>1, <1>2, OfficeAssumption DEF OfficeAssumption, E!FleetAssumption, E!Ids

(***************************************************************************)
(* A step that writes row i.                                               *)
(***************************************************************************)
RowPut(i, r) == fleet' = [fleet EXCEPT ![i] = r]

(***************************************************************************)
(* Writing one row of servers keeps their number and leaves every other    *)
(* row as it was.                                                          *)
(***************************************************************************)
LEMMA RowWritten ==
    ASSUME FleetTyped, NEW i \in DOMAIN fleet, NEW r \in Rows, RowPut(i, r)
    PROVE  /\ fleet' \in Seq(Rows) /\ Len(fleet') = Len(fleet) /\ DOMAIN fleet' = DOMAIN fleet
           /\ fleet'[i] = r /\ \A j \in DOMAIN fleet : j # i => fleet'[j] = fleet[j]
<1>1. fleet \in Seq(Rows) /\ i \in 1..Len(fleet) /\ DOMAIN fleet = 1..Len(fleet)
    BY FleetRows DEF FleetTyped
<1>2. fleet' = [fleet EXCEPT ![i] = r]
    BY DEF RowPut
<1>3. fleet' \in Seq(Rows) /\ Len(fleet') = Len(fleet)
    BY <1>1, <1>2, ExceptSeq
<1>4. DOMAIN fleet' = 1..Len(fleet')
    BY <1>3, LenProperties
<1> QED BY <1>1, <1>2, <1>3, <1>4

(***************************************************************************)
(* A step that gives no server another address, and no address another     *)
(* server, keeps the addresses and the additions right.                    *)
(***************************************************************************)
LEMMA AddressesSame ==
    ASSUME FleetTyped, AddressesRight, DOMAIN fleet' = DOMAIN fleet,
           \A i \in DOMAIN fleet : fleet'[i].ip = fleet[i].ip,
           UNCHANGED <<gone, owner, additions, met, torn, edited>>
    PROVE  AddressesRight'
<1>0. E!Standing' = E!Standing /\ E!Standing \subseteq DOMAIN fleet
    BY DEF E!Standing
<1>1. \A p \in Editors : Added(p)'
    BY <1>0 DEF AddressesRight, Added, Exempt, E!Unused
<1>2. ASSUME NEW i \in E!Standing PROVE Owned(i)' /\ Alone(i)'
    <2>1. Owned(i) /\ Alone(i) /\ fleet'[i].ip = fleet[i].ip
        BY <1>0, <1>2 DEF AddressesRight
    <2> QED BY <1>0, <2>1 DEF Owned, Alone, Exempt
<1> QED BY <1>0, <1>1, <1>2 DEF AddressesRight

(***************************************************************************)
(* A step after which the panel knows no less of the date of server i      *)
(* keeps that date as it was decided, in the row and in the forms.         *)
(***************************************************************************)
LEMMA DatedSame ==
    ASSUME FleetTyped, NEW i \in DOMAIN fleet, Dated(i),
           fleet'[i].renews = fleet[i].renews,
           word'[i].date = word[i].date, word'[i].loads = word[i].loads,
           "date" \in word[i].lost => "date" \in word'[i].lost,
           \A p \in Editors : forms'[p].id = i =>
               /\ forms[p].id = i /\ forms'[p].renews = forms[p].renews
               /\ <<i, "date">> \in behind[p] => <<i, "date">> \in behind'[p],
           count'.loads \in Nat, count'.loads <= count.loads
    PROVE  Dated(i)'
<1>0. NoDate \in Int /\ count.loads \in Nat
    BY OfficeAssumption DEF OfficeAssumption, E!FleetAssumption, FleetTyped, Purses
<1>1. ASSUME NEW r \in Int, Clear(r) PROVE r = NoDate \/ r > NoDate + count'.loads
    BY <1>0, <1>1 DEF Clear
<1>2. \A r : Near(r, word'[i]) = Near(r, word[i])
    BY DEF Near
<1>3. ASSUME NEW p \in Editors, forms'[p].id = i
      PROVE  /\ forms'[p].renews = NoDate \/ forms'[p].renews > NoDate + count'.loads
             /\ <<i, "date">> \in behind'[p] \/ "date" \in word'[i].lost \/ Near(forms'[p].renews, word'[i])
    <2>1. FormDated(p, i) /\ forms[p].renews \in Int
        BY DEF Dated, FleetTyped, Forms
    <2> QED BY <2>1, <1>1, <1>2, <1>3 DEF FormDated
<1>4. fleet'[i].renews = NoDate \/ fleet'[i].renews > NoDate + count'.loads
    BY <1>1, FleetRows DEF Dated, Rows
<1>5. \A p \in Editors : FormDated(p, i)'
    BY <1>3 DEF FormDated, Clear
<1>6. "date" \in word'[i].lost \/ Near(fleet'[i].renews, word'[i])
    BY <1>2 DEF Dated
<1> QED BY <1>4, <1>5, <1>6 DEF Dated, Clear, Near

(***************************************************************************)
(* A step after which the panel knows no less of the status of server i    *)
(* keeps that status as it was decided, in the row, in the forms and in    *)
(* what the check has read.                                                *)
(***************************************************************************)
LEMMA StoodSame ==
    ASSUME NEW i \in E!Ids, Stood(i),
           fleet'[i].status = fleet[i].status, fleet'[i].active = fleet[i].active,
           word'[i].status = word[i].status,
           "status" \in word[i].lost => "status" \in word'[i].lost,
           looked'[i] # "none" => looked'[i] = looked[i] /\ (<<i, "status">> \in behind["check"] => <<i, "status">> \in behind'["check"]),
           \A p \in Editors : forms'[p].id = i =>
               /\ forms[p].id = i /\ forms'[p].status = forms[p].status
               /\ <<i, "status">> \in behind[p] => <<i, "status">> \in behind'[p]
    PROVE  Stood(i)'
<1>1. LookStood(i)'
    BY DEF Stood, LookStood, Agrees
<1>2. \A p \in Editors : FormStood(p, i)'
    BY DEF Stood, FormStood, Agrees
<1> QED BY <1>1, <1>2 DEF Stood, Agrees

(***************************************************************************)
(* A step after which the panel knows no less of the address of server i   *)
(* keeps that address as it was typed, in the row and in the forms.        *)
(***************************************************************************)
LEMMA PlacedSame ==
    ASSUME NEW i \in E!Ids, Placed(i),
           fleet'[i].ip = fleet[i].ip, word'[i].ip = word[i].ip,
           "ip" \in word[i].lost => "ip" \in word'[i].lost,
           \A p \in Editors : forms'[p].id = i =>
               /\ forms[p].id = i /\ forms'[p].ip = forms[p].ip
               /\ <<i, "ip">> \in behind[p] => <<i, "ip">> \in behind'[p]
    PROVE  Placed(i)'
<1>1. \A p \in Editors : FormPlaced(p, i)'
    BY DEF Placed, FormPlaced
<1> QED BY <1>1 DEF Placed

(***************************************************************************)
(* The counts of what is still to come only fall, and dates stay clear of  *)
(* the number that stands for none.                                        *)
(***************************************************************************)
LEMMA Spent ==
    ASSUME FleetTyped, Future, NEW c \in DOMAIN count, E!Counted(c)
    PROVE  /\ count' \in Purses /\ count'.loads <= count.loads /\ Future'
           /\ c # "loads" => count'.loads = count.loads
           /\ c = "loads" => count'.loads = count.loads - 1
<1>1. count \in Purses /\ NoDate \in Int /\ Dates \cup {Today} \subseteq Int
    BY FleetConstants DEF FleetTyped
<1>2. count[c] \in Nat
    BY <1>1 DEF Purses
<1>3. count' = [count EXCEPT ![c] = count[c] - 1] /\ count[c] - 1 \in Nat
    BY <1>2 DEF E!Counted
<1>4. count' \in Purses
    BY <1>1, <1>3 DEF Purses
<1>5. count'.loads \in Nat /\ count'.loads <= count.loads
    BY <1>1, <1>3, <1>4 DEF Purses
<1>6. c # "loads" => count'.loads = count.loads
    BY <1>1, <1>3 DEF Purses
<1>7. c = "loads" => count'.loads = count.loads - 1
    BY <1>1, <1>3 DEF Purses
<1>8. Future'
    <2> SUFFICES ASSUME NEW r \in Dates \cup {Today} PROVE r > NoDate + count'.loads
        BY DEF Future
    <2> QED BY <1>1, <1>5 DEF Future, Purses
<1> QED BY <1>4, <1>5, <1>6, <1>7, <1>8

(***************************************************************************)
(* An admin who loads a server's form gets its date a day earlier at most  *)
(* and its status as it stands; what was decided stays decided (openEdit   *)
(* of the page, PATCH later).                                              *)
(***************************************************************************)
LEMMA LoadStep ==
    ASSUME FleetInv, NEW p \in Editors, NEW i \in DOMAIN fleet, E!Load(p, i)
    PROVE  FleetInv'
<1> DEFINE f == [id |-> i, ip |-> fleet[i].ip, renews |-> E!Day(fleet[i].renews), status |-> fleet[i].status, customer |-> fleet[i].customer]
           w == [word[i] EXCEPT !.loads = word[i].loads + 1]
<1>0. FleetTyped /\ NoDate \in Int
    BY OfficeAssumption DEF FleetInv, OfficeAssumption, E!FleetAssumption
<1>1. /\ UNCHANGED <<gone, fleet, owner, agent, cache, additions, looked, overdue, met, torn, edited>>
      /\ E!Counted("loads")
      /\ forms' = [forms EXCEPT ![p] = f]
      /\ word' = [word EXCEPT ![i] = w]
      /\ behind' = [behind EXCEPT ![p] = {}]
    BY DEF E!Load, E!Filled, E!ghosts
<1>2. /\ count' \in Purses /\ count'.loads <= count.loads /\ Future' /\ count'.loads = count.loads - 1
      /\ count.loads \in Nat /\ count.loads > 0
    BY <1>0, <1>1, Spent DEF FleetInv, FleetTyped, Purses, E!Counted
<1>3. /\ i \in Nat /\ i # 0 /\ i <= Len(fleet) /\ i \in E!Ids /\ fleet[i] \in Rows /\ DOMAIN fleet \subseteq E!Ids
      /\ fleet[i].renews \in Int /\ fleet[i].status \in Statuses /\ fleet[i].ip \in Ips
    BY <1>0, FleetRows DEF Rows
<1>4. E!Day(fleet[i].renews) = (IF fleet[i].renews = NoDate THEN NoDate ELSE fleet[i].renews - 1)
    BY DEF E!Day
<1>5. f \in Forms
    BY <1>0, <1>3, <1>4 DEF Forms, Rows, Named
<1>6. /\ w \in Words /\ w.date = word[i].date /\ w.loads = word[i].loads + 1
      /\ w.status = word[i].status /\ w.ip = word[i].ip /\ w.lost = word[i].lost
      /\ word[i].date \in Int /\ word[i].loads \in Nat
    <2>1. word[i] \in Words
        BY <1>0, <1>3, WordIs
    <2> QED BY <2>1 DEF Words
<1>7. f.id = i /\ f.renews = E!Day(fleet[i].renews) /\ f.status = fleet[i].status /\ f.ip = fleet[i].ip
    OBVIOUS
<1> HIDE DEF f, w
<1>8. /\ forms' \in [Editors -> Forms] /\ forms'[p] = f /\ \A q \in Editors : q # p => forms'[q] = forms[q]
      /\ word' \in [E!Ids -> Words] /\ word'[i] = w /\ \A j \in E!Ids : j # i => word'[j] = word[j]
    BY <1>0, <1>1, <1>3, <1>5, <1>6 DEF FleetTyped
<1>9. /\ "check" \notin Editors /\ behind \in [E!Copies -> SUBSET (E!Ids \X News)]
      /\ behind' \in [E!Copies -> SUBSET (E!Ids \X News)]
      /\ behind'[p] = {} /\ \A q \in E!Copies : q # p => behind'[q] = behind[q]
    BY <1>0, <1>1, OfficeAssumption DEF FleetTyped, E!Copies, OfficeAssumption, E!FleetAssumption
<1>10. FleetTyped'
    <2>1. \A q \in Editors : forms'[q].id <= Len(fleet)
        BY <1>0, <1>3, <1>7, <1>8 DEF FleetTyped
    <2> QED BY <1>0, <1>1, <1>2, <1>8, <1>9, <2>1 DEF FleetTyped
<1>11. AddressesRight' /\ TokensYoung'
    BY <1>0, <1>1, AddressesSame DEF FleetInv, TokensYoung
<1>12. ASSUME NEW j \in DOMAIN fleet PROVE Dated(j)'
    <2>1. Dated(j) /\ j \in E!Ids
        BY <1>3 DEF FleetInv
    <2>2. CASE j # i
        BY <1>0, <1>1, <1>2, <1>3, <1>7, <1>8, <1>9, <2>1, <2>2, DatedSame DEF E!Copies, Purses
    <2>3. CASE j = i
        <3>1. \A r : Near(r, word[i]) => Near(r, w)
            BY <1>6 DEF Near
        <3>2. Clear(fleet[i].renews) /\ ("date" \in word[i].lost \/ Near(fleet[i].renews, word[i]))
            BY <2>1, <2>3 DEF Dated
        <3>3. "date" \in w.lost \/ Near(f.renews, w)
            <4> SUFFICES ASSUME Near(fleet[i].renews, word[i]) PROVE Near(f.renews, w)
                BY <1>6, <3>2
            <4>1. CASE fleet[i].renews = NoDate
                BY <1>4, <1>6, <1>7, <4>1 DEF Near
            <4>2. CASE fleet[i].renews # NoDate
                <5>1. f.renews = fleet[i].renews - 1 /\ f.renews # NoDate
                    BY <1>0, <1>2, <1>3, <1>4, <1>7, <3>2, <4>2 DEF Clear
                <5>2. word[i].date # NoDate /\ word[i].date - fleet[i].renews \in 0..word[i].loads
                    BY <1>3, <1>6, <4>2 DEF Near
                <5> QED BY <1>3, <1>6, <5>1, <5>2 DEF Near
            <4> QED BY <4>1, <4>2
        <3>4. f.renews = NoDate \/ f.renews > NoDate + count'.loads
            BY <1>0, <1>2, <1>3, <1>4, <1>7, <3>2 DEF Clear
        <3>5. fleet[i].renews = NoDate \/ fleet[i].renews > NoDate + count'.loads
            BY <1>0, <1>2, <1>3, <3>2 DEF Clear
        <3>6. ASSUME NEW q \in Editors PROVE FormDated(q, i)'
            <4>1. CASE q = p
                BY <1>8, <3>3, <3>4, <4>1 DEF FormDated, Clear, Near
            <4>2. CASE q # p
                <5>1. FormDated(q, i) /\ forms'[q] = forms[q] /\ forms[q].renews \in Int /\ behind'[q] = behind[q]
                    BY <1>0, <1>8, <1>9, <2>1, <2>3, <4>2 DEF Dated, FleetTyped, Forms, E!Copies
                <5>2. forms[q].id = i => forms[q].renews = NoDate \/ forms[q].renews > NoDate + count'.loads
                    BY <1>0, <1>2, <5>1 DEF FormDated, Clear
                <5>3. forms[q].id = i => <<i, "date">> \in behind[q] \/ "date" \in w.lost \/ Near(forms[q].renews, w)
                    BY <1>6, <3>1, <5>1 DEF FormDated
                <5> QED BY <1>8, <5>1, <5>2, <5>3 DEF FormDated, Clear, Near
            <4> QED BY <4>1, <4>2
        <3>7. "date" \in w.lost \/ Near(fleet[i].renews, w)
            BY <1>6, <3>1, <3>2
        <3> QED BY <1>1, <1>8, <2>3, <3>5, <3>6, <3>7 DEF Dated, Clear, Near
    <2> QED BY <2>2, <2>3
<1>13. ASSUME NEW j \in DOMAIN fleet PROVE Stood(j)'
    <2>1. Stood(j) /\ j \in E!Ids
        BY <1>3 DEF FleetInv
    <2>2. word'[j].status = word[j].status /\ word'[j].lost = word[j].lost
        BY <1>6, <1>8, <2>1
    <2>3. LookStood(j)'
        BY <1>1, <1>9, <2>1, <2>2 DEF Stood, LookStood, Agrees, E!Copies
    <2>4. ASSUME NEW q \in Editors PROVE FormStood(q, j)'
        <3>1. CASE q = p
            BY <1>7, <1>8, <2>1, <2>2, <3>1 DEF FormStood, Stood, Agrees
        <3>2. CASE q # p
            BY <1>8, <1>9, <2>1, <2>2, <3>2 DEF FormStood, Stood, Agrees, E!Copies
        <3> QED BY <3>1, <3>2
    <2> QED BY <1>1, <2>1, <2>2, <2>3, <2>4 DEF Stood, Agrees
<1>14. ASSUME NEW j \in DOMAIN fleet PROVE Placed(j)'
    <2>1. Placed(j) /\ j \in E!Ids /\ fleet[j].ip \in Ips
        BY <1>0, <1>3, FleetRows DEF FleetInv, Rows
    <2>2. word'[j].ip = word[j].ip /\ word'[j].lost = word[j].lost
        BY <1>6, <1>8, <2>1
    <2>3. ASSUME NEW q \in Editors PROVE FormPlaced(q, j)'
        <3>1. CASE q = p
            BY <1>7, <1>8, <2>1, <2>2, <3>1 DEF FormPlaced, Placed
        <3>2. CASE q # p
            BY <1>8, <1>9, <2>1, <2>2, <3>2 DEF FormPlaced, Placed, E!Copies
        <3> QED BY <3>1, <3>2
    <2> QED BY <1>1, <2>1, <2>2, <2>3 DEF Placed
<1> QED BY <1>1, <1>2, <1>10, <1>11, <1>12, <1>13, <1>14 DEF FleetInv

(***************************************************************************)
(* Once p has decided some news of server i, the others who hold its form  *)
(* or its check no longer know that news, and p does.                      *)
(***************************************************************************)
LEMMA Overtook ==
    ASSUME FleetTyped, NEW p \in Editors, NEW i \in E!Ids, NEW news \in SUBSET News
    PROVE  /\ E!Overtaken(p, i, news) \in [E!Copies -> SUBSET (E!Ids \X News)]
           /\ \A n \in News :
                 /\ <<i, n>> \in E!Overtaken(p, i, news)[p] <=> <<i, n>> \in behind[p] /\ n \notin news
                 /\ \A q \in Editors \ {p} : <<i, n>> \in E!Overtaken(p, i, news)[q] <=>
                        <<i, n>> \in behind[q] \/ (forms[q].id = i /\ n \in news)
                 /\ <<i, n>> \in E!Overtaken(p, i, news)["check"] <=>
                        <<i, n>> \in behind["check"] \/ (looked[i] # "none" /\ n \in news)
                 /\ \A j \in E!Ids \ {i}, q \in E!Copies :
                        <<j, n>> \in E!Overtaken(p, i, news)[q] <=> <<j, n>> \in behind[q]
<1>1. behind \in [E!Copies -> SUBSET (E!Ids \X News)] /\ p \in E!Copies /\ "check" \in E!Copies /\ Editors \subseteq E!Copies
    BY DEF FleetTyped, E!Copies
<1>2. "check" \notin Editors
    BY FleetConstants
<1>3. \A q \in E!Copies : E!Overtaken(p, i, news)[q] =
          IF q = p THEN behind[q] \ ({i} \X news)
          ELSE IF E!Holds(q, i) THEN behind[q] \cup ({i} \X news) ELSE behind[q]
    BY DEF E!Overtaken
<1> DEFINE told == {i} \X news
<1>a. /\ told \in SUBSET (E!Ids \X News)
      /\ \A j \in E!Ids, n \in News : <<j, n>> \in told <=> j = i /\ n \in news
    OBVIOUS
<1> HIDE DEF told
<1>b. \A q \in E!Copies : E!Overtaken(p, i, news)[q] =
          IF q = p THEN behind[q] \ told ELSE IF E!Holds(q, i) THEN behind[q] \cup told ELSE behind[q]
    BY <1>3 DEF told
<1>4. \A q \in E!Copies : E!Overtaken(p, i, news)[q] \in SUBSET (E!Ids \X News)
    <2> SUFFICES ASSUME NEW q \in E!Copies PROVE E!Overtaken(p, i, news)[q] \in SUBSET (E!Ids \X News)
        OBVIOUS
    <2>1. behind[q] \in SUBSET (E!Ids \X News)
        BY <1>1
    <2> QED BY <1>a, <1>b, <2>1
<1>5. E!Overtaken(p, i, news) \in [E!Copies -> SUBSET (E!Ids \X News)]
    BY <1>4 DEF E!Overtaken
<1>6. \A q \in Editors : E!Holds(q, i) <=> forms[q].id = i
    BY <1>2 DEF E!Holds
<1>7. E!Holds("check", i) <=> looked[i] # "none"
    BY DEF E!Holds
<1>8. ASSUME NEW n \in News
      PROVE  /\ <<i, n>> \in E!Overtaken(p, i, news)[p] <=> <<i, n>> \in behind[p] /\ n \notin news
             /\ <<i, n>> \in E!Overtaken(p, i, news)["check"] <=>
                        <<i, n>> \in behind["check"] \/ (looked[i] # "none" /\ n \in news)
    BY <1>1, <1>2, <1>a, <1>b, <1>7
<1>9. ASSUME NEW n \in News, NEW q \in Editors, q # p
      PROVE  <<i, n>> \in E!Overtaken(p, i, news)[q] <=> <<i, n>> \in behind[q] \/ (forms[q].id = i /\ n \in news)
    BY <1>1, <1>a, <1>b, <1>6, <1>9, Zenon
<1>10. ASSUME NEW n \in News, NEW j \in E!Ids, j # i, NEW q \in E!Copies
       PROVE  <<j, n>> \in E!Overtaken(p, i, news)[q] <=> <<j, n>> \in behind[q]
    BY <1>1, <1>a, <1>b, <1>10
<1> QED BY <1>5, <1>8, <1>9, <1>10

(***************************************************************************)
(* What may be typed into a form is again a form of the same server,       *)
(* changed in its address, its date, its status or its customer.           *)
(***************************************************************************)
LEMMA TypedIs ==
    ASSUME NEW f \in Forms, NEW g \in E!Typed(f)
    PROVE  /\ g \in Forms /\ g.id = f.id
           /\ g.ip = f.ip \/ g.ip \in Ips
           /\ g.renews = f.renews \/ g.renews \in Dates \cup {NoDate}
           /\ g.status = f.status \/ g.status \in {"up", "maintenance"}
<1>0. Dates \cup {NoDate} \subseteq Int
    BY FleetConstants
<1>1. CASE g = f
    BY <1>1
<1>2. CASE \E r \in Dates \cup {NoDate} : g = [f EXCEPT !.renews = r]
    BY <1>0, <1>2 DEF Forms
<1>3. CASE \E s \in {"up", "maintenance"} : g = [f EXCEPT !.status = s]
    BY <1>3 DEF Forms, Statuses
<1>4. CASE \E c \in {0, 1} : g = [f EXCEPT !.customer = c]
    BY <1>4 DEF Forms
<1>5. CASE \E ip \in Ips : g = [f EXCEPT !.ip = ip]
    BY <1>5 DEF Forms, Named
<1> QED BY <1>1, <1>2, <1>3, <1>4, <1>5 DEF E!Typed

(***************************************************************************)
(* A save writes the whole form over the row: what the others decided      *)
(* meanwhile is lost only where the admin had not seen it, and what this   *)
(* admin typed is decided from now on.                                     *)
(***************************************************************************)
LEMMA SaveStep ==
    ASSUME FleetInv, NEW p \in Editors, E!Save(p)
    PROVE  FleetInv'
<1> PICK i : i = forms[p].id
    OBVIOUS
<1>0. FleetTyped /\ NoDate \in Int /\ forms[p] \in Forms
    BY FleetConstants DEF FleetInv, FleetTyped
<1>1. PICK g \in E!Typed(forms[p]) :
        /\ fleet' = [fleet EXCEPT ![i] = E!Written(fleet[i], g)]
        /\ forms' = [forms EXCEPT ![p] = g]
        /\ behind' = E!Overtaken(p, i, E!Decided(forms[p], g))
        /\ word' = [word EXCEPT ![i] = E!Promised(word[i], g, E!Decided(forms[p], g), {n \in E!Facts : <<i, n>> \in behind[p]})]
        /\ edited' = IF g.ip = fleet[i].ip THEN edited ELSE edited \cup {fleet[i].ip, g.ip}
    BY DEF E!Save
<1> DEFINE news == E!Decided(forms[p], g)
           old == {n \in E!Facts : <<i, n>> \in behind[p]}
           w == E!Promised(word[i], g, news, old)
           r == E!Written(fleet[i], g)
           newip == g.ip # forms[p].ip
           newdate == g.renews # forms[p].renews
           newstatus == g.status # forms[p].status
<1>2. /\ UNCHANGED <<gone, owner, agent, cache, additions, looked, overdue, met, torn>>
      /\ E!Counted("acts") /\ i \in E!Standing
    BY DEF E!Save
<1>3. /\ fleet' = [fleet EXCEPT ![i] = r] /\ forms' = [forms EXCEPT ![p] = g]
      /\ behind' = E!Overtaken(p, i, news) /\ word' = [word EXCEPT ![i] = w]
    BY <1>1
<1>4. /\ i \in DOMAIN fleet /\ i \in Nat /\ i <= Len(fleet) /\ i \in E!Ids /\ fleet[i] \in Rows /\ DOMAIN fleet \subseteq E!Ids
    <2>1. i \in DOMAIN fleet
        BY <1>2 DEF E!Standing
    <2> QED BY <1>0, <2>1, FleetRows
<1>5. /\ g \in Forms /\ g.id = i /\ g.renews \in Int /\ g.status \in Statuses /\ g.customer \in {0, 1} /\ g.ip \in Ips
      /\ g.renews = forms[p].renews \/ g.renews \in Dates \cup {NoDate}
      /\ g.status = forms[p].status \/ g.status \in {"up", "maintenance"}
    <2>1. /\ g \in Forms /\ g.id = i /\ (g.ip = forms[p].ip \/ g.ip \in Ips)
          /\ g.renews = forms[p].renews \/ g.renews \in Dates \cup {NoDate}
          /\ g.status = forms[p].status \/ g.status \in {"up", "maintenance"}
        BY <1>0, <1>1, TypedIs
    <2>2. forms[p].ip \in Ips
        BY <1>4 DEF FleetInv, Placed, FormPlaced
    <2> QED BY <2>1, <2>2 DEF Forms
<1>6. /\ news \in SUBSET News
      /\ ("ip" \in news <=> newip) /\ ("date" \in news <=> newdate) /\ ("status" \in news <=> newstatus)
    BY DEF News, E!Decided, E!Facts
<1>7. /\ r \in Rows /\ r.ip = g.ip /\ r.renews = g.renews /\ r.status = g.status /\ r.active = fleet[i].active
    BY <1>4, <1>5 DEF E!Written, Rows
<1>8. /\ w.date = (IF newdate THEN g.renews ELSE word[i].date) /\ w.loads = (IF newdate THEN 0 ELSE word[i].loads)
      /\ w.status = (IF newstatus THEN E!Wish(g.status) ELSE word[i].status)
      /\ w.ip = (IF newip THEN g.ip ELSE word[i].ip)
      /\ \A n \in News : n \in w.lost <=> n \notin news /\ (n \in word[i].lost \/ <<i, n>> \in behind[p])
    BY <1>6 DEF News, E!Facts, E!Promised
<1>9. w \in Words
    <2>1. word[i] \in Words
        BY <1>0, <1>4, WordIs
    <2>2. E!Wish(g.status) \in {"watched", "maintenance"}
        BY DEF E!Wish, E!Live
    <2>3. w.date \in Int /\ w.loads \in Nat /\ w.status \in {"watched", "maintenance", "archived"} /\ w.ip \in Named
        BY <1>5, <1>8, <2>1, <2>2 DEF Words, Named
    <2>4. w.lost \in SUBSET News
        BY <2>1 DEF Words, E!Promised, E!Facts, News
    <2>5. w = [ip |-> w.ip, date |-> w.date, loads |-> w.loads, status |-> w.status, lost |-> w.lost]
        BY DEF E!Promised
    <2> HIDE DEF w
    <2> QED BY <2>3, <2>4, <2>5 DEF Words
<1>10. Agrees(g.status, [word[i] EXCEPT !.status = E!Wish(g.status)]) /\ E!Wish(g.status) # "archived"
    <2>1. word[i] \in Words
        BY <1>0, <1>4, WordIs
    <2> QED BY <2>1 DEF Agrees, E!Wish, E!Live, Words
<1> HIDE DEF news, old, w, r, newip, newdate, newstatus
<1>a. /\ "date" \in w.lost <=> ~newdate /\ ("date" \in word[i].lost \/ <<i, "date">> \in behind[p])
      /\ "status" \in w.lost <=> ~newstatus /\ ("status" \in word[i].lost \/ <<i, "status">> \in behind[p])
      /\ "ip" \in w.lost <=> ~newip /\ ("ip" \in word[i].lost \/ <<i, "ip">> \in behind[p])
    BY <1>6, <1>8 DEF News
<1>11. /\ forms' \in [Editors -> Forms] /\ forms'[p] = g /\ \A q \in Editors : q # p => forms'[q] = forms[q]
       /\ word' \in [E!Ids -> Words] /\ word'[i] = w /\ \A j \in E!Ids : j # i => word'[j] = word[j]
    BY <1>0, <1>3, <1>4, <1>5, <1>9 DEF FleetTyped
<1>12. /\ fleet' \in Seq(Rows) /\ Len(fleet') = Len(fleet) /\ DOMAIN fleet' = DOMAIN fleet
       /\ fleet'[i] = r /\ \A j \in DOMAIN fleet : j # i => fleet'[j] = fleet[j]
    BY <1>0, <1>3, <1>4, <1>7, RowWritten DEF RowPut
<1>13. /\ count' \in Purses /\ count'.loads <= count.loads /\ Future' /\ count'.loads = count.loads /\ count'.loads \in Nat
    <2>1. "acts" \in DOMAIN count /\ "acts" # "loads"
        BY <1>0 DEF FleetTyped, Purses
    <2> QED BY <1>0, <1>2, <2>1, Spent DEF FleetInv, Purses
<1>14. /\ behind' \in [E!Copies -> SUBSET (E!Ids \X News)]
       /\ \A n \in News :
             /\ <<i, n>> \in behind'[p] <=> <<i, n>> \in behind[p] /\ n \notin news
             /\ \A q \in Editors \ {p} : <<i, n>> \in behind'[q] <=> <<i, n>> \in behind[q] \/ (forms[q].id = i /\ n \in news)
             /\ <<i, n>> \in behind'["check"] <=> <<i, n>> \in behind["check"] \/ (looked[i] # "none" /\ n \in news)
             /\ \A j \in E!Ids \ {i}, q \in E!Copies : <<j, n>> \in behind'[q] <=> <<j, n>> \in behind[q]
    BY <1>0, <1>3, <1>4, <1>6, Overtook
<1>15. FleetTyped'
    <2>1. \A q \in Editors : forms'[q].id <= Len(fleet)
        BY <1>0, <1>4, <1>5, <1>11 DEF FleetTyped
    <2> QED BY <1>0, <1>2, <1>11, <1>12, <1>13, <1>14, <2>1 DEF FleetTyped
<1>16. AddressesRight' /\ TokensYoung'
    <2>0. /\ E!Standing' = E!Standing /\ E!Standing \subseteq DOMAIN fleet
          /\ \A j \in DOMAIN fleet : fleet'[j].ip = IF j = i THEN g.ip ELSE fleet[j].ip
        BY <1>2, <1>7, <1>12 DEF E!Standing
    <2>1. edited \subseteq edited' /\ (g.ip # fleet[i].ip => fleet[i].ip \in edited' /\ g.ip \in edited')
        BY <1>1
    <2>2. \A ip : Exempt(ip) => Exempt(ip)'
        BY <1>2, <2>1 DEF Exempt
    <2>3. ASSUME NEW q \in Editors PROVE Added(q)'
        <3>1. Added(q) /\ additions'[q] = additions[q]
            BY <1>2 DEF FleetInv, AddressesRight
        <3>2. E!Unused(additions[q].ip) => E!Unused(additions[q].ip)' \/ additions[q].ip \in edited'
            <4> SUFFICES ASSUME E!Unused(additions[q].ip), NEW j \in E!Standing, fleet'[j].ip = additions[q].ip
                         PROVE  additions[q].ip \in edited'
                BY <2>0, <3>1 DEF E!Unused
            <4>1. fleet[j].ip # additions[q].ip
                BY DEF E!Unused
            <4>2. j = i
                BY <2>0, <4>1
            <4> QED BY <2>0, <2>1, <4>1, <4>2
        <3>3. Exempt(additions[q].ip) => additions[q].ip \in met' \cup edited'
            BY <1>2, <2>1 DEF Exempt
        <3> QED BY <1>2, <1>12, <2>0, <2>1, <3>1, <3>2, <3>3 DEF Added, Exempt, E!Unused
    <2>4. ASSUME NEW j \in E!Standing PROVE Owned(j)' /\ Alone(j)'
        <3>1. Owned(j) /\ Alone(j)
            BY <2>4 DEF FleetInv, AddressesRight
        <3>2. CASE fleet'[j].ip \in edited'
            BY <3>2 DEF Owned, Alone, Exempt
        <3>3. CASE fleet'[j].ip \notin edited'
            <4>1. fleet'[j].ip = fleet[j].ip /\ fleet[j].ip \notin edited /\ j \in DOMAIN fleet
                BY <2>0, <2>1, <2>4, <3>3
            <4>2. \A h \in DOMAIN fleet : fleet'[h].ip = fleet[j].ip <=> fleet[h].ip = fleet[j].ip
                BY <2>0, <2>1, <3>3, <4>1
            <4>3. Owned(j)'
                BY <1>2, <2>0, <3>1, <4>1, <4>2 DEF Owned
            <4>4. Alone(j)'
                BY <1>2, <2>0, <3>1, <4>1, <4>2 DEF Alone, Exempt
            <4> QED BY <4>3, <4>4
        <3> QED BY <3>2, <3>3
    <2> QED BY <1>2, <2>0, <2>3, <2>4 DEF FleetInv, AddressesRight, TokensYoung
<1>17. ASSUME NEW j \in DOMAIN fleet, j # i PROVE Dated(j)' /\ Stood(j)' /\ Placed(j)'
    <2>1. Dated(j) /\ Stood(j) /\ Placed(j) /\ j \in E!Ids /\ word'[j] = word[j] /\ fleet'[j] = fleet[j]
        BY <1>4, <1>11, <1>12, <1>17 DEF FleetInv
    <2>2. \A q \in Editors : forms'[q].id = j => forms[q].id = j /\ forms'[q] = forms[q]
        BY <1>5, <1>11, <1>17
    <2>3. \A q \in E!Copies, n \in News : <<j, n>> \in behind'[q] <=> <<j, n>> \in behind[q]
        BY <1>14, <1>17, <2>1
    <2>4. "ip" \in News /\ "date" \in News /\ "status" \in News /\ "check" \in E!Copies /\ Editors \subseteq E!Copies
        BY DEF News, E!Copies
    <2>5. Dated(j)'
        BY <1>0, <1>13, <2>1, <2>2, <2>3, <2>4, DatedSame
    <2>6. Stood(j)'
        BY <1>2, <2>1, <2>2, <2>3, <2>4, StoodSame
    <2>7. Placed(j)'
        BY <2>1, <2>2, <2>3, <2>4, PlacedSame
    <2> QED BY <2>5, <2>6, <2>7
<1>18. "ip" \in News /\ "date" \in News /\ "status" \in News
    BY DEF News
<1>19. Dated(i)'
    <2>1. Dated(i) /\ FormDated(p, i)
        BY <1>4 DEF FleetInv, Dated
    <2>2. g.renews = NoDate \/ g.renews > NoDate + count'.loads
        BY <1>5, <1>13, <2>1 DEF FormDated, FleetInv, Future, Clear
    <2>3. "date" \in w.lost \/ Near(g.renews, w)
        <3>1. CASE newdate
            BY <1>8, <1>a, <3>1 DEF Near
        <3>2. CASE ~newdate
            <4>1. g.renews = forms[p].renews /\ forms[p].id = i
                BY <3>2 DEF newdate
            <4>2. w.date = word[i].date /\ w.loads = word[i].loads
                BY <1>8, <1>a, <3>2
            <4> QED BY <1>8, <1>a, <2>1, <3>2, <4>1, <4>2 DEF FormDated, Near
        <3> QED BY <3>1, <3>2
    <2>4. ASSUME NEW q \in Editors PROVE FormDated(q, i)'
        <3>1. CASE q = p
            BY <1>11, <2>2, <2>3, <3>1 DEF FormDated, Clear, Near
        <3>2. CASE q # p
            <4>1. FormDated(q, i) /\ forms'[q] = forms[q]
                BY <1>11, <2>1, <3>2 DEF Dated
            <4> SUFFICES ASSUME forms[q].id = i
                         PROVE  /\ Clear(forms[q].renews)'
                                /\ <<i, "date">> \in behind'[q] \/ "date" \in w.lost \/ Near(forms[q].renews, w)
                BY <1>11, <4>1 DEF FormDated, Near, Clear
            <4>2. Clear(forms[q].renews)'
                BY <1>11, <1>13, <4>1 DEF FormDated, Clear
            <4>3. CASE newdate
                BY <1>6, <4>2, <1>14, <1>18, <3>2, <4>3
            <4>4. CASE ~newdate
                <5>1. w.date = word[i].date /\ w.loads = word[i].loads
                    BY <1>8, <1>a, <4>4
                <5>2. <<i, "date">> \in behind[q] => <<i, "date">> \in behind'[q]
                    BY <1>14, <1>18, <3>2
                <5> QED BY <1>8, <1>a, <4>1, <4>2, <4>4, <5>1, <5>2 DEF FormDated, Near
            <4> QED BY <4>2, <4>3, <4>4
        <3> QED BY <3>1, <3>2
    <2> QED BY <1>7, <1>11, <1>12, <2>2, <2>3, <2>4 DEF Dated, Clear, Near
<1>20. Stood(i)'
    <2>1. Stood(i) /\ FormStood(p, i) /\ LookStood(i)
        BY <1>4 DEF FleetInv, Stood
    <2>2. newstatus => Agrees(g.status, w) /\ w.status # "archived" /\ "status" \notin w.lost
        BY <1>8, <1>a, <1>10, WordIs, <1>0, <1>4 DEF Agrees, Words
    <2>3. ~newstatus => g.status = forms[p].status /\ w.status = word[i].status
        BY <1>8 DEF newstatus
    <2>4. "status" \notin w.lost => Agrees(g.status, w) /\ (w.status = "archived" => g.status = "unknown" /\ ~fleet[i].active)
        BY <1>8, <1>a, <2>1, <2>2, <2>3 DEF FormStood, Agrees, Stood
    <2>5. LookStood(i)'
        BY <1>2, <1>6, <1>8, <1>a, <1>11, <1>14, <1>18, <2>1, <2>3 DEF LookStood, Agrees
    <2>6. ASSUME NEW q \in Editors PROVE FormStood(q, i)'
        <3>1. CASE q = p
            BY <1>11, <2>4, <3>1 DEF FormStood, Agrees
        <3>2. CASE q # p
            <4>1. FormStood(q, i) /\ forms'[q] = forms[q]
                BY <1>11, <2>1, <3>2 DEF Stood
            <4>2. forms[q].id = i => (<<i, "status">> \in behind'[q] <=> <<i, "status">> \in behind[q] \/ newstatus)
                BY <1>6, <1>14, <1>18, <3>2
            <4> QED BY <1>8, <1>a, <1>11, <2>3, <4>1, <4>2 DEF FormStood, Agrees
        <3> QED BY <3>1, <3>2
    <2> QED BY <1>7, <1>11, <1>12, <2>4, <2>5, <2>6 DEF Stood, Agrees
<1>21. Placed(i)'
    <2>1. Placed(i) /\ FormPlaced(p, i)
        BY <1>4 DEF FleetInv, Placed
    <2>2. "ip" \in w.lost \/ g.ip = w.ip
        BY <1>8, <1>a, <2>1 DEF FormPlaced, newip
    <2>3. ASSUME NEW q \in Editors PROVE FormPlaced(q, i)'
        <3>1. CASE q = p
            BY <1>5, <1>11, <2>2, <3>1 DEF FormPlaced
        <3>2. CASE q # p
            <4>1. FormPlaced(q, i) /\ forms'[q] = forms[q]
                BY <1>11, <2>1, <3>2 DEF Placed
            <4>2. forms[q].id = i => (<<i, "ip">> \in behind'[q] <=> <<i, "ip">> \in behind[q] \/ newip)
                BY <1>6, <1>14, <1>18, <3>2
            <4> QED BY <1>8, <1>a, <1>11, <4>1, <4>2 DEF FormPlaced
        <3> QED BY <3>1, <3>2
    <2> QED BY <1>7, <1>11, <1>12, <2>2, <2>3 DEF Placed
<1> QED BY <1>12, <1>13, <1>15, <1>16, <1>17, <1>19, <1>20, <1>21 DEF FleetInv

(***************************************************************************)
(* The tokens of a server that are not to be taken any more stay as young  *)
(* as they were.                                                           *)
(***************************************************************************)
LEMMA EndedTokens ==
    ASSUME cache \in SUBSET Tokens, \A e \in cache : e.age < TokenTTL /\ e.after <= e.age, NEW i
    PROVE  E!Ended(i) \in SUBSET Tokens /\ \A e \in E!Ended(i) : e.age < TokenTTL /\ e.after <= e.age
<1> SUFFICES ASSUME NEW e \in cache
             PROVE  LET t == IF e.id = i /\ e.after < 0 THEN [e EXCEPT !.after = 0] ELSE e
                    IN  t \in Tokens /\ t.age < TokenTTL /\ t.after <= t.age
    BY DEF E!Ended
<1>1. e \in Tokens /\ e.age < TokenTTL /\ e.after <= e.age
    OBVIOUS
<1>2. [e EXCEPT !.after = 0] \in Tokens /\ [e EXCEPT !.after = 0].age = e.age /\ [e EXCEPT !.after = 0].after = 0
    BY <1>1 DEF Tokens
<1>3. e.age \in Nat
    BY <1>1 DEF Tokens
<1> QED BY <1>1, <1>2, <1>3

(***************************************************************************)
(* An archived server is inactive with an unknown status, nobody else's    *)
(* form knows it, and its tokens in memory end.                            *)
(***************************************************************************)
LEMMA ArchiveStep ==
    ASSUME FleetInv, NEW p \in Editors, E!Archive(p)
    PROVE  FleetInv'
<1> PICK i : i = forms[p].id
    OBVIOUS
<1> DEFINE r == [fleet[i] EXCEPT !.active = FALSE, !.status = "unknown"]
           w == [word[i] EXCEPT !.status = "archived", !.lost = word[i].lost \ {"status"}]
<1>0. FleetTyped /\ NoDate \in Int /\ forms[p] \in Forms
    BY FleetConstants DEF FleetInv, FleetTyped
<1>1. /\ UNCHANGED <<gone, owner, agent, additions, looked, overdue, met, torn, edited>>
      /\ E!Counted("acts") /\ i \in E!Standing
      /\ fleet' = [fleet EXCEPT ![i] = r]
      /\ forms' = [forms EXCEPT ![p] = E!NoForm]
      /\ behind' = [E!Overtaken(p, i, {"status"}) EXCEPT ![p] = {}]
      /\ word' = [word EXCEPT ![i] = w]
      /\ cache' = E!Ended(i)
    BY DEF E!Archive, E!ghosts
<1>2. /\ i \in DOMAIN fleet /\ i \in Nat /\ i # 0 /\ i <= Len(fleet) /\ i \in E!Ids /\ fleet[i] \in Rows /\ DOMAIN fleet \subseteq E!Ids
    <2>1. i \in DOMAIN fleet
        BY <1>1 DEF E!Standing
    <2> QED BY <1>0, <2>1, FleetRows
<1>3. r \in Rows /\ r.ip = fleet[i].ip /\ r.renews = fleet[i].renews /\ r.status = "unknown" /\ r.active = FALSE
    BY <1>2 DEF Rows, Statuses
<1>4. /\ w \in Words /\ w.ip = word[i].ip /\ w.date = word[i].date /\ w.loads = word[i].loads /\ w.status = "archived"
      /\ w.lost = word[i].lost \ {"status"}
    <2>1. word[i] \in Words
        BY <1>0, <1>2, WordIs
    <2> QED BY <2>1 DEF Words
<1>5. E!NoForm \in Forms /\ E!NoForm.id = 0
    BY <1>0 DEF E!NoForm, Forms, Named, Statuses
<1> HIDE DEF r, w
<1>6. /\ forms' \in [Editors -> Forms] /\ forms'[p].id = 0 /\ \A q \in Editors : q # p => forms'[q] = forms[q]
      /\ word' \in [E!Ids -> Words] /\ word'[i] = w /\ \A j \in E!Ids : j # i => word'[j] = word[j]
    BY <1>0, <1>1, <1>2, <1>4, <1>5 DEF FleetTyped
<1>7. /\ fleet' \in Seq(Rows) /\ Len(fleet') = Len(fleet) /\ DOMAIN fleet' = DOMAIN fleet
      /\ fleet'[i] = r /\ \A j \in DOMAIN fleet : j # i => fleet'[j] = fleet[j]
    BY <1>0, <1>1, <1>2, <1>3, RowWritten DEF RowPut
<1>8. /\ count' \in Purses /\ count'.loads <= count.loads /\ Future' /\ count'.loads = count.loads /\ count'.loads \in Nat
    <2>1. "acts" \in DOMAIN count /\ "acts" # "loads"
        BY <1>0 DEF FleetTyped, Purses
    <2> QED BY <1>0, <1>1, <2>1, Spent DEF FleetInv, Purses
<1>9. /\ "ip" \in News /\ "ip" # "status" /\ "date" \in News /\ "status" \in News /\ {"status"} \in SUBSET News /\ "date" # "status"
      /\ "check" \in E!Copies /\ Editors \subseteq E!Copies /\ "check" \notin Editors
    BY FleetConstants DEF News, E!Copies
<1>10. /\ behind' \in [E!Copies -> SUBSET (E!Ids \X News)]
       /\ \A q \in Editors \ {p} : /\ <<i, "ip">> \in behind'[q] <=> <<i, "ip">> \in behind[q]
                                   /\ <<i, "date">> \in behind'[q] <=> <<i, "date">> \in behind[q]
                                   /\ forms[q].id = i => <<i, "status">> \in behind'[q]
       /\ looked[i] # "none" => <<i, "status">> \in behind'["check"]
       /\ \A j \in E!Ids \ {i}, q \in E!Copies \ {p}, n \in News : <<j, n>> \in behind'[q] <=> <<j, n>> \in behind[q]
    <2> DEFINE over == E!Overtaken(p, i, {"status"})
    <2>1. over \in [E!Copies -> SUBSET (E!Ids \X News)]
        BY <1>0, <1>2, <1>9, Overtook
    <2>2. /\ behind' \in [E!Copies -> SUBSET (E!Ids \X News)] /\ \A q \in E!Copies \ {p} : behind'[q] = over[q]
        BY <1>1, <2>1
    <2>3. /\ \A q \in Editors \ {p} : /\ <<i, "ip">> \in over[q] <=> <<i, "ip">> \in behind[q]
                                      /\ <<i, "date">> \in over[q] <=> <<i, "date">> \in behind[q]
                                      /\ forms[q].id = i => <<i, "status">> \in over[q]
          /\ looked[i] # "none" => <<i, "status">> \in over["check"]
          /\ \A j \in E!Ids \ {i}, q \in E!Copies, n \in News : <<j, n>> \in over[q] <=> <<j, n>> \in behind[q]
        <3>1. ASSUME NEW n \in News
              PROVE  /\ \A q \in Editors \ {p} : <<i, n>> \in over[q] <=>
                             <<i, n>> \in behind[q] \/ (forms[q].id = i /\ n \in {"status"})
                     /\ <<i, n>> \in over["check"] <=>
                             <<i, n>> \in behind["check"] \/ (looked[i] # "none" /\ n \in {"status"})
                     /\ \A j \in E!Ids \ {i}, q \in E!Copies : <<j, n>> \in over[q] <=> <<j, n>> \in behind[q]
            BY <1>0, <1>2, <1>9, Overtook
        <3> HIDE DEF over
        <3> QED BY <1>9, <3>1
    <2> HIDE DEF over
    <2> QED BY <1>9, <2>2, <2>3
<1>11. FleetTyped'
    <2>1. \A q \in Editors : forms'[q].id <= Len(fleet)
        <3>1. 0 <= Len(fleet)
            BY <1>0, FleetRows
        <3> QED BY <1>0, <1>6, <3>1 DEF FleetTyped
    <2>2. cache' \in SUBSET Tokens
        BY <1>0, <1>1, EndedTokens DEF FleetInv, FleetTyped, TokensYoung
    <2> QED BY <1>0, <1>1, <1>6, <1>7, <1>8, <1>10, <2>1, <2>2 DEF FleetTyped
<1>12. AddressesRight' /\ TokensYoung'
    <2>1. \A j \in DOMAIN fleet : fleet'[j].ip = fleet[j].ip
        BY <1>3, <1>7
    <2>2. \A e \in cache' : e.age < TokenTTL /\ e.after <= e.age
        BY <1>0, <1>1, EndedTokens DEF FleetInv, FleetTyped, TokensYoung
    <2> QED BY <1>0, <1>1, <1>7, <2>1, <2>2, AddressesSame DEF FleetInv, TokensYoung
<1>13. ASSUME NEW j \in DOMAIN fleet PROVE Dated(j)'
    <2>1. /\ Dated(j) /\ j \in E!Ids /\ j # 0 /\ fleet'[j].renews = fleet[j].renews
          /\ word'[j].date = word[j].date /\ word'[j].loads = word[j].loads
          /\ "date" \in word[j].lost => "date" \in word'[j].lost
        BY <1>0, <1>2, <1>3, <1>4, <1>6, <1>7, <1>9, FleetRows DEF FleetInv
    <2>2. \A q \in Editors : forms'[q].id = j =>
              forms[q].id = j /\ forms'[q] = forms[q] /\ (<<j, "date">> \in behind[q] => <<j, "date">> \in behind'[q])
        BY <1>6, <1>9, <1>10, <2>1
    <2> QED BY <1>0, <1>8, <2>1, <2>2, DatedSame
<1>14. ASSUME NEW j \in DOMAIN fleet, j # i PROVE Stood(j)'
    <2>1. Stood(j) /\ j \in E!Ids /\ j # 0 /\ fleet'[j] = fleet[j] /\ word'[j] = word[j]
        BY <1>0, <1>2, <1>6, <1>7, <1>14, FleetRows DEF FleetInv
    <2>2. \A q \in Editors : forms'[q].id = j =>
              forms[q].id = j /\ forms'[q] = forms[q] /\ (<<j, "status">> \in behind[q] => <<j, "status">> \in behind'[q])
        BY <1>6, <1>9, <1>10, <1>14, <2>1
    <2>3. <<j, "status">> \in behind["check"] => <<j, "status">> \in behind'["check"]
        BY <1>9, <1>10, <1>14, <2>1
    <2> QED BY <1>1, <2>1, <2>2, <2>3, StoodSame
<1>15. Stood(i)'
    <2>1. LookStood(i)'
        BY <1>1, <1>10 DEF LookStood
    <2>2. \A q \in Editors : FormStood(q, i)'
        BY <1>1, <1>2, <1>6, <1>10 DEF FormStood
    <2> QED BY <1>3, <1>4, <1>6, <1>7, <2>1, <2>2 DEF Stood, Agrees
<1>16. ASSUME NEW j \in DOMAIN fleet PROVE Placed(j)'
    <2>1. /\ Placed(j) /\ j \in E!Ids /\ j # 0 /\ fleet'[j].ip = fleet[j].ip /\ word'[j].ip = word[j].ip
          /\ "ip" \in word[j].lost => "ip" \in word'[j].lost
        BY <1>0, <1>2, <1>3, <1>4, <1>6, <1>7, <1>9, FleetRows DEF FleetInv
    <2>2. \A q \in Editors : forms'[q].id = j =>
              forms[q].id = j /\ forms'[q] = forms[q] /\ (<<j, "ip">> \in behind[q] => <<j, "ip">> \in behind'[q])
        BY <1>6, <1>9, <1>10, <2>1
    <2> QED BY <2>1, <2>2, PlacedSame
<1> QED BY <1>7, <1>8, <1>11, <1>12, <1>13, <1>14, <1>15, <1>16 DEF FleetInv

(***************************************************************************)
(* A new token changes the row in nothing that the dates or the statuses   *)
(* see.                                                                    *)
(***************************************************************************)
LEMMA RotateStep ==
    ASSUME FleetInv, NEW p \in Editors, E!RotateToken(p)
    PROVE  FleetInv'
<1> PICK i : i = forms[p].id
    OBVIOUS
<1> DEFINE r == [fleet[i] EXCEPT !.token = fleet[i].token + 1]
<1>0. FleetTyped /\ forms[p] \in Forms
    BY DEF FleetInv, FleetTyped
<1>1. /\ UNCHANGED <<gone, owner, agent, forms, additions, looked, word, behind, overdue, met, torn, edited>>
      /\ E!Counted("acts") /\ i \in E!Standing /\ fleet' = [fleet EXCEPT ![i] = r] /\ cache' = E!Ended(i)
    BY DEF E!RotateToken, E!ghosts
<1>2. i \in DOMAIN fleet /\ fleet[i] \in Rows /\ DOMAIN fleet \subseteq E!Ids
    <2>1. i \in DOMAIN fleet
        BY <1>1 DEF E!Standing
    <2> QED BY <1>0, <2>1, FleetRows
<1>3. r \in Rows /\ r.ip = fleet[i].ip /\ r.renews = fleet[i].renews /\ r.status = fleet[i].status /\ r.active = fleet[i].active
    BY <1>2 DEF Rows
<1> HIDE DEF r
<1>4. /\ fleet' \in Seq(Rows) /\ Len(fleet') = Len(fleet) /\ DOMAIN fleet' = DOMAIN fleet
      /\ \A j \in DOMAIN fleet : /\ fleet'[j].ip = fleet[j].ip /\ fleet'[j].renews = fleet[j].renews
                                 /\ fleet'[j].status = fleet[j].status /\ fleet'[j].active = fleet[j].active
    BY <1>0, <1>1, <1>2, <1>3, RowWritten DEF RowPut
<1>5. count' \in Purses /\ count'.loads <= count.loads /\ Future' /\ count'.loads \in Nat
    <2>1. "acts" \in DOMAIN count
        BY <1>0 DEF FleetTyped, Purses
    <2> QED BY <1>0, <1>1, <2>1, Spent DEF FleetInv, Purses
<1>6. /\ cache' \in SUBSET Tokens /\ \A e \in cache' : e.age < TokenTTL /\ e.after <= e.age
    BY <1>0, <1>1, EndedTokens DEF FleetInv, FleetTyped, TokensYoung
<1>7. FleetTyped'
    BY <1>0, <1>1, <1>4, <1>5, <1>6 DEF FleetTyped
<1>8. AddressesRight' /\ TokensYoung'
    BY <1>0, <1>1, <1>4, <1>6, AddressesSame DEF FleetInv, TokensYoung
<1>9. ASSUME NEW j \in DOMAIN fleet PROVE Dated(j)' /\ Stood(j)' /\ Placed(j)'
    <2>1. Dated(j) /\ Stood(j) /\ Placed(j) /\ j \in E!Ids
        BY <1>2 DEF FleetInv
    <2>2. Placed(j)'
        BY <1>1, <1>4, <2>1, PlacedSame
    <2> QED BY <1>0, <1>1, <1>4, <1>5, <2>1, <2>2, DatedSame, StoodSame
<1> QED BY <1>4, <1>5, <1>7, <1>8, <1>9 DEF FleetInv

(***************************************************************************)
(* A payment moves the date by a period from the later of today and the    *)
(* date, and whoever holds an old form does not know it.                   *)
(***************************************************************************)
LEMMA PayStep ==
    ASSUME FleetInv, NEW i \in DOMAIN fleet, E!Pay(i)
    PROVE  FleetInv'
<1> DEFINE paid(x1) == E!Greatest(IF x1 = NoDate THEN Today ELSE x1, Today) + Period
           r == [fleet[i] EXCEPT !.renews = paid(fleet[i].renews)]
           w == [word[i] EXCEPT !.date = paid(word[i].date)]
<1>0. FleetTyped /\ NoDate \in Int /\ Today \in Nat /\ Period \in Nat
    BY FleetConstants DEF FleetInv
<1>1. /\ UNCHANGED <<gone, owner, agent, cache, forms, additions, looked, overdue, met, torn, edited>>
      /\ E!Counted("paid")
      /\ fleet' = [fleet EXCEPT ![i] = r]
      /\ word' = [word EXCEPT ![i] = w]
    BY DEF E!Pay, E!Extended, E!ghosts
<1>2. fleet[i] \in Rows /\ i \in E!Ids /\ DOMAIN fleet \subseteq E!Ids /\ i # 0
    BY <1>0, FleetRows
<1>3. word[i] \in Words
    BY <1>0, <1>2, WordIs
<1>4. /\ \A x1 \in Int : paid(x1) \in Int /\ paid(x1) >= Today
      /\ \A x1, x2 \in Int : x1 # NoDate /\ x2 # NoDate /\ x2 - x1 >= 0 => paid(x2) - paid(x1) \in 0..(x2 - x1)
    BY <1>0 DEF E!Greatest
<1> HIDE DEF paid
<1>5. /\ r \in Rows /\ r.ip = fleet[i].ip /\ r.renews = paid(fleet[i].renews)
      /\ r.status = fleet[i].status /\ r.active = fleet[i].active
      /\ fleet[i].renews \in Int /\ paid(fleet[i].renews) \in Int /\ paid(fleet[i].renews) >= Today
    BY <1>2, <1>4 DEF Rows
<1>6. /\ w \in Words /\ w.date = paid(word[i].date) /\ w.loads = word[i].loads /\ w.status = word[i].status
      /\ w.ip = word[i].ip /\ w.lost = word[i].lost /\ word[i].date \in Int /\ word[i].loads \in Nat
      /\ paid(word[i].date) \in Int /\ paid(word[i].date) >= Today
    BY <1>3, <1>4 DEF Words
<1> HIDE DEF r, w
<1>7. /\ word' \in [E!Ids -> Words] /\ word'[i] = w /\ \A j \in E!Ids : j # i => word'[j] = word[j]
    BY <1>0, <1>1, <1>2, <1>6 DEF FleetTyped
<1>8. /\ fleet' \in Seq(Rows) /\ Len(fleet') = Len(fleet) /\ DOMAIN fleet' = DOMAIN fleet
      /\ fleet'[i] = r /\ \A j \in DOMAIN fleet : j # i => fleet'[j] = fleet[j]
    BY <1>0, <1>1, <1>5, RowWritten DEF RowPut
<1>9. /\ count' \in Purses /\ count'.loads <= count.loads /\ Future' /\ count'.loads = count.loads /\ count'.loads \in Nat
    <2>1. "paid" \in DOMAIN count /\ "paid" # "loads"
        BY <1>0 DEF FleetTyped, Purses
    <2> QED BY <1>0, <1>1, <2>1, Spent DEF FleetInv, Purses
<1>10. /\ behind' \in [E!Copies -> SUBSET (E!Ids \X News)]
       /\ \A q \in E!Copies, s \in E!Ids \X News : s \in behind[q] => s \in behind'[q]
       /\ \A q \in Editors : forms[q].id = i => <<i, "date">> \in behind'[q]
    <2>1. behind' = [q \in E!Copies |-> IF q # "check" /\ E!Holds(q, i) THEN behind[q] \cup {<<i, "date">>} ELSE behind[q]]
        BY DEF E!Pay
    <2>2. \A q \in E!Copies : behind[q] \in SUBSET (E!Ids \X News)
        BY <1>0 DEF FleetTyped
    <2>3. <<i, "date">> \in E!Ids \X News /\ "check" \notin Editors /\ Editors \subseteq E!Copies
        BY <1>2, FleetConstants DEF News, E!Copies
    <2>4. \A q \in Editors : E!Holds(q, i) = (forms[q].id = i)
        BY <2>3 DEF E!Holds
    <2>5. \A q \in E!Copies : behind'[q] \in {behind[q], behind[q] \cup {<<i, "date">>}}
        BY <2>1
    <2>6. \A q \in E!Copies : behind'[q] \in SUBSET (E!Ids \X News)
        BY <2>2, <2>3, <2>5
    <2>7. behind' \in [E!Copies -> SUBSET (E!Ids \X News)]
        BY <2>1, <2>6
    <2>8. \A q \in E!Copies : behind[q] \subseteq behind'[q]
        BY <2>5
    <2>9. \A q \in Editors : forms[q].id = i => <<i, "date">> \in behind'[q]
        BY <2>1, <2>3, <2>4
    <2> QED BY <2>7, <2>8, <2>9
<1>11. FleetTyped'
    BY <1>0, <1>1, <1>7, <1>8, <1>9, <1>10 DEF FleetTyped
<1>12. AddressesRight' /\ TokensYoung'
    <2>1. \A j \in DOMAIN fleet : fleet'[j].ip = fleet[j].ip
        BY <1>5, <1>8
    <2> QED BY <1>0, <1>1, <1>8, <2>1, AddressesSame DEF FleetInv, TokensYoung
<1>13. ASSUME NEW j \in DOMAIN fleet PROVE Stood(j)'
    <2>1. Stood(j) /\ j \in E!Ids /\ "check" \in E!Copies /\ Editors \subseteq E!Copies
        BY <1>2 DEF FleetInv, E!Copies
    <2>2. fleet'[j].status = fleet[j].status /\ fleet'[j].active = fleet[j].active
        BY <1>5, <1>8
    <2>3. word'[j].status = word[j].status /\ word'[j].lost = word[j].lost
        BY <1>6, <1>7, <2>1
    <2>4. \A q \in E!Copies : <<j, "status">> \in behind[q] => <<j, "status">> \in behind'[q]
        BY <1>10, <2>1 DEF News
    <2> QED BY <1>1, <2>1, <2>2, <2>3, <2>4, StoodSame
<1>14. ASSUME NEW j \in DOMAIN fleet, j # i PROVE Dated(j)'
    <2>1. Dated(j) /\ j \in E!Ids /\ Editors \subseteq E!Copies /\ fleet'[j] = fleet[j] /\ word'[j] = word[j]
        BY <1>2, <1>7, <1>8, <1>14 DEF FleetInv, E!Copies
    <2>4. \A q \in E!Copies : <<j, "date">> \in behind[q] => <<j, "date">> \in behind'[q]
        BY <1>10, <2>1 DEF News
    <2> QED BY <1>0, <1>1, <1>9, <2>1, <2>4, DatedSame
<1>15. Dated(i)'
    <2>1. Dated(i)
        BY DEF FleetInv
    <2>2. count.loads \in Nat /\ Today > NoDate + count.loads
        BY <1>0 DEF FleetInv, Future, FleetTyped, Purses
    <2>3. Clear(fleet[i].renews)'
        BY <1>0, <1>5, <1>8, <1>9, <2>2 DEF Clear
    <2>4. "date" \in w.lost \/ Near(r.renews, w)
        <3> SUFFICES ASSUME Near(fleet[i].renews, word[i]) PROVE Near(r.renews, w)
            BY <1>6, <2>1 DEF Dated
        <3>1. CASE fleet[i].renews = word[i].date
            BY <1>5, <1>6, <3>1 DEF Near
        <3>2. CASE fleet[i].renews # word[i].date
            <4>1. /\ fleet[i].renews # NoDate /\ word[i].date # NoDate
                  /\ word[i].date - fleet[i].renews \in 0..word[i].loads
                BY <3>2 DEF Near
            <4>2. paid(word[i].date) - paid(fleet[i].renews) \in 0..(word[i].date - fleet[i].renews)
                BY <1>4, <1>5, <1>6, <4>1
            <4>3. paid(word[i].date) # NoDate /\ paid(fleet[i].renews) # NoDate
                BY <1>0, <1>5, <1>6, <2>2
            <4> QED BY <1>5, <1>6, <4>1, <4>2, <4>3 DEF Near
        <3> QED BY <3>1, <3>2
    <2>5. ASSUME NEW q \in Editors PROVE FormDated(q, i)'
        <3>1. FormDated(q, i)
            BY <2>1 DEF Dated
        <3> QED BY <1>1, <1>9, <1>10, <3>1 DEF FormDated, Clear
    <2> QED BY <1>7, <1>8, <2>3, <2>4, <2>5 DEF Dated, Near
<1>16. ASSUME NEW j \in DOMAIN fleet PROVE Placed(j)'
    <2>1. Placed(j) /\ j \in E!Ids /\ Editors \subseteq E!Copies /\ fleet'[j].ip = fleet[j].ip
        BY <1>2, <1>5, <1>8 DEF FleetInv, E!Copies
    <2>2. word'[j].ip = word[j].ip /\ word'[j].lost = word[j].lost
        BY <1>6, <1>7, <2>1
    <2>3. \A q \in E!Copies : <<j, "ip">> \in behind[q] => <<j, "ip">> \in behind'[q]
        BY <1>10, <2>1 DEF News
    <2> QED BY <1>1, <2>1, <2>2, <2>3, PlacedSame
<1> QED BY <1>8, <1>9, <1>11, <1>12, <1>13, <1>14, <1>15, <1>16 DEF FleetInv

(***************************************************************************)
(* Installing an agent with the present token changes no row.              *)
(***************************************************************************)
LEMMA InstallStep ==
    ASSUME FleetInv, NEW i \in DOMAIN fleet, E!Install(i)
    PROVE  FleetInv'
<1>0. FleetTyped /\ fleet[i] \in Rows /\ i \in E!Ids /\ DOMAIN fleet \subseteq E!Ids
    BY FleetRows DEF FleetInv
<1>1. /\ UNCHANGED <<gone, fleet, owner, cache, forms, additions, looked, count, word, behind, overdue, met, torn, edited>>
      /\ agent' = [agent EXCEPT ![i] = fleet[i].token]
    BY DEF E!Install, E!ghosts
<1>2. agent' \in [E!Ids -> Nat]
    BY <1>0, <1>1 DEF FleetTyped, Rows
<1>3. FleetTyped'
    BY <1>0, <1>1, <1>2 DEF FleetTyped
<1>4. AddressesRight' /\ TokensYoung' /\ Future'
    BY <1>0, <1>1, AddressesSame DEF FleetInv, TokensYoung, Future
<1>5. count.loads \in Nat
    BY <1>0 DEF FleetTyped, Purses
<1>6. ASSUME NEW j \in DOMAIN fleet PROVE Dated(j)' /\ Stood(j)' /\ Placed(j)'
    <2>1. Dated(j) /\ Stood(j) /\ Placed(j) /\ j \in E!Ids
        BY <1>0 DEF FleetInv
    <2>2. Dated(j)'
        <3>1. count' = count /\ count'.loads \in Nat /\ count'.loads <= count.loads
            BY <1>1, <1>5
        <3> QED BY <1>0, <1>1, <2>1, <3>1, DatedSame
    <2>3. Stood(j)'
        BY <1>1, <2>1, StoodSame
    <2>4. Placed(j)'
        BY <1>1, <2>1, PlacedSame
    <2> QED BY <2>2, <2>3, <2>4
<1> QED BY <1>1, <1>3, <1>4, <1>6 DEF FleetInv

(***************************************************************************)
(* Time makes the cached tokens older, and those that are past their       *)
(* validity go.                                                            *)
(***************************************************************************)
LEMMA TickStep ==
    ASSUME FleetInv, E!Tick
    PROVE  FleetInv'
<1>0. FleetTyped /\ DOMAIN fleet \subseteq E!Ids
    BY FleetRows DEF FleetInv
<1>1. /\ UNCHANGED <<gone, fleet, owner, agent, forms, additions, looked, word, behind, overdue, met, torn, edited>>
      /\ E!Counted("now")
    BY Zenon DEF E!Tick, E!ghosts
<1>2. count' \in Purses /\ count'.loads <= count.loads /\ Future' /\ count'.loads \in Nat
    <2>1. "now" \in DOMAIN count
        BY <1>0 DEF FleetTyped, Purses
    <2> QED BY <1>0, <1>1, <2>1, Spent DEF FleetInv, Purses
<1>3. ASSUME NEW e \in cache, e.age + 1 < TokenTTL, NEW t,
             t = [e EXCEPT !.age = e.age + 1, !.after = IF e.after < 0 THEN e.after ELSE e.after + 1]
      PROVE  t \in Tokens /\ t.age < TokenTTL /\ t.after <= t.age
    <2>1. e \in Tokens /\ e.after <= e.age
        BY <1>0 DEF FleetInv, FleetTyped, TokensYoung
    <2>2. e.age \in Nat /\ e.after \in Int
        BY <2>1 DEF Tokens
    <2> DEFINE later == IF e.after < 0 THEN e.after ELSE e.after + 1
    <2>a. later \in Int /\ e.age + 1 \in Nat /\ t = [e EXCEPT !.age = e.age + 1, !.after = later]
        BY <1>3, <2>2
    <2> HIDE DEF later
    <2>b. t \in Tokens /\ t.age = e.age + 1 /\ t.after = later
        BY <2>1, <2>a DEF Tokens
    <2>3. t \in Tokens /\ t.age = e.age + 1 /\ t.after = IF e.after < 0 THEN e.after ELSE e.after + 1
        BY <2>b DEF later
    <2> QED BY <1>3, <2>1, <2>2, <2>3
<1>4. \A t \in cache' : t \in Tokens /\ t.age < TokenTTL /\ t.after <= t.age
    BY <1>3, Zenon DEF E!Tick
<1>5. FleetTyped'
    BY <1>0, <1>1, <1>2, <1>4 DEF FleetTyped
<1>6. AddressesRight' /\ TokensYoung'
    BY <1>0, <1>1, <1>4, AddressesSame DEF FleetInv, TokensYoung
<1>7. ASSUME NEW j \in DOMAIN fleet PROVE Dated(j)' /\ Stood(j)' /\ Placed(j)'
    BY <1>0, <1>1, <1>2, DatedSame, StoodSame, PlacedSame DEF FleetInv
<1> QED BY <1>1, <1>2, <1>5, <1>6, <1>7 DEF FleetInv

(***************************************************************************)
(* After a restart no token is cached and no request is under way; the     *)
(* rows and the forms in the browsers stay.                                *)
(***************************************************************************)
LEMMA RestartStep ==
    ASSUME FleetInv, E!Restart
    PROVE  FleetInv'
<1>0. FleetTyped /\ DOMAIN fleet \subseteq E!Ids
    BY FleetRows DEF FleetInv
<1>1. /\ UNCHANGED <<gone, fleet, owner, agent, forms, looked, word, behind, overdue, met, edited>>
      /\ E!Counted("crashes") /\ cache' = {} /\ additions' = [p \in Editors |-> E!NoAddition]
      /\ torn' = torn \cup {additions[p].ip : p \in {q \in Editors : additions[q].step = "address"}}
    BY DEF E!Restart
<1>2. count' \in Purses /\ count'.loads <= count.loads /\ Future' /\ count'.loads \in Nat
    <2>1. "crashes" \in DOMAIN count
        BY <1>0 DEF FleetTyped, Purses
    <2> QED BY <1>0, <1>1, <2>1, Spent DEF FleetInv, Purses
<1>3. E!NoAddition \in Steps /\ E!NoAddition.step = "none"
    BY DEF E!NoAddition, Steps, Named
<1>4. FleetTyped'
    BY <1>0, <1>1, <1>2, <1>3 DEF FleetTyped
<1>5. AddressesRight'
    <2>1. \A p \in Editors : Added(p)'
        BY <1>1, <1>3 DEF Added
    <2>2. ASSUME NEW i \in E!Standing PROVE Owned(i)' /\ Alone(i)'
        <3>1. Owned(i) /\ Alone(i)
            BY <2>2 DEF FleetInv, AddressesRight
        <3>2. (\E p \in Editors : additions[p].step = "address" /\ additions[p].ip = fleet[i].ip) => fleet[i].ip \in torn'
            BY <1>1
        <3>3. fleet[i].ip \in torn => fleet[i].ip \in torn'
            BY <1>1
        <3>4. E!Standing' = E!Standing
            BY <1>1 DEF E!Standing
        <3> QED BY <1>1, <3>1, <3>2, <3>3, <3>4 DEF Owned, Alone, Exempt
    <2> QED BY <1>1, <2>1, <2>2 DEF FleetInv, AddressesRight, E!Standing
<1>6. TokensYoung'
    BY <1>1 DEF FleetInv, TokensYoung
<1>7. ASSUME NEW j \in DOMAIN fleet PROVE Dated(j)' /\ Stood(j)' /\ Placed(j)'
    BY <1>0, <1>1, <1>2, DatedSame, StoodSame, PlacedSame DEF FleetInv
<1> QED BY <1>1, <1>2, <1>4, <1>5, <1>6, <1>7 DEF FleetInv

(***************************************************************************)
(* The check reads the status of every server it will judge.               *)
(***************************************************************************)
LEMMA LookStep ==
    ASSUME FleetInv, E!Look
    PROVE  FleetInv'
<1>0. FleetTyped /\ DOMAIN fleet \subseteq E!Ids /\ DOMAIN fleet = 1..Len(fleet) /\ Len(fleet) \in Nat
    BY FleetRows DEF FleetInv
<1>1. /\ UNCHANGED <<gone, fleet, owner, agent, cache, forms, additions, word, overdue, met, torn, edited>>
      /\ E!Counted("looks")
      /\ looked' = [i \in E!Ids |-> IF i \in E!Standing /\ fleet[i].active THEN fleet[i].status ELSE "none"]
      /\ behind' = [behind EXCEPT !["check"] = {}]
    BY DEF E!Look, E!ghosts
<1>2. count' \in Purses /\ count'.loads <= count.loads /\ Future' /\ count'.loads \in Nat
    <2>1. "looks" \in DOMAIN count
        BY <1>0 DEF FleetTyped, Purses
    <2> QED BY <1>0, <1>1, <2>1, Spent DEF FleetInv, Purses
<1>3. /\ "check" \notin Editors /\ "check" \in E!Copies /\ Editors \subseteq E!Copies
      /\ behind \in [E!Copies -> SUBSET (E!Ids \X News)]
    BY <1>0, FleetConstants DEF E!Copies, FleetTyped
<1>4. behind' \in [E!Copies -> SUBSET (E!Ids \X News)] /\ \A p \in Editors : behind'[p] = behind[p]
    BY <1>1, <1>3
<1>5. looked' \in [E!Ids -> Statuses \cup {"none"}] /\ \A i \in E!Ids : looked'[i] # "none" => i <= Len(fleet)
    <2>1. \A i \in DOMAIN fleet : fleet[i].status \in Statuses
        BY <1>0, FleetRows DEF Rows
    <2> QED BY <1>0, <1>1, <2>1 DEF E!Standing
<1>6. FleetTyped'
    BY <1>0, <1>1, <1>2, <1>4, <1>5 DEF FleetTyped
<1>7. AddressesRight' /\ TokensYoung'
    BY <1>0, <1>1, AddressesSame DEF FleetInv, TokensYoung
<1>8. ASSUME NEW j \in DOMAIN fleet PROVE Dated(j)' /\ Stood(j)' /\ Placed(j)'
    <2>1. Dated(j) /\ Stood(j) /\ Placed(j) /\ j \in E!Ids
        BY <1>0 DEF FleetInv
    <2>2. Dated(j)'
        BY <1>0, <1>1, <1>2, <1>4, <2>1, DatedSame
    <2>3. LookStood(j)'
        BY <1>1, <2>1 DEF Stood, LookStood, Agrees
    <2>4. \A p \in Editors : FormStood(p, j)'
        BY <1>1, <1>4, <2>1 DEF Stood, FormStood, Agrees
    <2>5. Placed(j)'
        BY <1>1, <1>4, <2>1, PlacedSame
    <2> QED BY <1>1, <2>1, <2>2, <2>3, <2>4, <2>5 DEF Stood, Agrees
<1> QED BY <1>1, <1>2, <1>6, <1>7, <1>8 DEF FleetInv

(***************************************************************************)
(* A row that gets a status, and a word that may lose it.                  *)
(***************************************************************************)
LEMMA StatusWritten ==
    ASSUME FleetTyped, NEW i \in DOMAIN fleet, NEW s \in Statuses, NEW t
    PROVE  /\ t = [fleet[i] EXCEPT !.status = s] =>
                  t \in Rows /\ t.status = s /\ t.ip = fleet[i].ip /\ t.renews = fleet[i].renews /\ t.active = fleet[i].active
           /\ t = [word[i] EXCEPT !.lost = word[i].lost \cup {"status"}] =>
                  /\ t \in Words /\ t.ip = word[i].ip /\ t.date = word[i].date /\ t.loads = word[i].loads
                  /\ t.status = word[i].status /\ t.lost = word[i].lost \cup {"status"}
<1>1. fleet[i] \in Rows /\ i \in E!Ids
    BY FleetRows
<1>2. word[i] \in Words
    BY <1>1, WordIs
<1>3. ASSUME t = [fleet[i] EXCEPT !.status = s]
      PROVE  t \in Rows /\ t.status = s /\ t.ip = fleet[i].ip /\ t.renews = fleet[i].renews /\ t.active = fleet[i].active
    BY <1>1, <1>3 DEF Rows
<1>4. ASSUME t = [word[i] EXCEPT !.lost = word[i].lost \cup {"status"}]
      PROVE  /\ t \in Words /\ t.ip = word[i].ip /\ t.date = word[i].date /\ t.loads = word[i].loads
             /\ t.status = word[i].status /\ t.lost = word[i].lost \cup {"status"}
    <2>1. word[i].lost \cup {"status"} \in SUBSET News
        BY <1>2 DEF Words, News
    <2> QED BY <1>2, <1>4, <2>1 DEF Words
<1> QED BY <1>3, <1>4

(***************************************************************************)
(* A report puts a server up unless it is under maintenance, and of an     *)
(* archived one the status is lost; a token that has ended was still in    *)
(* memory, for less than the lifetime there.                               *)
(***************************************************************************)
LEMMA ReportStep ==
    ASSUME FleetInv, NEW i \in DOMAIN fleet, E!Report(i)
    PROVE  FleetInv'
<1> DEFINE hits == {e \in cache : e.id = i /\ e.token = agent[i]}
           s == E!Reported(fleet[i].status)
           r == [fleet[i] EXCEPT !.status = s]
           w == [word[i] EXCEPT !.lost = word[i].lost \cup {"status"}]
<1>0. FleetTyped /\ i \in E!Ids /\ DOMAIN fleet \subseteq E!Ids /\ fleet[i] \in Rows /\ i \in Nat
    BY FleetRows DEF FleetInv
<1>1. /\ UNCHANGED <<gone, owner, agent, forms, additions, looked, count, behind, met, torn, edited>>
      /\ fleet' = [fleet EXCEPT ![i] = r]
      /\ word' = IF fleet[i].active THEN word ELSE [word EXCEPT ![i] = w]
      /\ cache' = IF hits # {} THEN (cache \ hits) \cup {E!Served(e) : e \in hits}
                  ELSE cache \cup {[id |-> i, token |-> agent[i], age |-> 0, after |-> 0 - 1]}
      /\ overdue' = IF \E e \in hits : e.after > overdue THEN (CHOOSE e \in hits : TRUE).after ELSE overdue
    BY DEF E!Report
<1>2. /\ cache' \in SUBSET Tokens /\ (\A e \in cache' : e.age < TokenTTL /\ e.after <= e.age)
      /\ overdue' \in Int /\ overdue' < TokenTTL
    <2>1. \A e \in cache : e \in Tokens /\ e.age < TokenTTL /\ e.after <= e.age
        BY <1>0 DEF FleetInv, FleetTyped, TokensYoung
    <2>2. \A e \in Tokens : e.age \in Nat /\ e.after \in Int
        BY DEF Tokens
    <2>3. hits \subseteq cache /\ {E!Served(e) : e \in hits} = hits
        BY DEF E!Served
    <2> DEFINE fresh == [id |-> i, token |-> agent[i], age |-> 0, after |-> 0 - 1]
    <2>4. fresh \in Tokens /\ fresh.age = 0 /\ fresh.after = 0 - 1
        BY <1>0 DEF FleetTyped, Tokens
    <2> HIDE DEF hits, fresh
    <2>5. cache' \subseteq cache \cup {fresh}
        BY <1>1, <2>3 DEF fresh
    <2>6. \A e \in cache' : e \in Tokens /\ e.age < TokenTTL /\ e.after <= e.age
        BY <2>1, <2>4, <2>5, FleetConstants
    <2>7. hits # {} => (CHOOSE e \in hits : TRUE) \in hits
        OBVIOUS
    <2>8. overdue \in Int /\ overdue < TokenTTL
        BY DEF FleetInv, TokensYoung
    <2>9. overdue' \in Int /\ overdue' < TokenTTL
        <3>1. CASE \E e \in hits : e.after > overdue
            <4>1. PICK e \in hits : overdue' = e.after
                BY <1>1, <2>7, <3>1
            <4>2. e \in Tokens /\ e.age < TokenTTL /\ e.after <= e.age /\ e.age \in Nat /\ e.after \in Int
                BY <2>1, <2>2, <2>3
            <4> QED BY <4>1, <4>2, FleetConstants
        <3>2. CASE ~ \E e \in hits : e.after > overdue
            BY <1>1, <2>8, <3>2
        <3> QED BY <3>1, <3>2
    <2> QED BY <2>6, <2>9
<1>3. s \in Statuses /\ (s = "maintenance") = (fleet[i].status = "maintenance")
    BY <1>0 DEF E!Reported, Rows, Statuses
<1>4. /\ r \in Rows /\ r.status = s /\ r.ip = fleet[i].ip /\ r.renews = fleet[i].renews /\ r.active = fleet[i].active
      /\ w \in Words /\ w.ip = word[i].ip /\ w.date = word[i].date /\ w.loads = word[i].loads
      /\ w.status = word[i].status /\ w.lost = word[i].lost \cup {"status"}
    <2>1. FleetTyped /\ i \in DOMAIN fleet /\ s \in Statuses
        BY <1>0, <1>3
    <2> HIDE DEF s
    <2> QED BY <2>1, StatusWritten
<1> HIDE DEF hits, s, r, w
<1>5. /\ fleet' \in Seq(Rows) /\ Len(fleet') = Len(fleet) /\ DOMAIN fleet' = DOMAIN fleet
      /\ fleet'[i] = r /\ \A j \in DOMAIN fleet : j # i => fleet'[j] = fleet[j]
    BY <1>0, <1>1, <1>4, RowWritten DEF RowPut
<1>6. /\ word' \in [E!Ids -> Words] /\ \A j \in E!Ids : j # i => word'[j] = word[j]
      /\ word'[i] = IF fleet[i].active THEN word[i] ELSE w
    BY <1>0, <1>1, <1>4 DEF FleetTyped
<1>7. \A j \in E!Ids : word'[j].ip = word[j].ip /\ word'[j].date = word[j].date /\ word'[j].loads = word[j].loads /\ word'[j].status = word[j].status
                       /\ word[j].lost \subseteq word'[j].lost
    BY <1>4, <1>6
<1>8. FleetTyped'
    BY <1>0, <1>1, <1>2, <1>5, <1>6 DEF FleetTyped
<1>9. AddressesRight' /\ Future'
    <2>1. \A j \in DOMAIN fleet : fleet'[j].ip = fleet[j].ip
        BY <1>4, <1>5
    <2> QED BY <1>0, <1>1, <1>5, <2>1, AddressesSame DEF FleetInv, Future
<1>10. TokensYoung'
    BY <1>2 DEF TokensYoung
<1>11. count.loads \in Nat /\ count' = count /\ count'.loads \in Nat /\ count'.loads <= count.loads
    BY <1>0, <1>1 DEF FleetTyped, Purses
<1>12. ASSUME NEW j \in DOMAIN fleet PROVE Dated(j)'
    <2>1. Dated(j) /\ j \in E!Ids
        BY <1>0 DEF FleetInv
    <2>2. fleet'[j].renews = fleet[j].renews
        BY <1>4, <1>5
    <2>3. "date" \in word[j].lost => "date" \in word'[j].lost
        BY <1>7, <2>1
    <2> QED BY <1>0, <1>1, <1>7, <1>11, <2>1, <2>2, <2>3, DatedSame
<1>13. ASSUME NEW j \in DOMAIN fleet, j # i PROVE Stood(j)'
    <2>1. Stood(j) /\ j \in E!Ids /\ fleet'[j] = fleet[j] /\ word'[j] = word[j]
        BY <1>0, <1>5, <1>6, <1>13 DEF FleetInv
    <2> QED BY <1>1, <2>1, StoodSame
<1>14. Stood(i)'
    <2>1. Stood(i)
        BY DEF FleetInv
    <2>2. CASE ~fleet[i].active
        <3>1. "status" \in word'[i].lost
            BY <1>4, <1>6, <2>2
        <3> QED BY <3>1 DEF Stood, LookStood, FormStood
    <2>3. CASE fleet[i].active
        <3>1. word'[i] = word[i] /\ fleet'[i].status = s /\ fleet'[i].active = fleet[i].active
            BY <1>4, <1>5, <1>6, <2>3
        <3>2. LookStood(i)' /\ \A q \in Editors : FormStood(q, i)'
            BY <1>1, <2>1, <3>1 DEF Stood, LookStood, FormStood, Agrees
        <3> QED BY <1>3, <2>1, <2>3, <3>1, <3>2 DEF Stood, Agrees
    <2> QED BY <2>2, <2>3
<1>15. ASSUME NEW j \in DOMAIN fleet PROVE Placed(j)'
    <2>1. Placed(j) /\ j \in E!Ids
        BY <1>0 DEF FleetInv
    <2>2. fleet'[j].ip = fleet[j].ip
        BY <1>4, <1>5
    <2> QED BY <1>1, <1>7, <2>1, <2>2, PlacedSame
<1> QED BY <1>5, <1>8, <1>9, <1>10, <1>12, <1>13, <1>14, <1>15 DEF FleetInv

(***************************************************************************)
(* The check writes what it found when that differs from what it had read, *)
(* except over a maintenance it had read; what was decided since the       *)
(* reading is lost where it writes.                                        *)
(***************************************************************************)
LEMMA VerdictStep ==
    ASSUME FleetInv, NEW i \in DOMAIN fleet, NEW found \in {"up", "down"}, E!Verdict(i, found)
    PROVE  FleetInv'
<1> DEFINE writes == i \in E!Standing /\ ~E!Skipped(looked[i]) /\ looked[i] # found
           r == [fleet[i] EXCEPT !.status = found]
           w == [word[i] EXCEPT !.lost = word[i].lost \cup {"status"}]
<1>0. FleetTyped /\ i \in E!Ids /\ DOMAIN fleet \subseteq E!Ids /\ fleet[i] \in Rows /\ i \in Nat /\ i # 0
    BY FleetRows DEF FleetInv
<1>1. /\ UNCHANGED <<gone, owner, agent, cache, forms, additions, count, overdue, met, torn, edited>>
      /\ looked[i] # "none" /\ looked' = [looked EXCEPT ![i] = "none"]
      /\ fleet' = IF writes THEN [fleet EXCEPT ![i] = r] ELSE fleet
      /\ word' = IF writes /\ <<i, "status">> \in behind["check"] THEN [word EXCEPT ![i] = w] ELSE word
      /\ behind' = [behind EXCEPT !["check"] = behind["check"] \ ({i} \X E!Facts)]
    BY DEF E!Verdict, E!ghosts
<1>2. /\ r \in Rows /\ r.status = found /\ r.ip = fleet[i].ip /\ r.renews = fleet[i].renews /\ r.active = fleet[i].active
      /\ w \in Words /\ w.ip = word[i].ip /\ w.date = word[i].date /\ w.loads = word[i].loads
      /\ w.status = word[i].status /\ w.lost = word[i].lost \cup {"status"}
    <2>1. FleetTyped /\ i \in DOMAIN fleet /\ found \in Statuses
        BY <1>0 DEF Statuses
    <2> QED BY <2>1, StatusWritten
<1>3. writes => looked[i] # "maintenance"
    BY DEF E!Skipped
<1> HIDE DEF writes, r, w
<1>4. /\ fleet' \in Seq(Rows) /\ Len(fleet') = Len(fleet) /\ DOMAIN fleet' = DOMAIN fleet
      /\ fleet'[i] = (IF writes THEN r ELSE fleet[i]) /\ \A j \in DOMAIN fleet : j # i => fleet'[j] = fleet[j]
    <2>1. CASE writes
        BY <1>0, <1>1, <1>2, <2>1, RowWritten DEF RowPut
    <2>2. CASE ~writes
        BY <1>0, <1>1, <2>2 DEF FleetTyped
    <2> QED BY <2>1, <2>2
<1>5. /\ word' \in [E!Ids -> Words] /\ \A j \in E!Ids : j # i => word'[j] = word[j]
      /\ word'[i] = IF writes /\ <<i, "status">> \in behind["check"] THEN w ELSE word[i]
    BY <1>0, <1>1, <1>2 DEF FleetTyped
<1>6. \A j \in E!Ids : word'[j].ip = word[j].ip /\ word'[j].date = word[j].date /\ word'[j].loads = word[j].loads /\ word'[j].status = word[j].status
                       /\ word[j].lost \subseteq word'[j].lost
    BY <1>2, <1>5
<1>7. /\ "check" \notin Editors /\ "check" \in E!Copies /\ Editors \subseteq E!Copies
      /\ behind \in [E!Copies -> SUBSET (E!Ids \X News)]
    BY <1>0, FleetConstants DEF E!Copies, FleetTyped
<1>8. /\ behind' \in [E!Copies -> SUBSET (E!Ids \X News)] /\ \A p \in Editors : behind'[p] = behind[p]
      /\ \A j \in E!Ids, n \in News : j # i /\ <<j, n>> \in behind["check"] => <<j, n>> \in behind'["check"]
    <2> DEFINE rest == behind["check"] \ ({i} \X E!Facts)
    <2>1. rest \in SUBSET (E!Ids \X News) /\ \A j \in E!Ids, n \in News : j # i /\ <<j, n>> \in behind["check"] => <<j, n>> \in rest
        BY <1>7
    <2>2. behind' = [behind EXCEPT !["check"] = rest]
        BY <1>1
    <2> HIDE DEF rest
    <2> QED BY <1>7, <2>1, <2>2
<1>9. /\ looked' \in [E!Ids -> Statuses \cup {"none"}] /\ looked'[i] = "none"
      /\ \A j \in E!Ids : looked'[j] # "none" => j # i /\ looked'[j] = looked[j]
    BY <1>0, <1>1 DEF FleetTyped
<1>10. FleetTyped'
    <2>1. \A j \in E!Ids : looked'[j] # "none" => j <= Len(fleet)
        BY <1>0, <1>9 DEF FleetTyped
    <2> QED BY <1>0, <1>1, <1>4, <1>5, <1>8, <1>9, <2>1 DEF FleetTyped
<1>11. AddressesRight' /\ TokensYoung' /\ Future'
    <2>1. \A j \in DOMAIN fleet : fleet'[j].ip = fleet[j].ip
        BY <1>2, <1>4
    <2> QED BY <1>0, <1>1, <1>4, <2>1, AddressesSame DEF FleetInv, Future, TokensYoung
<1>12. count.loads \in Nat /\ count' = count /\ count'.loads \in Nat /\ count'.loads <= count.loads
    BY <1>0, <1>1 DEF FleetTyped, Purses
<1>13. ASSUME NEW j \in DOMAIN fleet PROVE Dated(j)'
    <2>1. Dated(j) /\ j \in E!Ids
        BY <1>0 DEF FleetInv
    <2>2. fleet'[j].renews = fleet[j].renews
        BY <1>2, <1>4
    <2>3. "date" \in word[j].lost => "date" \in word'[j].lost
        BY <1>6, <2>1
    <2> QED BY <1>0, <1>1, <1>6, <1>8, <1>12, <2>1, <2>2, <2>3, DatedSame
<1>14. ASSUME NEW j \in DOMAIN fleet, j # i PROVE Stood(j)'
    <2>1. Stood(j) /\ j \in E!Ids /\ fleet'[j] = fleet[j] /\ word'[j] = word[j] /\ "status" \in News
        BY <1>0, <1>4, <1>5, <1>14 DEF FleetInv, News
    <2> QED BY <1>1, <1>8, <1>9, <1>14, <2>1, StoodSame
<1>15. Stood(i)'
    <2>1. Stood(i) /\ LookStood(i) /\ \A q \in Editors : FormStood(q, i)
        BY DEF FleetInv, Stood
    <2>2. LookStood(i)'
        BY <1>9 DEF LookStood
    <2>3. \A q \in Editors : FormStood(q, i)'
        BY <1>0, <1>1, <1>6, <1>8, <2>1 DEF FormStood, Agrees
    <2>4. "status" \notin word'[i].lost =>
            Agrees(fleet'[i].status, word'[i]) /\ (word'[i].status = "archived" => fleet'[i].status = "unknown" /\ ~fleet'[i].active)
        <3>1. CASE ~writes
            BY <1>4, <1>5, <2>1, <3>1 DEF Stood, Agrees
        <3>2. CASE writes /\ <<i, "status">> \in behind["check"]
            BY <1>2, <1>5, <3>2
        <3>3. CASE writes /\ <<i, "status">> \notin behind["check"]
            BY <1>1, <1>2, <1>3, <1>4, <1>5, <2>1, <3>3 DEF LookStood, Agrees
        <3> QED BY <3>1, <3>2, <3>3
    <2> QED BY <2>2, <2>3, <2>4 DEF Stood, Agrees
<1>16. ASSUME NEW j \in DOMAIN fleet PROVE Placed(j)'
    <2>1. Placed(j) /\ j \in E!Ids
        BY <1>0 DEF FleetInv
    <2>2. fleet'[j].ip = fleet[j].ip
        BY <1>2, <1>4
    <2> QED BY <1>1, <1>6, <1>8, <2>1, <2>2, PlacedSame
<1> QED BY <1>4, <1>10, <1>11, <1>13, <1>14, <1>15, <1>16 DEF FleetInv

(***************************************************************************)
(* Adding a server begins by asking whether the address is in use.         *)
(***************************************************************************)
LEMMA AddStep ==
    ASSUME FleetInv, NEW p \in Editors, E!Add(p)
    PROVE  FleetInv'
<1>0. FleetTyped /\ DOMAIN fleet \subseteq E!Ids
    BY FleetRows DEF FleetInv
<1>1. PICK ip \in Ips : E!Unused(ip) /\ additions' = [additions EXCEPT ![p] = [step |-> "insert", ip |-> ip, id |-> 0]]
    BY DEF E!Add
<1>2. /\ UNCHANGED <<gone, fleet, owner, agent, cache, forms, looked, word, behind, overdue, met, torn, edited>>
      /\ E!Counted("adds") /\ additions[p] = E!NoAddition
    BY DEF E!Add, E!ghosts
<1>3. count' \in Purses /\ count'.loads <= count.loads /\ Future' /\ count'.loads \in Nat
    <2>1. "adds" \in DOMAIN count
        BY <1>0 DEF FleetTyped, Purses
    <2> QED BY <1>0, <1>2, <2>1, Spent DEF FleetInv, Purses
<1> DEFINE n == [step |-> "insert", ip |-> ip, id |-> 0]
<1>4. n \in Steps /\ n.step = "insert" /\ n.ip = ip
    BY DEF Steps, Named
<1> HIDE DEF n
<1>5. additions' \in [Editors -> Steps] /\ additions'[p] = n /\ \A q \in Editors \ {p} : additions'[q] = additions[q]
    BY <1>0, <1>1, <1>4 DEF FleetTyped, n
<1>6. FleetTyped'
    BY <1>0, <1>2, <1>3, <1>5 DEF FleetTyped
<1>7. AddressesRight'
    <2>1. ASSUME NEW q \in Editors PROVE Added(q)'
        <3>1. CASE q = p
            BY <1>1, <1>2, <1>4, <1>5, <3>1 DEF Added, Exempt, E!Unused, E!Standing
        <3>2. CASE q # p
            BY <1>2, <1>5, <3>2 DEF FleetInv, AddressesRight, Added, Exempt, E!Unused, E!Standing
        <3> QED BY <3>1, <3>2
    <2>2. ASSUME NEW i \in E!Standing PROVE Owned(i)' /\ Alone(i)'
        <3>1. Owned(i) /\ Alone(i)
            BY <2>2 DEF FleetInv, AddressesRight
        <3>2. \A q \in Editors : additions[q].step = "address" => additions'[q] = additions[q]
            BY <1>2, <1>5 DEF E!NoAddition
        <3>3. E!Standing' = E!Standing
            BY <1>2 DEF E!Standing
        <3> QED BY <1>2, <3>1, <3>2, <3>3 DEF Owned, Alone, Exempt
    <2> QED BY <1>2, <2>1, <2>2 DEF FleetInv, AddressesRight, E!Standing
<1>8. TokensYoung'
    BY <1>2 DEF FleetInv, TokensYoung
<1>9. ASSUME NEW j \in DOMAIN fleet PROVE Dated(j)' /\ Stood(j)' /\ Placed(j)'
    <2>1. Dated(j) /\ Stood(j) /\ Placed(j) /\ j \in E!Ids
        BY <1>0 DEF FleetInv
    <2>2. Dated(j)'
        BY <1>0, <1>2, <1>3, <2>1, DatedSame
    <2>3. Stood(j)'
        BY <1>2, <2>1, StoodSame
    <2>4. Placed(j)'
        BY <1>2, <2>1, PlacedSame
    <2> QED BY <2>2, <2>3, <2>4
<1> QED BY <1>2, <1>3, <1>6, <1>7, <1>8, <1>9 DEF FleetInv

(***************************************************************************)
(* An inserted server gets the next number, no date and no form that       *)
(* speaks of it yet; another addition that has asked about the same        *)
(* address has crossed it.                                                 *)
(***************************************************************************)
LEMMA InsertStep ==
    ASSUME FleetInv, NEW p \in Editors, E!Insert(p)
    PROVE  FleetInv'
<1> PICK ip, n : ip = additions[p].ip /\ n = Len(fleet) + 1
    OBVIOUS
<1> DEFINE r == E!Fresh(ip)
           z == [additions[p] EXCEPT !.step = "address", !.id = n]
<1>0. /\ FleetTyped /\ DOMAIN fleet = 1..Len(fleet) /\ DOMAIN fleet \subseteq E!Ids /\ Len(fleet) \in Nat
      /\ additions[p] \in Steps /\ NoDate \in Int
    BY FleetRows, FleetConstants DEF FleetInv, FleetTyped
<1>1. /\ UNCHANGED <<gone, owner, agent, cache, forms, looked, count, behind, overdue, torn, edited>>
      /\ additions[p].step = "insert" /\ Len(fleet) < MaxServers
      /\ met' = (IF \E q \in Editors \ {p} : additions[q].ip = ip THEN met \cup {ip} ELSE met)
      /\ fleet' = Append(fleet, r) /\ word' = [word EXCEPT ![n] = E!Word(r)]
      /\ additions' = [additions EXCEPT ![p] = z]
    BY DEF E!Insert
<1>2. Added(p) /\ ip \in Ips /\ (E!Unused(ip) \/ Exempt(ip))
    BY <1>1 DEF FleetInv, AddressesRight, Added
<1>3. /\ r \in Rows /\ r.ip = ip /\ r.renews = NoDate /\ r.status = "unknown" /\ r.active = TRUE
    BY <1>0, <1>2 DEF E!Fresh, Rows, Statuses
<1>4. z \in Steps /\ z.step = "address" /\ z.ip = ip /\ z.id = n
    <2>1. n \in Nat /\ additions[p] \in [step : {"none", "insert", "address"}, ip : Named, id : Nat]
        BY <1>0 DEF Steps
    <2>2. z \in [step : {"none", "insert", "address"}, ip : Named, id : Nat]
        BY <2>1
    <2>3. z.step = "address" /\ z.ip = additions[p].ip /\ z.id = n
        BY <2>1
    <2> QED BY <2>2, <2>3 DEF Steps
<1>a. /\ E!Word(r) \in Words /\ E!Word(r).ip = ip /\ E!Word(r).date = NoDate /\ E!Word(r).loads = 0
      /\ E!Word(r).status = "watched" /\ E!Word(r).lost = {}
    <2>1. E!Word(r) = [ip |-> r.ip, date |-> r.renews, loads |-> 0, status |-> "watched", lost |-> {}]
        BY DEF E!Word, E!Live
    <2> QED BY <1>0, <1>2, <1>3, <2>1 DEF Words, Named
<1> HIDE DEF r, z
<1>5. /\ fleet' \in Seq(Rows) /\ Len(fleet') = n /\ DOMAIN fleet' = 1..n /\ fleet'[n] = r
      /\ \A j \in DOMAIN fleet : fleet'[j] = fleet[j]
    <2>1. fleet \in Seq(Rows)
        BY <1>0 DEF FleetTyped
    <2>2. /\ fleet' \in Seq(Rows) /\ Len(fleet') = n /\ fleet'[n] = r
          /\ \A j \in 1..Len(fleet) : fleet'[j] = fleet[j]
        BY <1>1, <1>3, <2>1, AppendProperties
    <2> QED BY <1>0, <2>2, LenProperties
<1>6. n \in 1..MaxServers /\ n \in E!Ids /\ n \notin DOMAIN fleet /\ DOMAIN fleet' = DOMAIN fleet \cup {n}
    BY <1>0, <1>1, <1>5, FleetConstants DEF E!Ids
<1>7. additions' \in [Editors -> Steps] /\ additions'[p] = z /\ \A q \in Editors \ {p} : additions'[q] = additions[q]
    BY <1>0, <1>1, <1>4 DEF FleetTyped
<1>b. word' \in [E!Ids -> Words] /\ word'[n] = E!Word(r) /\ \A j \in DOMAIN fleet : word'[j] = word[j]
    BY <1>0, <1>1, <1>6, <1>a DEF FleetTyped
<1>8. FleetTyped'
    <2>1. \A q \in Editors : forms[q].id <= Len(fleet) /\ forms[q].id \in Nat
        BY <1>0 DEF FleetTyped, Forms
    <2>2. \A j \in E!Ids : j \in Nat
        BY DEF E!Ids
    <2> QED BY <1>0, <1>1, <1>5, <1>6, <1>7, <1>b, <2>1, <2>2 DEF FleetTyped
<1>9. /\ met \subseteq met' /\ \A q \in Editors \ {p} : additions[q].ip = ip => ip \in met'
      /\ E!Standing' = E!Standing \cup {n} /\ n \notin E!Standing /\ n \notin gone /\ E!Standing \subseteq DOMAIN fleet
    BY <1>0, <1>1, <1>6 DEF E!Standing, FleetTyped
<1>10. AddressesRight'
    <2>0. \A h : Exempt(h) => h \in met' \cup edited'
        BY <1>1, <1>9 DEF Exempt
    <2>1. ASSUME NEW q \in Editors PROVE Added(q)'
        <3>1. CASE q = p
            BY <1>2, <1>4, <1>5, <1>6, <1>7, <1>3, <3>1 DEF Added
        <3>2. CASE q # p
            <4>1. Added(q) /\ additions'[q] = additions[q]
                BY <1>7, <3>2 DEF FleetInv, AddressesRight
            <4>2. additions[q].step = "insert" => E!Unused(additions[q].ip)' \/ additions[q].ip \in met' \cup edited'
                BY <1>3, <1>5, <1>9, <2>0, <3>2, <4>1 DEF Added, E!Unused
            <4>3. additions[q].step = "address" =>
                      /\ additions[q].id \in DOMAIN fleet /\ additions[q].id \in DOMAIN fleet'
                      /\ additions[q].id \notin gone =>
                             fleet'[additions[q].id].ip = additions[q].ip \/ additions[q].ip \in edited
                BY <1>5, <1>6, <4>1 DEF Added
            <4>4. additions[q].step # "none" => additions[q].ip \in Ips
                BY <4>1 DEF Added
            <4>5. gone' = gone /\ edited' = edited
                BY <1>1
            <4> QED BY <4>1, <4>2, <4>3, <4>4, <4>5 DEF Added, Exempt
        <3> QED BY <3>1, <3>2
    <2>2. \A i \in E!Standing : fleet[i].ip = ip => ip \in met' \cup edited'
        BY <1>2, <2>0 DEF E!Unused
    <2>3. ASSUME NEW i \in E!Standing PROVE Owned(i)' /\ Alone(i)'
        <3>1. Owned(i) /\ Alone(i) /\ fleet'[i].ip = fleet[i].ip /\ i \in DOMAIN fleet
            BY <1>5, <1>9 DEF FleetInv, AddressesRight
        <3>2. \A q \in Editors : additions[q].step = "address" => additions'[q] = additions[q]
            BY <1>1, <1>7
        <3>3. \A j \in E!Standing : fleet'[j] = fleet[j]
            BY <1>5, <1>9
        <3>4. Alone(i)'
            BY <1>3, <1>5, <1>9, <2>0, <2>2, <3>1, <3>3 DEF Alone, Exempt
        <3>5. Owned(i)'
            BY <1>1, <1>9, <3>1, <3>2, <3>3 DEF Owned
        <3> QED BY <3>4, <3>5
    <2>4. Owned(n)' /\ Alone(n)'
        <3>1. Owned(n)'
            BY <1>1, <1>3, <1>4, <1>5, <1>7, <1>9 DEF Owned
        <3>2. Alone(n)'
            BY <1>3, <1>5, <1>9, <2>2 DEF Alone, Exempt
        <3> QED BY <3>1, <3>2
    <2>5. \A h \in Ips : owner'[h] = 0 \/ owner'[h] \in E!Standing'
        BY <1>1, <1>9 DEF FleetInv, AddressesRight
    <2> QED BY <1>9, <2>1, <2>3, <2>4, <2>5 DEF AddressesRight
<1>11. TokensYoung' /\ Future'
    BY <1>1 DEF FleetInv, TokensYoung, Future
<1>12. count.loads \in Nat /\ count' = count /\ count'.loads \in Nat /\ count'.loads <= count.loads
    BY <1>0, <1>1 DEF FleetTyped, Purses
<1>13. ASSUME NEW j \in DOMAIN fleet PROVE Dated(j)' /\ Stood(j)' /\ Placed(j)'
    <2>1. Dated(j) /\ Stood(j) /\ Placed(j) /\ j \in E!Ids /\ fleet'[j] = fleet[j] /\ word'[j] = word[j]
        BY <1>0, <1>5, <1>b DEF FleetInv
    <2>2. Dated(j)'
        BY <1>0, <1>1, <1>12, <2>1, DatedSame
    <2>3. Stood(j)'
        BY <1>1, <2>1, StoodSame
    <2>4. Placed(j)'
        BY <1>1, <2>1, PlacedSame
    <2> QED BY <2>2, <2>3, <2>4
<1>14. (\A q \in Editors : forms[q].id # n) /\ looked[n] = "none"
    <2>1. n > Len(fleet)
        BY <1>0
    <2>2. \A q \in Editors : forms[q].id <= Len(fleet)
        BY <1>0 DEF FleetTyped
    <2>3. looked[n] # "none" => n <= Len(fleet)
        BY <1>0, <1>6 DEF FleetTyped
    <2> QED BY <1>0, <2>2, <2>3
<1>15. Dated(n)'
    BY <1>1, <1>3, <1>5, <1>14, <1>a, <1>b DEF Dated, FormDated, Near, Clear
<1>16. Stood(n)'
    BY <1>1, <1>3, <1>5, <1>14, <1>a, <1>b DEF Stood, FormStood, LookStood, Agrees
<1>17. Placed(n)'
    BY <1>1, <1>3, <1>5, <1>14, <1>a, <1>b DEF Placed, FormPlaced
<1> QED BY <1>6, <1>8, <1>10, <1>11, <1>13, <1>15, <1>16, <1>17 DEF FleetInv

(***************************************************************************)
(* The address goes to the new server, whosever it was, once its row is    *)
(* inserted; the two then agree.                                           *)
(***************************************************************************)
LEMMA AddressStep ==
    ASSUME FleetInv, NEW p \in Editors, E!Address(p)
    PROVE  FleetInv'
<1> PICK ip, n : ip = additions[p].ip /\ n = additions[p].id
    OBVIOUS
<1>0. FleetTyped /\ DOMAIN fleet \subseteq E!Ids /\ DOMAIN fleet = 1..Len(fleet) /\ Len(fleet) \in Nat
    BY FleetRows DEF FleetInv
<1>1. /\ UNCHANGED <<gone, fleet, agent, cache, forms, looked, count, word, behind, overdue, met, torn, edited>>
      /\ additions[p].step = "address" /\ owner' = IF n \in gone THEN owner ELSE [owner EXCEPT ![ip] = n]
      /\ additions' = [additions EXCEPT ![p] = E!NoAddition]
    BY DEF E!Address, E!Tied, E!ghosts
<1>2. ip \in Ips /\ n \in DOMAIN fleet /\ (n \notin gone => n \in E!Standing /\ (fleet[n].ip = ip \/ ip \in edited))
    BY <1>1 DEF FleetInv, AddressesRight, Added, E!Standing
<1>3. E!NoAddition \in Steps /\ E!NoAddition.step = "none"
    BY DEF E!NoAddition, Steps, Named
<1>4. /\ additions' \in [Editors -> Steps] /\ additions'[p].step = "none"
      /\ \A q \in Editors \ {p} : additions'[q] = additions[q]
    BY <1>0, <1>1, <1>3 DEF FleetTyped
<1>5. owner' \in [Ips -> Nat] /\ owner'[ip] = (IF n \in gone THEN owner[ip] ELSE n) /\ \A h \in Ips \ {ip} : owner'[h] = owner[h]
    BY <1>0, <1>1, <1>2 DEF FleetTyped
<1>6. FleetTyped'
    BY <1>0, <1>1, <1>4, <1>5 DEF FleetTyped
<1>7. AddressesRight'
    <2>0. E!Standing' = E!Standing
        BY <1>1 DEF E!Standing
    <2>1. ASSUME NEW q \in Editors PROVE Added(q)'
        BY <1>1, <1>4, <2>0 DEF FleetInv, AddressesRight, Added, Exempt, E!Unused
    <2>2. ASSUME NEW i \in E!Standing PROVE Owned(i)' /\ Alone(i)'
        <3>1. Owned(i) /\ Alone(i) /\ fleet[i].ip \in Ips
            BY <1>0, <2>2, FleetRows DEF FleetInv, AddressesRight, Rows, E!Standing
        <3>2. CASE fleet[i].ip = ip /\ n \notin gone
            BY <1>1, <1>2, <1>5, <2>0, <3>1, <3>2 DEF Owned, Alone, Exempt
        <3>3. CASE fleet[i].ip # ip \/ n \in gone
            <4>1. \A q \in Editors : additions[q].step = "address" /\ additions[q].ip = fleet[i].ip /\ additions[q].id \notin gone =>
                      additions'[q] = additions[q]
                BY <1>4, <3>3
            <4>2. owner'[fleet[i].ip] = owner[fleet[i].ip]
                BY <1>5, <3>1, <3>3
            <4> QED BY <1>1, <2>0, <3>1, <4>1, <4>2 DEF Owned, Alone, Exempt
        <3> QED BY <3>2, <3>3
    <2>3. \A h \in Ips : owner'[h] = 0 \/ owner'[h] \in E!Standing
        BY <1>2, <1>5 DEF FleetInv, AddressesRight
    <2> QED BY <2>0, <2>1, <2>2, <2>3 DEF AddressesRight
<1>8. TokensYoung' /\ Future'
    BY <1>1 DEF FleetInv, TokensYoung, Future
<1>9. count.loads \in Nat /\ count' = count /\ count'.loads \in Nat /\ count'.loads <= count.loads
    BY <1>0, <1>1 DEF FleetTyped, Purses
<1>10. ASSUME NEW j \in DOMAIN fleet PROVE Dated(j)' /\ Stood(j)' /\ Placed(j)'
    <2>1. Dated(j) /\ Stood(j) /\ Placed(j) /\ j \in E!Ids
        BY <1>0 DEF FleetInv
    <2>2. Dated(j)'
        BY <1>0, <1>1, <1>9, <2>1, DatedSame
    <2>3. Stood(j)'
        BY <1>1, <2>1, StoodSame
    <2>4. Placed(j)'
        BY <1>1, <2>1, PlacedSame
    <2> QED BY <2>2, <2>3, <2>4
<1> QED BY <1>1, <1>6, <1>7, <1>8, <1>10 DEF FleetInv

(***************************************************************************)
(* The tokens of a server that is active again are as young as they were.  *)
(***************************************************************************)
LEMMA RevivedTokens ==
    ASSUME cache \in SUBSET Tokens, \A e \in cache : e.age < TokenTTL /\ e.after <= e.age, NEW i
    PROVE  E!Revived(i) \in SUBSET Tokens /\ \A e \in E!Revived(i) : e.age < TokenTTL /\ e.after <= e.age
<1> SUFFICES ASSUME NEW e \in cache
             PROVE  LET t == IF e.id = i /\ e.token = fleet[i].token THEN [e EXCEPT !.after = 0 - 1] ELSE e
                    IN  t \in Tokens /\ t.age < TokenTTL /\ t.after <= t.age
    BY DEF E!Revived
<1>1. e \in Tokens /\ e.age < TokenTTL /\ e.after <= e.age
    OBVIOUS
<1>2. [e EXCEPT !.after = 0 - 1] \in Tokens /\ [e EXCEPT !.after = 0 - 1].age = e.age /\ [e EXCEPT !.after = 0 - 1].after = 0 - 1
    BY <1>1 DEF Tokens
<1>3. e.age \in Nat
    BY <1>1 DEF Tokens
<1> QED BY <1>1, <1>2, <1>3

(***************************************************************************)
(* The mark of an active server alone: one that is active again is         *)
(* archived no more, and its status is still unknown.                      *)
(***************************************************************************)
LEMMA SetActiveStep ==
    ASSUME FleetInv, NEW i \in DOMAIN fleet, NEW active \in BOOLEAN, E!SetActive(i, active)
    PROVE  FleetInv'
<1> DEFINE r == [fleet[i] EXCEPT !.active = active]
           st == IF active /\ word[i].status = "archived" THEN "watched" ELSE word[i].status
           w == [word[i] EXCEPT !.status = st]
<1>0. FleetTyped /\ i \in E!Ids /\ DOMAIN fleet \subseteq E!Ids /\ fleet[i] \in Rows
    BY FleetRows DEF FleetInv
<1>1. /\ UNCHANGED <<gone, owner, agent, forms, additions, looked, behind, overdue, met, torn, edited>>
      /\ E!Counted("acts")
      /\ fleet' = [fleet EXCEPT ![i] = r] /\ word' = [word EXCEPT ![i] = w]
      /\ cache' = IF active THEN E!Revived(i) ELSE E!Ended(i)
    BY DEF E!SetActive, E!ghosts, E!Live
<1>2. r \in Rows /\ r.ip = fleet[i].ip /\ r.renews = fleet[i].renews /\ r.status = fleet[i].status /\ r.active = active
    BY <1>0 DEF Rows
<1>3. /\ w \in Words /\ w.ip = word[i].ip /\ w.date = word[i].date /\ w.loads = word[i].loads /\ w.lost = word[i].lost
      /\ (w.status = "maintenance") = (word[i].status = "maintenance")
      /\ w.status = "archived" => word[i].status = "archived" /\ ~active
    <2>1. word[i] \in Words
        BY <1>0, WordIs
    <2> QED BY <2>1 DEF Words
<1> HIDE DEF r, w
<1>4. /\ fleet' \in Seq(Rows) /\ Len(fleet') = Len(fleet) /\ DOMAIN fleet' = DOMAIN fleet
      /\ fleet'[i] = r /\ \A j \in DOMAIN fleet : j # i => fleet'[j] = fleet[j]
    BY <1>0, <1>1, <1>2, RowWritten DEF RowPut
<1>5. word' \in [E!Ids -> Words] /\ word'[i] = w /\ \A j \in E!Ids : j # i => word'[j] = word[j]
    BY <1>0, <1>1, <1>3 DEF FleetTyped
<1>6. count' \in Purses /\ count'.loads <= count.loads /\ Future' /\ count'.loads \in Nat
    <2>1. "acts" \in DOMAIN count
        BY <1>0 DEF FleetTyped, Purses
    <2> QED BY <1>0, <1>1, <2>1, Spent DEF FleetInv, Purses
<1>7. cache' \in SUBSET Tokens /\ \A e \in cache' : e.age < TokenTTL /\ e.after <= e.age
    BY <1>0, <1>1, EndedTokens, RevivedTokens DEF FleetInv, FleetTyped, TokensYoung
<1>8. FleetTyped'
    BY <1>0, <1>1, <1>4, <1>5, <1>6, <1>7 DEF FleetTyped
<1>9. AddressesRight' /\ TokensYoung'
    <2>1. \A j \in DOMAIN fleet : fleet'[j].ip = fleet[j].ip
        BY <1>2, <1>4
    <2> QED BY <1>0, <1>1, <1>4, <1>7, <2>1, AddressesSame DEF FleetInv, TokensYoung
<1>10. ASSUME NEW j \in DOMAIN fleet PROVE Dated(j)' /\ Placed(j)'
    <2>1. /\ Dated(j) /\ Placed(j) /\ j \in E!Ids /\ fleet'[j].renews = fleet[j].renews /\ fleet'[j].ip = fleet[j].ip
          /\ word'[j].date = word[j].date /\ word'[j].loads = word[j].loads
          /\ word'[j].ip = word[j].ip /\ word'[j].lost = word[j].lost
        BY <1>0, <1>2, <1>3, <1>4, <1>5 DEF FleetInv
    <2>2. Dated(j)'
        BY <1>0, <1>1, <1>6, <2>1, DatedSame
    <2>3. Placed(j)'
        BY <1>1, <2>1, PlacedSame
    <2> QED BY <2>2, <2>3
<1>11. ASSUME NEW j \in DOMAIN fleet, j # i PROVE Stood(j)'
    <2>1. Stood(j) /\ j \in E!Ids /\ fleet'[j] = fleet[j] /\ word'[j] = word[j]
        BY <1>0, <1>4, <1>5, <1>11 DEF FleetInv
    <2> QED BY <1>1, <2>1, StoodSame
<1>12. Stood(i)'
    <2>1. Stood(i)
        BY DEF FleetInv
    <2>2. LookStood(i)'
        BY <1>1, <1>3, <1>5, <2>1 DEF Stood, LookStood, Agrees
    <2>3. \A q \in Editors : FormStood(q, i)'
        BY <1>1, <1>3, <1>5, <2>1 DEF Stood, FormStood, Agrees
    <2> QED BY <1>2, <1>3, <1>4, <1>5, <2>1, <2>2, <2>3 DEF Stood, Agrees
<1> QED BY <1>4, <1>6, <1>8, <1>9, <1>10, <1>11, <1>12 DEF FleetInv

(***************************************************************************)
(* A server removed for good leaves its addresses to nobody; a server that *)
(* had one of them too has an address that was edited.                     *)
(***************************************************************************)
LEMMA RemoveStep ==
    ASSUME FleetInv, NEW i \in DOMAIN fleet, E!Remove(i)
    PROVE  FleetInv'
<1>0. FleetTyped /\ DOMAIN fleet \subseteq E!Ids
    BY FleetRows DEF FleetInv
<1>1. /\ UNCHANGED <<fleet, agent, cache, forms, additions, looked, word, behind, overdue, met, torn>>
      /\ E!Counted("acts") /\ i \in E!Standing /\ gone' = gone \cup {i}
      /\ owner' = [ip \in Ips |-> IF owner[ip] = i THEN 0 ELSE owner[ip]]
      /\ edited' = edited \cup {ip \in Ips : ip = fleet[i].ip /\ \E j \in E!Standing \ {i} : fleet[j].ip = ip}
    BY DEF E!Remove
<1>2. count' \in Purses /\ count'.loads <= count.loads /\ Future' /\ count'.loads \in Nat
    <2>1. "acts" \in DOMAIN count
        BY <1>0 DEF FleetTyped, Purses
    <2> QED BY <1>0, <1>1, <2>1, Spent DEF FleetInv, Purses
<1>3. FleetTyped'
    <2>1. owner' \in [Ips -> Nat] /\ gone' \subseteq DOMAIN fleet
        BY <1>0, <1>1 DEF FleetTyped
    <2> QED BY <1>0, <1>1, <1>2, <2>1 DEF FleetTyped
<1>4. /\ E!Standing' = E!Standing \ {i} /\ E!Standing \subseteq DOMAIN fleet /\ edited \subseteq edited'
      /\ \A j \in DOMAIN fleet : fleet[j].ip \in Ips
      /\ \A j \in E!Standing \ {i} : fleet[j].ip = fleet[i].ip => fleet[j].ip \in edited'
    <2>1. \A j \in DOMAIN fleet : fleet[j].ip \in Ips
        BY <1>0, FleetRows DEF Rows
    <2> QED BY <1>1, <2>1 DEF E!Standing
<1>5. AddressesRight'
    <2>1. ASSUME NEW q \in Editors PROVE Added(q)'
        <3>1. Added(q)
            BY DEF FleetInv, AddressesRight
        <3>2. E!Unused(additions[q].ip) => E!Unused(additions[q].ip)'
            BY <1>1, <1>4 DEF E!Unused
        <3> QED BY <1>1, <1>4, <3>1, <3>2 DEF Added, Exempt
    <2>2. ASSUME NEW j \in E!Standing \ {i} PROVE Owned(j)' /\ Alone(j)'
        <3>1. Owned(j) /\ Alone(j) /\ fleet[j].ip \in Ips
            BY <1>4, <2>2 DEF FleetInv, AddressesRight
        <3>2. CASE fleet[j].ip \in edited'
            BY <1>1, <3>2 DEF Owned, Alone, Exempt
        <3>3. CASE fleet[j].ip \notin edited'
            <4>1. fleet[j].ip \notin edited /\ fleet[i].ip # fleet[j].ip
                BY <1>4, <3>3
            <4>2. \A q \in Editors : additions[q].step = "address" /\ additions[q].ip = fleet[j].ip /\ additions[q].id \notin gone =>
                      additions[q].id # i
                BY <4>1 DEF FleetInv, AddressesRight, Added
            <4>3. owner[fleet[j].ip] \in E!Standing /\ fleet[owner[fleet[j].ip]].ip = fleet[j].ip =>
                      owner'[fleet[j].ip] = owner[fleet[j].ip] /\ owner[fleet[j].ip] # i
                BY <1>1, <3>1, <4>1
            <4>4. Owned(j)'
                BY <1>1, <1>4, <3>1, <4>2, <4>3 DEF Owned
            <4>5. Alone(j)'
                BY <1>1, <1>4, <3>1 DEF Alone, Exempt
            <4> QED BY <4>4, <4>5
        <3> QED BY <3>2, <3>3
    <2>3. \A h \in Ips : owner'[h] = 0 \/ owner'[h] \in E!Standing'
        BY <1>1, <1>4 DEF FleetInv, AddressesRight
    <2> QED BY <1>4, <2>1, <2>2, <2>3 DEF AddressesRight
<1>6. TokensYoung'
    BY <1>1 DEF FleetInv, TokensYoung
<1>7. ASSUME NEW j \in DOMAIN fleet PROVE Dated(j)' /\ Stood(j)' /\ Placed(j)'
    BY <1>0, <1>1, <1>2, DatedSame, StoodSame, PlacedSame DEF FleetInv
<1> QED BY <1>1, <1>2, <1>3, <1>5, <1>6, <1>7 DEF FleetInv

(***************************************************************************)
(* The page of the addresses gives an address to a server that is there,   *)
(* or to none.                                                             *)
(***************************************************************************)
LEMMA MoveStep ==
    ASSUME FleetInv, NEW ip \in Ips, E!Move(ip)
    PROVE  FleetInv'
<1>0. FleetTyped /\ DOMAIN fleet \subseteq E!Ids
    BY FleetRows DEF FleetInv
<1>1. PICK id \in E!Standing \cup {0} : owner' = [owner EXCEPT ![ip] = id]
    BY DEF E!Move
<1>2. /\ UNCHANGED <<gone, fleet, agent, cache, forms, additions, looked, word, behind, overdue, met, torn>>
      /\ E!Counted("moves") /\ edited' = edited \cup {ip}
    BY DEF E!Move
<1>3. count' \in Purses /\ count'.loads <= count.loads /\ Future' /\ count'.loads \in Nat
    <2>1. "moves" \in DOMAIN count
        BY <1>0 DEF FleetTyped, Purses
    <2> QED BY <1>0, <1>2, <2>1, Spent DEF FleetInv, Purses
<1>4. /\ E!Standing' = E!Standing /\ E!Standing \subseteq DOMAIN fleet /\ id \in Nat
      /\ owner' \in [Ips -> Nat] /\ owner'[ip] = id /\ \A h \in Ips \ {ip} : owner'[h] = owner[h]
    <2>1. id \in Nat
        BY <1>0, FleetRows DEF E!Standing
    <2> QED BY <1>0, <1>1, <1>2, <2>1 DEF E!Standing, FleetTyped
<1>5. FleetTyped'
    BY <1>0, <1>2, <1>3, <1>4 DEF FleetTyped
<1>6. AddressesRight'
    <2>1. ASSUME NEW q \in Editors PROVE Added(q)'
        BY <1>2, <1>4 DEF FleetInv, AddressesRight, Added, Exempt, E!Unused
    <2>2. ASSUME NEW j \in E!Standing PROVE Owned(j)' /\ Alone(j)'
        <3>1. Owned(j) /\ Alone(j) /\ fleet[j].ip \in Ips
            BY <1>0, <1>4, <2>2, FleetRows DEF FleetInv, AddressesRight, Rows
        <3>2. Alone(j)'
            BY <1>2, <1>4, <3>1 DEF Alone, Exempt
        <3>3. CASE fleet[j].ip = ip
            BY <1>2, <3>2, <3>3 DEF Owned
        <3>4. CASE fleet[j].ip # ip
            <4>1. owner'[fleet[j].ip] = owner[fleet[j].ip]
                BY <1>4, <3>1, <3>4
            <4> QED BY <1>2, <1>4, <3>1, <3>2, <4>1 DEF Owned
        <3> QED BY <3>3, <3>4
    <2>3. \A h \in Ips : owner'[h] = 0 \/ owner'[h] \in E!Standing
        BY <1>4 DEF FleetInv, AddressesRight
    <2> QED BY <1>4, <2>1, <2>2, <2>3 DEF AddressesRight
<1>7. TokensYoung'
    BY <1>2 DEF FleetInv, TokensYoung
<1>8. ASSUME NEW j \in DOMAIN fleet PROVE Dated(j)' /\ Stood(j)' /\ Placed(j)'
    BY <1>0, <1>2, <1>3, DatedSame, StoodSame, PlacedSame DEF FleetInv
<1> QED BY <1>2, <1>3, <1>5, <1>6, <1>7, <1>8 DEF FleetInv

(***************************************************************************)
(* For every number of admins, addresses, servers and events: the date     *)
(* last typed, moved by every payment since, stays in the row, less at     *)
(* most a day for each form loaded, unless a form older than it was saved; *)
(* the main address last typed and a maintenance or an archiving too,      *)
(* unless an older form, check or memory wrote over them; an address       *)
(* belongs to its server, and two servers share one only if their          *)
(* additions crossed, but for an address that a save took or gave or that  *)
(* the page of the addresses moved; and a token is taken for less than the *)
(* lifetime of the memory after its end (PATCH, DELETE and POST of the     *)
(* servers' routes, the extension by payment, the agent's route, the       *)
(* worker's check and the route of an address).                            *)
(***************************************************************************)
THEOREM ServersHoldAlways == Spec => []ServersHold
<1>1. Init => FleetInv
    <2> SUFFICES ASSUME E!Init PROVE FleetInv
        BY DEF Init
    <2>p. PICK ip \in Ips, date \in Dates, c \in {0, 1} :
             /\ fleet = <<[E!Fresh(ip) EXCEPT !.renews = date, !.status = "up", !.customer = c]>>
             /\ owner \in {[j \in Ips |-> IF j = ip THEN 1 ELSE 0], [j \in Ips |-> 1]}
        BY Zenon DEF E!Init
    <2> DEFINE r == [E!Fresh(ip) EXCEPT !.renews = date, !.status = "up", !.customer = c]
    <2>0. NoDate \in Int /\ Today \in Nat /\ date \in Int /\ TokenTTL > 0 /\ TokenTTL \in Nat
        BY FleetConstants
    <2>1. r \in Rows /\ r.ip = ip /\ r.renews = date /\ r.status = "up" /\ r.active = TRUE
        BY <2>0 DEF E!Fresh, Rows, Statuses
    <2> HIDE DEF r
    <2>2. fleet = <<r>> /\ fleet \in Seq(Rows) /\ Len(fleet) = 1 /\ DOMAIN fleet = {1} /\ fleet[1] = r
        BY <2>1, <2>p DEF r
    <2>3. 1 \in 1..MaxServers /\ E!Ids = 1..MaxServers /\ 1 \in E!Ids
        BY OfficeAssumption DEF OfficeAssumption, E!FleetAssumption, E!Ids
    <2>4. count \in Purses /\ Future /\ count.loads \in Nat
        <3>1. count \in Budgets
            BY DEF E!Init
        <3>2. count \in Purses /\ \A q \in Dates \cup {Today} : q - count.loads > NoDate
            BY <3>1, OfficeAssumption DEF OfficeAssumption, E!FleetAssumption, Purses
        <3>3. count.loads \in Nat
            BY <3>2 DEF Purses
        <3> QED BY <2>0, <3>2, <3>3, FleetConstants DEF Future
    <2>5. /\ forms = [p \in Editors |-> E!NoForm] /\ E!NoForm \in Forms /\ E!NoForm.id = 0
          /\ additions = [p \in Editors |-> E!NoAddition] /\ E!NoAddition \in Steps /\ E!NoAddition.step = "none"
        BY <2>0 DEF E!Init, E!NoForm, E!NoAddition, Forms, Steps, Named, Statuses
    <2>6. /\ word[1] = [ip |-> ip, date |-> date, loads |-> 0, status |-> "watched", lost |-> {}] /\ DOMAIN word = E!Ids
          /\ \A i \in E!Ids \ {1} : word[i] = [ip |-> "none", date |-> NoDate, loads |-> 0, status |-> "watched", lost |-> {}]
        <3>1. word = [i \in E!Ids |-> IF i = 1 THEN E!Word(fleet[1]) ELSE E!Word(E!Fresh("none"))]
            BY DEF E!Init
        <3>2. E!Word(fleet[1]) = [ip |-> ip, date |-> date, loads |-> 0, status |-> "watched", lost |-> {}]
            BY <2>1, <2>2 DEF E!Word, E!Live
        <3>3. E!Word(E!Fresh("none")) = [ip |-> "none", date |-> NoDate, loads |-> 0, status |-> "watched", lost |-> {}]
            BY DEF E!Word, E!Live, E!Fresh
        <3> QED BY <2>3, <3>1, <3>2, <3>3
    <2>7. word \in [E!Ids -> Words]
        <3>1. \A i \in E!Ids : word[i] \in Words
            BY <2>0, <2>6 DEF Words, Named
        <3>2. word = [i \in E!Ids |-> word[i]]
            BY DEF E!Init
        <3> QED BY <3>1, <3>2
    <2>8. FleetTyped
        <3>1. gone = {} /\ owner \in [Ips -> Nat] /\ agent \in [E!Ids -> Nat] /\ cache \in SUBSET Tokens
            BY <2>p DEF E!Init
        <3>2. looked \in [E!Ids -> Statuses \cup {"none"}] /\ \A i \in E!Ids : looked[i] = "none"
            BY DEF E!Init
        <3>3. behind \in [E!Copies -> SUBSET (E!Ids \X News)]
            BY DEF E!Init
        <3> QED BY <2>2, <2>3, <2>4, <2>5, <2>6, <2>7, <3>1, <3>2, <3>3 DEF FleetTyped
    <2>9. AddressesRight
        <3>1. E!Standing = {1}
            BY <2>2 DEF E!Init, E!Standing
        <3>2. (\A j \in Ips : owner[j] \in {0, 1}) /\ owner[ip] = 1
            BY <2>p
        <3>3. Owned(1) /\ Alone(1)
            BY <2>1, <2>2, <3>1, <3>2 DEF Owned, Alone
        <3> QED BY <2>5, <3>1, <3>2, <3>3 DEF AddressesRight, Added
    <2>10. TokensYoung
        BY <2>0 DEF E!Init, TokensYoung
    <2>11. \A p \in Editors : forms[p].id = 0
        BY <2>5
    <2>12. Dated(1)
        BY <2>1, <2>2, <2>4, <2>6, <2>11 DEF Dated, FormDated, Near, Clear, Future
    <2>13. Stood(1)
        <3>1. \A i \in E!Ids : looked[i] = "none"
            BY DEF E!Init
        <3> QED BY <2>1, <2>2, <2>3, <2>6, <2>11, <3>1 DEF Stood, FormStood, LookStood, Agrees
    <2>14. Placed(1)
        BY <2>1, <2>2, <2>6, <2>11 DEF Placed, FormPlaced
    <2> QED BY <2>2, <2>4, <2>8, <2>9, <2>10, <2>12, <2>13, <2>14 DEF FleetInv
<1>2. FleetInv /\ [Next]_vars => FleetInv'
    <2> SUFFICES ASSUME FleetInv, [Next]_vars PROVE FleetInv'
        OBVIOUS
    <2>1. CASE UNCHANGED evars
        <3>1. FleetTyped /\ DOMAIN fleet \subseteq E!Ids
            BY FleetRows DEF FleetInv
        <3>2. FleetTyped' /\ AddressesRight' /\ TokensYoung' /\ Future'
            BY <2>1, <3>1, AddressesSame DEF FleetInv, evars, FleetTyped, TokensYoung, Future
        <3>3. count.loads \in Nat /\ count' = count /\ count'.loads \in Nat /\ count'.loads <= count.loads
            BY <2>1, <3>1 DEF FleetTyped, Purses, evars
        <3>4. ASSUME NEW j \in DOMAIN fleet PROVE Dated(j)' /\ Stood(j)' /\ Placed(j)'
            <4>1. Dated(j) /\ Stood(j) /\ Placed(j) /\ j \in E!Ids
                BY <3>1 DEF FleetInv
            <4>2. Dated(j)'
                BY <2>1, <3>1, <3>3, <4>1, DatedSame DEF evars
            <4>3. Stood(j)'
                BY <2>1, <4>1, StoodSame DEF evars
            <4>4. Placed(j)'
                BY <2>1, <4>1, PlacedSame DEF evars
            <4> QED BY <4>2, <4>3, <4>4
        <3> QED BY <2>1, <3>2, <3>4 DEF FleetInv, evars
    <2>2. CASE E!Next
        <3>1. CASE \E p \in Editors : (\E i \in DOMAIN fleet : E!Load(p, i)) \/ E!Save(p) \/ E!Archive(p) \/ E!RotateToken(p)
                                      \/ E!Add(p) \/ E!Insert(p) \/ E!Address(p)
            BY <3>1, LoadStep, SaveStep, ArchiveStep, RotateStep, AddStep, InsertStep, AddressStep
        <3>2. CASE \E i \in DOMAIN fleet : E!Pay(i) \/ E!Install(i) \/ E!Report(i)
                                      \/ \E found \in {"up", "down"} : E!Verdict(i, found)
            BY <3>2, PayStep, InstallStep, ReportStep, VerdictStep
        <3>3. CASE \E i \in DOMAIN fleet : E!Remove(i) \/ \E active \in BOOLEAN : E!SetActive(i, active)
            BY <3>3, RemoveStep, SetActiveStep
        <3> QED BY <2>2, <3>1, <3>2, <3>3, LookStep, MoveStep, TickStep, RestartStep DEF E!Next
    <2> QED BY <2>1, <2>2 DEF Next, vars, desk, talk, OnlyMessages, OnlyMail, OnlyAnchor, OnlyBilling, OnlyCalendar, OnlyDiff,
        OnlyTickets, OnlySignIn, OnlyLimiter, OnlyAnnouncements, OnlySettings, OnlyBackfill, OnlyFleet
<1>3. FleetInv => ServersHold
    <2> SUFFICES ASSUME FleetInv, NEW i \in E!Standing PROVE E!DateKept(i) /\ E!StatusKept(i) /\ E!AddressKept(i)
        BY DEF ServersHold, E!ServersHold, FleetInv, TokensYoung
    <2>1. Dated(i) /\ Stood(i) /\ Placed(i) /\ Owned(i) /\ Alone(i)
        BY DEF FleetInv, AddressesRight, E!Standing
    <2>2. E!DateKept(i) /\ E!StatusKept(i)
        BY <2>1 DEF Dated, Stood, Near, Agrees, E!DateKept, E!StatusKept
    <2>3. E!AddressKept(i)
        BY <2>1 DEF Placed, Owned, Alone, Exempt, E!AddressKept
    <2> QED BY <2>2, <2>3
<1> QED BY <1>1, <1>2, <1>3, PTL DEF Spec

-----------------------------------------------------------------------------
(* Signing in: codes, passwords, forms, sessions; and the limit of requests.*)

(***************************************************************************)
(* The stages of a request between its queries, and the rows, forms,       *)
(* requests, accounts and sessions of signing in.                          *)
(***************************************************************************)
Stages == {"none", "recent", "replace", "insert", "sms", "read", "count", "user", "consume", "burn", "session",
           "compare", "current", "write"}
Codes == [made : Int, attempts : Nat, consumed : BOOLEAN, crossed : BOOLEAN]
Phrases == Passwords \cup {""}
Requests == [pc : Stages, row : Nat, attempts : Nat, typed : Nat, word : Phrases, read : Phrases, new : Phrases,
             seen : Nat, spent : BOOLEAN]
Askers == [sent : BOOLEAN, left : Nat, known : Nat, refused : BOOLEAN]
Seats == {G!SignedOut, G!Token(account.role)}

Accounts == [active : BOOLEAN, role : {"customer", "admin"}, word : Passwords, writes : Nat]

(***************************************************************************)
(* The variables in their sets; only with passwords does a request compare *)
(* one, and one that will write has the new one.                           *)
(***************************************************************************)
SignInTyped ==
    /\ way \in {"code", "password"} /\ next \in G!Middleware /\ now \in Nat
    /\ account \in [active : BOOLEAN, role : {"customer", "admin"}, word : Passwords, writes : Nat]
    /\ codes \in Seq(Codes) /\ Len(codes) > 0
    /\ sform \in [Browsers -> Askers] /\ sreq \in [Browsers -> Requests]
    /\ opensession \in [Browsers -> Seats]
    /\ \A q \in Browsers :
          /\ sreq[q].pc \in {"compare", "current", "write"} => way = "password"
          /\ sreq[q].pc \in {"current", "write"} => sreq[q].new \in Passwords

(***************************************************************************)
(* A code that has opened a session is used up; no request goes on with a  *)
(* code that had opened one when it was read.                              *)
(***************************************************************************)
UsedInv ==
    /\ \A i \in opened : i \in DOMAIN codes /\ codes[i].consumed
    /\ \A q \in Browsers :
          /\ ~sreq[q].spent
          /\ sreq[q].pc \in {"count", "user", "consume", "burn"} => sreq[q].row \in DOMAIN codes
          /\ sreq[q].pc = "session" /\ way = "code" => sreq[q].row \in DOMAIN codes /\ codes[sreq[q].row].consumed

(***************************************************************************)
(* The codes are in the order they were made, none of them in the future.  *)
(***************************************************************************)
InTime == \A i \in DOMAIN codes : codes[i].made <= now /\ \A j \in DOMAIN codes : i <= j => codes[i].made <= codes[j].made

(***************************************************************************)
(* The inductive form of CodesApart: while no code is made, a request      *)
(* between its reading and its row knows that the cooldown is over and the *)
(* hour not full, and after the voiding that no code is alive.             *)
(***************************************************************************)
ApartInv ==
    /\ InTime /\ G!CodesApart
    /\ \A q \in Browsers : sreq[q].pc \in {"replace", "insert"} =>
          /\ sreq[q].seen <= Len(codes)
          /\ sreq[q].seen = Len(codes) =>
                /\ now - G!LastAt >= RESEND_COOLDOWN /\ Cardinality(G!InHour) < MAX_PER_HOUR
                /\ sreq[q].pc = "insert" => \A i \in DOMAIN codes : codes[i].consumed

(***************************************************************************)
(* The browsers that have read row i and are about to count an attempt on  *)
(* it: the attempts counted and those about to be stay below the bound.    *)
(***************************************************************************)
Counting(i) == {q \in Browsers : sreq[q].pc = "count" /\ sreq[q].row = i}
AttemptsInv == \A i \in DOMAIN codes : codes[i].attempts + Cardinality(Counting(i)) < MAX_ATTEMPTS + Cardinality(Browsers)

(***************************************************************************)
(* The inductive form of WaitsEnough: a form that knows of the last code   *)
(* counts down at least what is left of its cooldown.                      *)
(***************************************************************************)
WaitsInv ==
    \A q \in Browsers :
        /\ ~sform[q].refused /\ sform[q].known <= Len(codes)
        /\ sform[q].sent /\ sform[q].known = Len(codes) => sform[q].left + now - G!LastAt >= RESEND_COOLDOWN
        /\ sreq[q].pc = "recent" => sform[q].left = 0

(***************************************************************************)
(* The inductive form of AsRead: a request that read the account as it     *)
(* still is knows whether it is active and what the password is.           *)
(***************************************************************************)
ReadInv ==
    \A q \in Browsers :
        /\ sreq[q].pc \in {"read", "count", "user", "consume", "burn"} => way = "code"
        /\ sreq[q].pc \in {"consume", "session", "compare", "current", "write"} => sreq[q].seen <= account.writes
        /\ sreq[q].seen = account.writes =>
              /\ sreq[q].pc \in {"consume", "session", "compare"} => account.active
              /\ sreq[q].pc \in {"compare", "current"} => sreq[q].read = account.word
              /\ sreq[q].pc = "write" \/ (sreq[q].pc = "session" /\ way = "password") => sreq[q].word = account.word

(***************************************************************************)
(* The inductive form of SignInHolds.                                      *)
(***************************************************************************)
SignInInv == SignInTyped /\ UsedInv /\ ApartInv /\ AttemptsInv /\ WaitsInv /\ ReadInv

(***************************************************************************)
(* The instance of SignIn counts as FiniteSets does.                       *)
(***************************************************************************)
LEMMA SameSize ==
    /\ \A set : G!IsFiniteSet(set) <=> IsFiniteSet(set)
    /\ \A set : G!Cardinality(set) = Cardinality(set)
<1>1. \A set : G!IsFiniteSet(set) <=> IsFiniteSet(set)
    BY DEF IsFiniteSet, G!IsFiniteSet
<1>2. \A set : G!Cardinality(set) = Cardinality(set)
    BY DEF Cardinality, G!Cardinality, IsFiniteSet, G!IsFiniteSet
<1> QED BY <1>1, <1>2

(***************************************************************************)
(* What the assumption on the constants says of the periods, the limits,   *)
(* the browsers and the passwords.                                         *)
(***************************************************************************)
LEMMA SignInConstants ==
    /\ RESEND_COOLDOWN \in Nat /\ CodeTTL \in Nat /\ Hour \in Nat /\ MAX_ATTEMPTS \in Nat /\ MAX_PER_HOUR \in Nat
    /\ RESEND_COOLDOWN > 0 /\ Hour > 0 /\ MAX_ATTEMPTS > 0 /\ MAX_PER_HOUR > 0
    /\ IsFiniteSet(Browsers) /\ G!First \in Passwords /\ Cardinality(Browsers) \in Nat
    /\ Cardinality(Browsers) > 0
<1>1. G!SignInAssumption
    BY OfficeAssumption DEF OfficeAssumption
<1>2. {RESEND_COOLDOWN, CodeTTL, Hour, MAX_ATTEMPTS, MAX_PER_HOUR} \subseteq Nat \ {0}
    BY <1>1 DEF G!SignInAssumption
<1>3. IsFiniteSet(Browsers) /\ Browsers # {} /\ Passwords # {}
    BY <1>1, SameSize DEF G!SignInAssumption
<1>4. Cardinality(Browsers) \in Nat /\ Cardinality(Browsers) > 0
    BY <1>3, FS_CardinalityType, FS_EmptySet
<1> QED BY <1>2, <1>3, <1>4 DEF G!First

(***************************************************************************)
(* A request of one browser that moves on, and the others that stay.       *)
(***************************************************************************)
Asks(q, r) ==
    /\ r \in Requests /\ sreq' = [sreq EXCEPT ![q] = r]
    /\ UNCHANGED <<way, next>>
    /\ r.pc \in {"compare", "current", "write"} => way = "password"
    /\ r.pc \in {"current", "write"} => r.new \in Passwords

(***************************************************************************)
(* A request that moves on in one browser leaves those of the others, and  *)
(* stays a request of the way the browsers use.                            *)
(***************************************************************************)
LEMMA RequestMoved ==
    ASSUME SignInTyped, NEW q \in Browsers, NEW r, Asks(q, r)
    PROVE  /\ sreq' \in [Browsers -> Requests] /\ sreq'[q] = r /\ \A p \in Browsers \ {q} : sreq'[p] = sreq[p]
           /\ \A p \in Browsers :
                 /\ sreq'[p].pc \in {"compare", "current", "write"} => way' = "password"
                 /\ sreq'[p].pc \in {"current", "write"} => sreq'[p].new \in Passwords
<1>1. sreq \in [Browsers -> Requests]
    BY DEF SignInTyped
<1>2. /\ sreq' \in [Browsers -> Requests] /\ sreq'[q] = r /\ \A p \in Browsers \ {q} : sreq'[p] = sreq[p]
    <2> HIDE DEF Requests
    <2> QED BY <1>1 DEF Asks
<1> QED BY <1>2 DEF Asks, SignInTyped

(***************************************************************************)
(* A request that is answered is none any more.                            *)
(***************************************************************************)
LEMMA Answers ==
    ASSUME NEW q, G!Answer(q), UNCHANGED <<way, next>>
    PROVE  Asks(q, G!NoRequest)
<1>1. G!NoRequest \in Requests /\ G!NoRequest.pc = "none"
    BY DEF G!NoRequest, Requests, Stages, Phrases
<1> QED BY <1>1 DEF G!Answer, Asks

(***************************************************************************)
(* The request of a browser as each query sends it on.                     *)
(***************************************************************************)
Onward(q, stage) == [sreq[q] EXCEPT !.pc = stage]
Replacing(q) == [sreq[q] EXCEPT !.pc = "replace", !.seen = Len(codes)]
Sending(q) == [sreq[q] EXCEPT !.pc = "sms", !.row = Len(codes) + 1]
Typing(q, c) == [sreq[q] EXCEPT !.pc = "read", !.typed = c]
Reading(q) == [sreq[q] EXCEPT !.pc = "count", !.row = Len(codes), !.spent = Len(codes) \in opened]
Finding(q) == [sreq[q] EXCEPT !.pc = IF account.active THEN "consume" ELSE "burn", !.seen = account.writes]
Comparing(q, w) == [sreq[q] EXCEPT !.pc = "compare", !.word = w, !.read = account.word, !.seen = account.writes]
Changing(q, w, fresh) ==
    [sreq[q] EXCEPT !.pc = "current", !.word = w, !.new = fresh, !.read = account.word, !.seen = account.writes]

(***************************************************************************)
(* Where each query of lib/otp.ts and of the routes for passwords sends    *)
(* the request of its browser: to the next query with what was read, or to *)
(* its answer.                                                             *)
(***************************************************************************)
LEMMA EveryMove ==
    ASSUME SignInTyped, NEW q \in Browsers
    PROVE  /\ G!Request(q) => Asks(q, Onward(q, "recent"))
           /\ G!Recent(q) => Asks(q, G!NoRequest) \/ Asks(q, Replacing(q))
           /\ G!Replace(q) => Asks(q, Onward(q, "insert"))
           /\ G!Insert(q) => Asks(q, Sending(q))
           /\ G!ReadRow(q) => Asks(q, G!NoRequest) \/ Asks(q, Reading(q))
           /\ G!Count(q) => Asks(q, G!NoRequest) \/ Asks(q, Onward(q, "user"))
           /\ G!FindUser(q) => Asks(q, Finding(q))
           /\ G!Consume(q) => Asks(q, G!NoRequest) \/ Asks(q, Onward(q, "session"))
           /\ G!CheckLogin(q) => Asks(q, G!NoRequest) \/ Asks(q, Onward(q, "session"))
           /\ G!CheckCurrent(q) => Asks(q, G!NoRequest) \/ Asks(q, Onward(q, "write"))
           /\ G!SendSms(q) \/ G!WritePassword(q) \/ G!StartSession(q) => Asks(q, G!NoRequest)
           /\ G!Verify(q) => \E c \in Nat : Asks(q, Typing(q, c))
           /\ G!Login(q) => \E w \in Passwords : Asks(q, Comparing(q, w))
           /\ G!ChangePassword(q) => \E w, fresh \in Passwords : Asks(q, Changing(q, w, fresh))
<1> USE DEF Onward, Replacing, Sending, Typing, Reading, Finding, Comparing, Changing
<1>1. /\ sreq[q] \in Requests /\ Len(codes) \in Nat /\ account.word \in Passwords /\ account.writes \in Nat
      /\ sreq[q].pc = "current" => way = "password" /\ sreq[q].new \in Passwords
          /\ sreq \in [Browsers -> Requests]
    BY DEF SignInTyped
<1>2. ASSUME G!Request(q) PROVE Asks(q, Onward(q, "recent"))
    <2>1. Onward(q, "recent") \in Requests
        BY <1>1 DEF Requests, Stages
    <2> QED BY <1>1, <1>2, <2>1, Answers DEF G!Request, Asks, Requests
<1>3. ASSUME G!Recent(q) PROVE Asks(q, G!NoRequest) \/ Asks(q, Replacing(q))
    <2>1. Replacing(q) \in Requests
        BY <1>1 DEF Requests, Stages
    <2> QED BY <1>1, <1>3, <2>1, Answers DEF G!Recent, Asks, Requests
<1>4. ASSUME G!Replace(q) PROVE Asks(q, Onward(q, "insert"))
    <2>1. Onward(q, "insert") \in Requests
        BY <1>1 DEF Requests, Stages
    <2> QED BY <1>1, <1>4, <2>1, Answers DEF G!Replace, Asks, Requests
<1>5. ASSUME G!Insert(q) PROVE Asks(q, Sending(q))
    <2>0. PICK n \in Nat : n = Len(codes) + 1
        BY <1>1
    <2>1. [sreq[q] EXCEPT !.pc = "sms", !.row = n] \in Requests
        BY <1>1, <2>0 DEF Requests, Stages
    <2> QED BY <1>1, <1>5, <2>0, <2>1, Answers DEF G!Insert, Asks, Requests
<1>6. ASSUME G!ReadRow(q) PROVE Asks(q, G!NoRequest) \/ Asks(q, Reading(q))
    <2> DEFINE known == Len(codes) \in opened
    <2>0. known \in BOOLEAN
        OBVIOUS
    <2> HIDE DEF known
    <2>1. [sreq[q] EXCEPT !.pc = "count", !.row = Len(codes), !.spent = known] \in Requests
        BY <1>1, <2>0 DEF Requests, Stages
    <2> QED BY <1>1, <1>6, <2>0, <2>1, Answers DEF G!ReadRow, Asks, Requests, known
<1>7. ASSUME G!Count(q) PROVE Asks(q, G!NoRequest) \/ Asks(q, Onward(q, "user"))
    <2>1. Onward(q, "user") \in Requests
        BY <1>1 DEF Requests, Stages
    <2> QED BY <1>1, <1>7, <2>1, Answers DEF G!Count, Asks, Requests
<1>8. ASSUME G!FindUser(q) PROVE Asks(q, Finding(q))
    <2>1. Finding(q) \in Requests
        BY <1>1 DEF Requests, Stages
    <2> QED BY <1>1, <1>8, <2>1, Answers DEF G!FindUser, Asks, Requests
<1>9. ASSUME G!Consume(q) PROVE Asks(q, G!NoRequest) \/ Asks(q, Onward(q, "session"))
    <2>1. Onward(q, "session") \in Requests
        BY <1>1 DEF Requests, Stages
    <2> QED BY <1>1, <1>9, <2>1, Answers DEF G!Consume, Asks, Requests
<1>10. ASSUME G!CheckLogin(q) PROVE Asks(q, G!NoRequest) \/ Asks(q, Onward(q, "session"))
    <2>1. Onward(q, "session") \in Requests
        BY <1>1 DEF Requests, Stages
    <2> QED BY <1>1, <1>10, <2>1, Answers DEF G!CheckLogin, Asks, Requests
<1>11. ASSUME G!CheckCurrent(q) PROVE Asks(q, G!NoRequest) \/ Asks(q, Onward(q, "write"))
    <2>1. Onward(q, "write") \in Requests
        BY <1>1 DEF Requests, Stages
    <2> QED BY <1>1, <1>11, <2>1, Answers DEF G!CheckCurrent, Asks, Requests
<1>12. ASSUME G!SendSms(q) \/ G!WritePassword(q) \/ G!StartSession(q) PROVE Asks(q, G!NoRequest)
    BY <1>12, Answers DEF G!SendSms, G!WritePassword, G!StartSession
<1>13. ASSUME G!Verify(q) PROVE \E c \in Nat : Asks(q, Typing(q, c))
    <2>1. PICK c \in {0} \cup (inbox \intersect {Len(codes)}) : sreq' = [sreq EXCEPT ![q].pc = "read", ![q].typed = c]
        BY <1>13 DEF G!Verify
    <2>2. c \in Nat
        BY <1>1
    <2>3. Typing(q, c) \in Requests
        BY <1>1, <2>2 DEF Requests, Stages
    <2>4. Asks(q, Typing(q, c))
        BY <1>1, <1>13, <2>1, <2>3 DEF G!Verify, Asks, Requests
    <2> QED BY <2>2, <2>4, Zenon
<1>14. ASSUME G!Login(q) PROVE \E w \in Passwords : Asks(q, Comparing(q, w))
    <2>1. PICK w \in Passwords :
             sreq' = [sreq EXCEPT ![q].pc = "compare", ![q].word = w, ![q].read = account.word, ![q].seen = account.writes]
        BY <1>14, Zenon DEF G!Login
    <2>2. Comparing(q, w) \in Requests
        BY <1>1, Zenon DEF Requests, Stages, Phrases
    <2>3. sreq' = [sreq EXCEPT ![q] = Comparing(q, w)]
        <3> HIDE DEF Requests
        <3> QED BY <1>1, <2>1
    <2>4. Comparing(q, w).pc = "compare"
        BY <1>1 DEF Requests
    <2>5. Asks(q, Comparing(q, w))
        BY <1>14, <2>2, <2>3, <2>4 DEF G!Login, Asks
    <2> QED BY <2>5, Zenon
<1>15. ASSUME G!ChangePassword(q) PROVE \E w, fresh \in Passwords : Asks(q, Changing(q, w, fresh))
    <2>1. PICK w, fresh \in Passwords :
             sreq' = [sreq EXCEPT ![q].pc = "current", ![q].word = w, ![q].new = fresh,
                                  ![q].read = account.word, ![q].seen = account.writes]
        BY <1>15, Zenon DEF G!ChangePassword
    <2>2. Changing(q, w, fresh) \in Requests
        BY <1>1, Zenon DEF Requests, Stages, Phrases
    <2>3. sreq' = [sreq EXCEPT ![q] = Changing(q, w, fresh)]
        <3> HIDE DEF Requests
        <3> QED BY <1>1, <2>1
    <2>4. Changing(q, w, fresh).pc = "current" /\ Changing(q, w, fresh).new = fresh
        BY <1>1 DEF Requests
    <2>5. Asks(q, Changing(q, w, fresh))
        BY <1>15, <2>2, <2>3, <2>4 DEF G!ChangePassword, Asks
    <2> QED BY <2>5, Zenon
<1> QED BY <1>2, <1>3, <1>4, <1>5, <1>6, <1>7, <1>8, <1>9, <1>10, <1>11, <1>12, <1>13, <1>14, <1>15, Zenon

(***************************************************************************)
(* A step of one browser.                                                  *)
(***************************************************************************)
ByBrowser(q) == G!ByCode(q) \/ G!ByPassword(q) \/ G!StartSession(q) \/ G!Logout(q)

(***************************************************************************)
(* After a browser's step the requests are requests, and those of the      *)
(* others are as they were.                                                *)
(***************************************************************************)
LEMMA RequestsTyped ==
    ASSUME SignInTyped, NEW q \in Browsers, ByBrowser(q)
    PROVE  /\ sreq' \in [Browsers -> Requests] /\ \A p \in Browsers \ {q} : sreq'[p] = sreq[p]
           /\ \A p \in Browsers :
                 /\ sreq'[p].pc \in {"compare", "current", "write"} => way' = "password"
                 /\ sreq'[p].pc \in {"current", "write"} => sreq'[p].new \in Passwords
<1>1. CASE G!ChangeNumber(q) \/ G!Logout(q)
    BY <1>1 DEF G!ChangeNumber, G!Logout, SignInTyped
<1>2. CASE \E r : Asks(q, r)
    BY <1>2, RequestMoved
<1> QED BY <1>1, <1>2, EveryMove DEF ByBrowser, G!ByCode, G!ByPassword

(***************************************************************************)
(* The codes stay those that were made, and are used up for good.          *)
(***************************************************************************)
CodesStay ==
    /\ codes' \in Seq(Codes) /\ Len(codes') = Len(codes) /\ DOMAIN codes' = DOMAIN codes
    /\ \A i \in DOMAIN codes :
          /\ codes'[i].made = codes[i].made /\ codes'[i].crossed = codes[i].crossed
          /\ codes[i].consumed => codes'[i].consumed

(***************************************************************************)
(* The codes are rows, numbered from one, and there is a last one.         *)
(***************************************************************************)
LEMMA CodeRows ==
    ASSUME SignInTyped
    PROVE  /\ codes \in Seq(Codes) /\ DOMAIN codes = 1..Len(codes) /\ Len(codes) \in Nat /\ Len(codes) \in DOMAIN codes
           /\ \A i \in DOMAIN codes : codes[i] \in Codes
<1>1. codes \in Seq(Codes) /\ Len(codes) > 0
    BY DEF SignInTyped
<1> HIDE DEF Codes
<1> QED BY <1>1, LenProperties, ElementOfSeq

(***************************************************************************)
(* A write to one row that keeps when it was made, and that it was used,   *)
(* leaves the codes in their order and the others as they are.             *)
(***************************************************************************)
LEMMA CodeWritten ==
    ASSUME SignInTyped, NEW i \in DOMAIN codes, NEW c \in Codes, codes' = [codes EXCEPT ![i] = c],
           c.made = codes[i].made, c.crossed = codes[i].crossed, codes[i].consumed => c.consumed
    PROVE  CodesStay /\ codes'[i] = c /\ \A j \in DOMAIN codes : j # i => codes'[j] = codes[j]
<1>1. codes \in Seq(Codes) /\ DOMAIN codes = 1..Len(codes)
    BY CodeRows
<1>2. codes' \in Seq(Codes) /\ Len(codes') = Len(codes)
    <2> HIDE DEF Codes
    <2> QED BY <1>1, ExceptSeq
<1>3. DOMAIN codes' = 1..Len(codes')
    <2> HIDE DEF Codes
    <2> QED BY <1>2, LenProperties
<1>4. codes'[i] = c /\ \A j \in DOMAIN codes : j # i => codes'[j] = codes[j]
    OBVIOUS
<1> QED BY <1>1, <1>2, <1>3, <1>4 DEF CodesStay

(***************************************************************************)
(* A new request voids every code and counts no attempt.                   *)
(***************************************************************************)
LEMMA Replaced ==
    ASSUME SignInTyped, NEW q \in Browsers, G!Replace(q)
    PROVE  CodesStay /\ \A i \in DOMAIN codes : codes'[i].consumed /\ codes'[i].attempts = codes[i].attempts
<1>1. codes' = [i \in DOMAIN codes |-> [codes[i] EXCEPT !.consumed = TRUE]]
    BY DEF G!Replace
<1>2. \A i \in DOMAIN codes : codes[i] \in Codes
    BY CodeRows
<1>3. \A i \in DOMAIN codes : codes'[i] = [codes[i] EXCEPT !.consumed = TRUE] /\ codes'[i] \in Codes
    BY <1>1, <1>2 DEF Codes
<1>4. DOMAIN codes' = DOMAIN codes /\ codes' \in Seq(Codes) /\ Len(codes') = Len(codes)
    <2>1. codes' \in [1..Len(codes) -> Codes]
        <3> HIDE DEF Codes
        <3> QED BY <1>1, <1>3, CodeRows
    <2> HIDE DEF Codes
    <2> QED BY <2>1, CodeRows, SeqDef
<1> QED BY <1>2, <1>3, <1>4 DEF CodesStay, Codes

(***************************************************************************)
(* An attempt is counted on the row that was read, and on no other.        *)
(***************************************************************************)
LEMMA Tried ==
    ASSUME SignInTyped, UsedInv, NEW q \in Browsers, G!Count(q)
    PROVE  /\ CodesStay /\ sreq[q].row \in DOMAIN codes
           /\ codes'[sreq[q].row].attempts = codes[sreq[q].row].attempts + 1
           /\ \A i \in DOMAIN codes : i # sreq[q].row => codes'[i] = codes[i]
<1> PICK i : i = sreq[q].row
    OBVIOUS
<1>1. i \in DOMAIN codes /\ codes[i] \in Codes
    BY CodeRows DEF UsedInv, G!Count
<1>2. codes' = [codes EXCEPT ![i] = [codes[i] EXCEPT !.attempts = codes[i].attempts + 1]]
    BY DEF G!Count
<1>3. [codes[i] EXCEPT !.attempts = codes[i].attempts + 1] \in Codes
    BY <1>1 DEF Codes
<1> QED BY <1>1, <1>2, <1>3, CodeWritten DEF Codes

(***************************************************************************)
(* The code that matched is used up; no attempt is counted.                *)
(***************************************************************************)
LEMMA UsedUp ==
    ASSUME SignInTyped, UsedInv, NEW q \in Browsers, G!Consume(q)
    PROVE  /\ CodesStay /\ sreq[q].row \in DOMAIN codes /\ codes'[sreq[q].row].consumed
           /\ \A i \in DOMAIN codes : codes'[i].attempts = codes[i].attempts
<1> PICK i : i = sreq[q].row
    OBVIOUS
<1>1. i \in DOMAIN codes /\ codes[i] \in Codes
    BY CodeRows DEF UsedInv, G!Consume
<1>2. codes' = [codes EXCEPT ![i] = [codes[i] EXCEPT !.consumed = TRUE]]
    BY DEF G!Consume, G!Consumed
<1>3. [codes[i] EXCEPT !.consumed = TRUE] \in Codes
    BY <1>1 DEF Codes
<1> QED BY <1>1, <1>2, <1>3, CodeWritten DEF Codes

(***************************************************************************)
(* The row a request inserts.                                              *)
(***************************************************************************)
CodeMade(q) == [made |-> now, attempts |-> 0, consumed |-> FALSE, crossed |-> Len(codes) # sreq[q].seen]

(***************************************************************************)
(* A code is made now, after all others, with no attempt on it.            *)
(***************************************************************************)
LEMMA Made ==
    ASSUME SignInTyped, NEW q \in Browsers, G!Insert(q)
    PROVE  /\ codes' \in Seq(Codes) /\ Len(codes') = Len(codes) + 1 /\ DOMAIN codes' = DOMAIN codes \cup {Len(codes) + 1}
           /\ codes'[Len(codes) + 1] = CodeMade(q) /\ \A i \in DOMAIN codes : codes'[i] = codes[i]
           /\ Len(codes) + 1 \notin DOMAIN codes
<1>1. CodeMade(q) \in Codes
    BY DEF CodeMade, Codes, SignInTyped
<1>2. codes' = Append(codes, CodeMade(q))
    BY DEF G!Insert, CodeMade
<1>3. codes \in Seq(Codes) /\ DOMAIN codes = 1..Len(codes) /\ Len(codes) \in Nat
    BY CodeRows
<1> HIDE DEF Codes, CodeMade
<1>4. /\ codes' \in Seq(Codes) /\ Len(codes') = Len(codes) + 1 /\ codes'[Len(codes) + 1] = CodeMade(q)
      /\ \A i \in 1..Len(codes) : codes'[i] = codes[i]
    BY <1>1, <1>2, <1>3, AppendProperties
<1>5. DOMAIN codes' = 1..Len(codes')
    BY <1>4, LenProperties
<1> QED BY <1>3, <1>4, <1>5

(***************************************************************************)
(* After a browser's step the forms are forms, and those of the others are *)
(* as they were.                                                           *)
(***************************************************************************)
LEMMA FormsTyped ==
    ASSUME SignInTyped, NEW q \in Browsers, ByBrowser(q)
    PROVE  /\ sform' \in [Browsers -> Askers] /\ \A p \in Browsers \ {q} : sform'[p] = sform[p]
<1>1. sform \in [Browsers -> Askers] /\ sform[q] \in Askers /\ Len(codes) \in Nat /\ RESEND_COOLDOWN \in Nat
    BY SignInConstants DEF SignInTyped
<1>2. \A f \in Askers : sform' = [sform EXCEPT ![q] = f] =>
          sform' \in [Browsers -> Askers] /\ \A p \in Browsers \ {q} : sform'[p] = sform[p]
    <2> HIDE DEF Askers
    <2> QED BY <1>1
<1>3. G!NewForm \in Askers
    BY DEF G!NewForm, Askers
<1>4. CASE G!StartSession(q) \/ G!ChangeNumber(q)
    BY <1>2, <1>3, <1>4 DEF G!StartSession, G!ChangeNumber
<1>5. ASSUME G!Recent(q), sform' # sform
      PROVE  \E f \in Askers : sform' = [sform EXCEPT ![q] = f]
    <2>1. CASE codes # <<>> /\ now - G!LastAt < RESEND_COOLDOWN
        <3> DEFINE left1 == RESEND_COOLDOWN - (now - G!LastAt)
                   refused1 == sform[q].sent /\ sform[q].known = Len(codes)
                   f == [sform[q] EXCEPT !.sent = TRUE, !.left = left1, !.known = Len(codes), !.refused = refused1]
        <3>1. sform' = [sform EXCEPT ![q].sent = TRUE, ![q].left = left1, ![q].known = Len(codes), ![q].refused = refused1]
            BY <1>5, <2>1 DEF G!Recent, G!RetryAfter
        <3>2. left1 \in Nat /\ refused1 \in BOOLEAN
            BY <1>1, <2>1, CodeRows DEF G!LastAt, Codes, SignInTyped, Askers
        <3> HIDE DEF left1, refused1
        <3>3. f \in Askers
            BY <1>1, <3>2 DEF Askers
        <3>4. sform' = [sform EXCEPT ![q] = f]
            <4> HIDE DEF Askers
            <4> QED BY <1>1, <3>1
        <3> QED BY <3>3, <3>4
    <2>2. CASE ~(codes # <<>> /\ now - G!LastAt < RESEND_COOLDOWN)
        <3>1. sform' = [sform EXCEPT ![q].sent = TRUE, ![q].left = RESEND_COOLDOWN, ![q].known = Len(codes)]
            BY <1>5, <2>2 DEF G!Recent
        <3>2. [sform[q] EXCEPT !.sent = TRUE, !.left = RESEND_COOLDOWN, !.known = Len(codes)] \in Askers
            BY <1>1 DEF Askers
        <3> QED BY <1>1, <3>1, <3>2
    <2> QED BY <2>1, <2>2
<1>6. CASE G!Recent(q) /\ sform' # sform
    BY <1>2, <1>5, <1>6
<1>7. CASE G!SendSms(q) /\ sform' # sform
    <2>1. sform' = [sform EXCEPT ![q].sent = TRUE, ![q].left = RESEND_COOLDOWN, ![q].known = Len(codes)]
        BY <1>7 DEF G!SendSms
    <2>2. [sform[q] EXCEPT !.sent = TRUE, !.left = RESEND_COOLDOWN, !.known = Len(codes)] \in Askers
        BY <1>1 DEF Askers
    <2> QED BY <1>1, <1>2, <2>1, <2>2
<1>8. CASE sform' = sform
    BY <1>1, <1>8
<1>9. \/ G!StartSession(q) \/ G!ChangeNumber(q) \/ G!Recent(q) \/ G!SendSms(q) \/ sform' = sform
    BY Zenon DEF ByBrowser, G!ByCode, G!ByPassword, G!Request, G!Replace, G!Insert, G!Verify, G!ReadRow,
        G!Count, G!FindUser, G!Consume, G!Login, G!CheckLogin, G!ChangePassword, G!CheckCurrent,
        G!WritePassword, G!Logout
<1> QED BY <1>4, <1>6, <1>7, <1>8, <1>9

(***************************************************************************)
(* A browser's step makes a code or keeps those there are; what was used   *)
(* up stays so.                                                            *)
(***************************************************************************)
LEMMA CodesTyped ==
    ASSUME SignInTyped, UsedInv, NEW q \in Browsers, ByBrowser(q)
    PROVE  /\ CodesStay \/ G!Insert(q)
           /\ codes' \in Seq(Codes) /\ Len(codes') >= Len(codes) /\ DOMAIN codes \subseteq DOMAIN codes'
           /\ \A i \in DOMAIN codes : codes[i].consumed => codes'[i].consumed
<1>1. \/ G!Replace(q) \/ G!Insert(q) \/ G!Count(q) \/ G!Consume(q) \/ codes' = codes
    BY Zenon DEF ByBrowser, G!ByCode, G!ByPassword, G!Request, G!ChangeNumber, G!Recent, G!SendSms,
        G!Verify, G!ReadRow, G!FindUser, G!Login, G!CheckLogin, G!ChangePassword, G!CheckCurrent,
        G!WritePassword, G!Logout, G!StartSession
<1>2. CASE codes' = codes
    BY <1>2, CodeRows DEF CodesStay
<1>3. CASE G!Insert(q)
    <2> HIDE DEF Codes
    <2> QED BY <1>3, Made, CodeRows
<1>4. CASE G!Replace(q) \/ G!Count(q) \/ G!Consume(q)
    <2>1. CodesStay
        BY <1>4, Replaced, Tried, UsedUp
    <2> HIDE DEF Codes
    <2> QED BY <2>1, CodeRows DEF CodesStay
<1> QED BY <1>1, <1>2, <1>3, <1>4

(***************************************************************************)
(* A browser changes the account only by writing a password, which counts  *)
(* as one change and leaves role and state.                                *)
(***************************************************************************)
LEMMA AccountTyped ==
    ASSUME SignInTyped, NEW q \in Browsers, ByBrowser(q)
    PROVE  /\ account' \in [active : BOOLEAN, role : {"customer", "admin"}, word : Passwords, writes : Nat]
           /\ account'.role = account.role /\ account'.active = account.active
           /\ account' = account \/ account'.writes = account.writes + 1
<1>1. CASE G!WritePassword(q)
    <2>1. sreq[q].new \in Passwords /\ account' = [account EXCEPT !.word = sreq[q].new, !.writes = account.writes + 1]
        BY <1>1 DEF G!WritePassword, SignInTyped
    <2>2. account \in Accounts
        BY DEF SignInTyped, Accounts
    <2>3. PICK n \in Nat : n = account.writes + 1
        BY <2>2 DEF Accounts
    <2>4. PICK w \in Passwords : w = sreq[q].new
        BY <2>1
    <2>5. account' = [account EXCEPT !.word = w, !.writes = n]
        BY <2>1, <2>3, <2>4
    <2>6. account' \in Accounts /\ account'.role = account.role /\ account'.active = account.active /\ account'.writes = n
        BY <2>2, <2>5 DEF Accounts
    <2> QED BY <2>3, <2>6 DEF Accounts
<1>2. CASE account' = account
    BY <1>2 DEF SignInTyped
<1> QED BY <1>1, <1>2, Zenon
        DEF ByBrowser, G!ByCode, G!ByPassword, G!Request, G!ChangeNumber, G!Recent, G!Replace,
            G!Insert, G!SendSms, G!Verify, G!ReadRow, G!Count, G!FindUser, G!Consume, G!Login,
            G!CheckLogin, G!ChangePassword, G!CheckCurrent, G!Logout, G!StartSession

(***************************************************************************)
(* A browser's step leaves every session either signed out or the one      *)
(* startSession gives to the account's role.                               *)
(***************************************************************************)
LEMMA SeatsTyped ==
    ASSUME SignInTyped, NEW q \in Browsers, ByBrowser(q)
    PROVE  opensession' \in [Browsers -> Seats']
<1>1. way' = way /\ next' = next /\ account'.role = account.role
    BY AccountTyped, Zenon
        DEF ByBrowser, G!ByCode, G!ByPassword, G!Request, G!ChangeNumber, G!Recent, G!Replace,
            G!Insert, G!SendSms, G!Verify, G!ReadRow, G!Count, G!FindUser, G!Consume, G!Login,
            G!CheckLogin, G!ChangePassword, G!CheckCurrent, G!Logout, G!StartSession, G!WritePassword
<1>2. Seats' = Seats
    BY <1>1 DEF Seats, G!SignedOut, G!Token, G!GoHome
<1>3. opensession \in [Browsers -> Seats]
    BY DEF SignInTyped
<1>4. G!SignedOut \in Seats /\ G!Token(account.role) \in Seats
    BY DEF Seats
<1>5. \/ opensession' = opensession \/ opensession' = [opensession EXCEPT ![q] = G!SignedOut]
      \/ opensession' = [opensession EXCEPT ![q] = G!Token(account.role)]
    BY Zenon
        DEF ByBrowser, G!ByCode, G!ByPassword, G!Request, G!ChangeNumber, G!Recent, G!Replace,
            G!Insert, G!SendSms, G!Verify, G!ReadRow, G!Count, G!FindUser, G!Consume, G!Login,
            G!CheckLogin, G!ChangePassword, G!CheckCurrent, G!Logout, G!StartSession, G!WritePassword
<1> HIDE DEF Seats
<1> QED BY <1>2, <1>3, <1>4, <1>5

(***************************************************************************)
(* What a browser's step leaves alone: the way to sign in, the remembered  *)
(* page and the time.                                                      *)
(***************************************************************************)
LEMMA SignInRest ==
    ASSUME NEW q \in Browsers, ByBrowser(q)
    PROVE  way' = way /\ next' = next /\ now' = now
BY Zenon
        DEF ByBrowser, G!ByCode, G!ByPassword, G!Request, G!ChangeNumber, G!Recent, G!Replace,
            G!Insert, G!SendSms, G!Verify, G!ReadRow, G!Count, G!FindUser, G!Consume, G!Login,
            G!CheckLogin, G!ChangePassword, G!CheckCurrent, G!Logout, G!StartSession, G!WritePassword

(***************************************************************************)
(* A browser's step keeps the variables in their sets.                     *)
(***************************************************************************)
LEMMA SignInTypedStep == ASSUME SignInTyped, UsedInv, NEW q \in Browsers, ByBrowser(q) PROVE SignInTyped'
<1>1. way' = way /\ next' = next /\ now' = now
    BY SignInRest
<1>2. way \in {"code", "password"} /\ next \in G!Middleware /\ now \in Nat /\ Len(codes) > 0 /\ Len(codes) \in Nat
    BY CodeRows DEF SignInTyped
<1>3. account' \in Accounts
    BY AccountTyped DEF Accounts
<1>4. codes' \in Seq(Codes) /\ Len(codes') > 0
    <2>1. codes' \in Seq(Codes) /\ Len(codes') >= Len(codes)
        BY CodesTyped
    <2>2. Len(codes') \in Nat
        <3> HIDE DEF Codes
        <3> QED BY <2>1, LenProperties
    <2> HIDE DEF Codes
    <2> QED BY <1>2, <2>1, <2>2
<1>5. sform' \in [Browsers -> Askers]
    BY FormsTyped
<1>6. opensession' \in [Browsers -> Seats']
    BY SeatsTyped
<1>7. G!Middleware' = G!Middleware
    BY DEF G!Middleware
<1>8. /\ sreq' \in [Browsers -> Requests]
      /\ \A p \in Browsers :
            /\ sreq'[p].pc \in {"compare", "current", "write"} => way' = "password"
            /\ sreq'[p].pc \in {"current", "write"} => sreq'[p].new \in Passwords
    BY RequestsTyped
<1> HIDE DEF Codes, Askers, Requests, Seats, Accounts
<1> QED BY <1>1, <1>2, <1>3, <1>4, <1>5, <1>6, <1>7, <1>8 DEF SignInTyped, Accounts

(***************************************************************************)
(* The request that has just moved is not one of a code that had been used *)
(* when it was read; it knows a row that exists, and once it may start a   *)
(* session its code is used up.                                            *)
(***************************************************************************)
LEMMA UsedOwn ==
    ASSUME SignInTyped, UsedInv, NEW q \in Browsers, ByBrowser(q)
    PROVE  /\ ~sreq'[q].spent
           /\ sreq'[q].pc \in {"count", "user", "consume", "burn"} => sreq'[q].row \in DOMAIN codes'
           /\ sreq'[q].pc = "session" /\ way = "code" => sreq'[q].row \in DOMAIN codes' /\ codes'[sreq'[q].row].consumed
<1> USE DEF Onward, Replacing, Sending, Typing, Reading, Finding, Comparing, Changing
<1> DEFINE Holds(r) ==
        /\ ~r.spent
        /\ r.pc \in {"count", "user", "consume", "burn"} => r.row \in DOMAIN codes'
        /\ r.pc = "session" /\ way = "code" => r.row \in DOMAIN codes' /\ codes'[r.row].consumed
<1>0. /\ sreq[q] \in Requests /\ ~sreq[q].spent /\ DOMAIN codes \subseteq DOMAIN codes' /\ sreq \in [Browsers -> Requests]
      /\ sreq[q].pc \in {"count", "user", "consume", "burn"} => sreq[q].row \in DOMAIN codes
      /\ \A i \in DOMAIN codes : codes[i].consumed => codes'[i].consumed
      /\ sreq[q].pc = "session" /\ way = "code" => sreq[q].row \in DOMAIN codes /\ codes[sreq[q].row].consumed
    BY CodesTyped DEF SignInTyped, UsedInv
<1>1. ASSUME NEW r, Asks(q, r), Holds(r) PROVE Holds(sreq'[q])
    <2>1. sreq'[q] = r
        BY <1>1, RequestMoved
    <2> QED BY <1>1, <2>1
<1>2. Holds(G!NoRequest)
    BY DEF G!NoRequest
<1>3. CASE Asks(q, G!NoRequest)
    BY <1>1, <1>2, <1>3
<1>4. CASE G!ChangeNumber(q) \/ G!Logout(q)
    BY <1>0, <1>4 DEF G!ChangeNumber, G!Logout
<1>5. ASSUME NEW r, Asks(q, r), r.spent = sreq[q].spent,
             r.pc \notin {"count", "user", "consume", "burn"}, r.pc = "session" => way # "code"
      PROVE Holds(sreq'[q])
    <2>1. Holds(r)
        BY <1>0, <1>5
    <2> QED BY <1>1, <1>5, <2>1
<1>6. CASE G!Request(q) \/ G!Recent(q) \/ G!Replace(q) \/ G!Insert(q) \/ G!CheckCurrent(q)
    <2>1. /\ Onward(q, "recent").spent = sreq[q].spent /\ Onward(q, "recent").pc = "recent"
          /\ Onward(q, "insert").spent = sreq[q].spent /\ Onward(q, "insert").pc = "insert"
          /\ Onward(q, "write").spent = sreq[q].spent /\ Onward(q, "write").pc = "write"
          /\ Replacing(q).spent = sreq[q].spent
          /\ Replacing(q).pc = "replace"
          /\ Sending(q).spent = sreq[q].spent
          /\ Sending(q).pc = "sms"
        BY <1>0 DEF Requests
    <2> QED BY <1>3, <1>5, <1>6, <2>1, EveryMove, Zenon
<1>7. CASE G!ReadRow(q)
    <2>1. CASE Asks(q, Reading(q))
        <3>1. sreq[q].pc = "read"
            BY <1>7 DEF G!ReadRow
        <3>2. sreq'[q] = Reading(q)
            BY <2>1, RequestMoved
        <3>3. sreq'[q].pc = "count" /\ sreq'[q].row = Len(codes) /\ sreq'[q].spent = (Len(codes) \in opened)
            BY <1>0, <3>2 DEF Requests
        <3>4. Len(codes) \in DOMAIN codes
            BY CodeRows
        <3>5. ~codes[Len(codes)].consumed
            <4>1. ASSUME Asks(q, G!NoRequest) PROVE FALSE
                <5>1. sreq'[q] = G!NoRequest
                    BY <4>1, RequestMoved
                <5>2. G!NoRequest.pc = "none"
                    BY DEF G!NoRequest
                <5> QED BY <3>3, <5>1, <5>2
            <4> QED BY <1>7, <4>1, Answers DEF G!ReadRow, G!Usable
        <3>6. Len(codes) \notin opened
            BY <3>5 DEF UsedInv
        <3> QED BY <1>0, <3>3, <3>4, <3>6
    <2> QED BY <1>3, <1>7, <2>1, EveryMove, Zenon
<1>8. CASE G!Count(q)
    <2>1. /\ Onward(q, "user").spent = sreq[q].spent /\ Onward(q, "user").pc = "user"
          /\ Onward(q, "user").row = sreq[q].row /\ sreq[q].pc = "count"
        BY <1>0, <1>8 DEF Requests, G!Count
    <2>2. Holds(Onward(q, "user"))
        BY <1>0, <2>1
    <2> QED BY <1>1, <1>3, <1>8, <2>2, EveryMove, Zenon
<1>9. CASE G!FindUser(q)
    <2> DEFINE r == Finding(q)
    <2>1. r.spent = sreq[q].spent /\ r.pc \in {"consume", "burn"} /\ r.row = sreq[q].row /\ sreq[q].pc = "user"
        BY <1>0, <1>9 DEF Requests, G!FindUser
    <2>2. Holds(r) /\ Asks(q, r)
        BY <1>0, <1>9, <2>1, EveryMove, Zenon
    <2> QED BY <1>1, <2>2
<1>10. CASE G!Consume(q)
    <2>1. /\ Onward(q, "session").spent = sreq[q].spent /\ Onward(q, "session").pc = "session"
          /\ Onward(q, "session").row = sreq[q].row
        BY <1>0 DEF Requests
    <2>2. Holds(Onward(q, "session"))
        BY <1>0, <1>10, <2>1, UsedUp
    <2> QED BY <1>1, <1>3, <1>10, <2>2, EveryMove, Zenon
<1>11. CASE G!CheckLogin(q)
    <2>1. way = "password"
        BY <1>11 DEF G!CheckLogin, SignInTyped
    <2>2. Onward(q, "session").spent = sreq[q].spent /\ Onward(q, "session").pc = "session"
        BY <1>0 DEF Requests
    <2> QED BY <1>3, <1>5, <1>11, <2>1, <2>2, EveryMove, Zenon
<1>12. CASE G!SendSms(q) \/ G!WritePassword(q) \/ G!StartSession(q)
    BY <1>3, <1>12, EveryMove, Zenon
<1>13. CASE G!Verify(q)
    <2>1. PICK c \in Nat : Asks(q, Typing(q, c))
        BY <1>13, EveryMove, Zenon
    <2>2. /\ Typing(q, c).spent = sreq[q].spent
          /\ Typing(q, c).pc = "read"
        BY <1>0 DEF Requests
    <2> QED BY <1>5, <2>1, <2>2, Zenon
<1>14. CASE G!Login(q)
    <2>1. PICK w \in Passwords : Asks(q, Comparing(q, w))
        BY <1>14, EveryMove, Zenon
    <2> DEFINE r == Comparing(q, w)
    <2>2. r.spent = sreq[q].spent /\ r.pc = "compare"
        BY <1>0 DEF Requests
    <2> QED BY <1>5, <2>1, <2>2, Zenon
<1>15. CASE G!ChangePassword(q)
    <2>1. PICK w, fresh \in Passwords : Asks(q, Changing(q, w, fresh))
        BY <1>15, EveryMove, Zenon
    <2> DEFINE r == Changing(q, w, fresh)
    <2>2. r.spent = sreq[q].spent /\ r.pc = "current"
        BY <1>0 DEF Requests
    <2> QED BY <1>5, <2>1, <2>2, Zenon
<1> QED BY <1>4, <1>6, <1>7, <1>8, <1>9, <1>10, <1>11, <1>12, <1>13, <1>14, <1>15 DEF ByBrowser,
    G!ByCode, G!ByPassword

(***************************************************************************)
(* A browser's step keeps UsedInv: every code that has opened a session is *)
(* used up and will not be read again (verifyOtp).                         *)
(***************************************************************************)
LEMMA UsedStep == ASSUME SignInTyped, UsedInv, NEW q \in Browsers, ByBrowser(q) PROVE UsedInv'
<1>1. /\ DOMAIN codes \subseteq DOMAIN codes' /\ \A i \in DOMAIN codes : codes[i].consumed => codes'[i].consumed
    BY CodesTyped
<1>2. way' = way /\ \A p \in Browsers \ {q} : sreq'[p] = sreq[p]
    BY SignInRest, RequestsTyped
<1>3. \A i \in opened' : i \in DOMAIN codes' /\ codes'[i].consumed
    <2>1. opened' = opened \/ (way = "code" /\ sreq[q].pc = "session" /\ opened' = opened \cup {sreq[q].row})
        BY Zenon DEF ByBrowser, G!ByCode, G!ByPassword, G!Request, G!ChangeNumber, G!Recent, G!Replace,
            G!Insert, G!SendSms, G!Verify, G!ReadRow, G!Count, G!FindUser, G!Consume, G!Login,
            G!CheckLogin, G!ChangePassword, G!CheckCurrent, G!Logout, G!StartSession, G!WritePassword
    <2> QED BY <1>1, <2>1 DEF UsedInv
<1>4. \A p \in Browsers \ {q} :
          /\ ~sreq'[p].spent
          /\ sreq'[p].pc \in {"count", "user", "consume", "burn"} => sreq'[p].row \in DOMAIN codes'
          /\ sreq'[p].pc = "session" /\ way' = "code" => sreq'[p].row \in DOMAIN codes' /\ codes'[sreq'[p].row].consumed
    BY <1>1, <1>2 DEF UsedInv
<1> QED BY <1>2, <1>3, <1>4, UsedOwn DEF UsedInv

(***************************************************************************)
(* Where the codes stay, they stay as far apart; the last one and those of *)
(* the hour are the same.                                                  *)
(***************************************************************************)
LEMMA ApartStay ==
    ASSUME SignInTyped, InTime, G!CodesApart, CodesStay, now' = now
    PROVE  InTime' /\ G!CodesApart' /\ G!LastAt' = G!LastAt /\ G!InHour' = G!InHour
<1>1. \A i \in DOMAIN codes : codes'[i].made = codes[i].made
    BY DEF CodesStay
<1>2. DOMAIN codes' = DOMAIN codes /\ Len(codes') = Len(codes)
    BY DEF CodesStay
<1>3. InTime'
    BY <1>1, <1>2 DEF InTime
<1>4. G!InHour' = G!InHour
    BY <1>1, <1>2 DEF G!InHour
<1>5. G!LastAt' = G!LastAt
    BY <1>1, <1>2, CodeRows DEF G!LastAt
<1>6. \A j \in DOMAIN codes : 1..j \subseteq DOMAIN codes
    BY CodeRows
<1>7. ASSUME NEW j \in DOMAIN codes, \A i \in 1..j : ~codes'[i].crossed
      PROVE  /\ \A i \in 1..(j - 1) : codes'[j].made - codes'[i].made >= RESEND_COOLDOWN
             /\ G!Cardinality({i \in 1..j : codes'[j].made - codes'[i].made < Hour}) <= MAX_PER_HOUR
             /\ \A i \in 1..(j - 1) : codes'[i].consumed
    <2>1. \A i \in 1..j : ~codes[i].crossed
        BY <1>6, <1>7 DEF CodesStay
    <2>2. /\ \A i \in 1..(j - 1) : codes[j].made - codes[i].made >= RESEND_COOLDOWN
          /\ G!Cardinality({i \in 1..j : codes[j].made - codes[i].made < Hour}) <= MAX_PER_HOUR
          /\ \A i \in 1..(j - 1) : codes[i].consumed
        BY <2>1 DEF G!CodesApart
    <2>3. {i \in 1..j : codes'[j].made - codes'[i].made < Hour} = {i \in 1..j : codes[j].made - codes[i].made < Hour}
        BY <1>1, <1>6
    <2>4. j \in Nat /\ 1..(j - 1) \subseteq DOMAIN codes
        BY CodeRows
    <2> QED BY <1>1, <2>2, <2>3, <2>4 DEF CodesStay
<1>8. G!CodesApart'
    <2> SUFFICES ASSUME NEW j \in DOMAIN codes', \A i \in 1..j : ~codes'[i].crossed
                 PROVE  /\ \A i \in 1..(j - 1) : codes'[j].made - codes'[i].made >= RESEND_COOLDOWN
                        /\ G!Cardinality({i \in 1..j : codes'[j].made - codes'[i].made < Hour}) <= MAX_PER_HOUR
                        /\ \A i \in 1..(j - 1) : codes'[i].consumed
        BY DEF G!CodesApart
    <2> QED BY <1>2, <1>7
<1> QED BY <1>3, <1>4, <1>5, <1>8

(***************************************************************************)
(* The codes of the last hour can be counted.                              *)
(***************************************************************************)
LEMMA HourFinite == ASSUME SignInTyped PROVE IsFiniteSet(G!InHour) /\ Cardinality(G!InHour) \in Nat
<1>1. IsFiniteSet(DOMAIN codes) /\ G!InHour \subseteq DOMAIN codes
    BY CodeRows, FS_Interval DEF G!InHour
<1> QED BY <1>1, FS_Subset, FS_CardinalityType

(***************************************************************************)
(* A code made when none was made since the last was looked at comes a     *)
(* cooldown after it, within the count of the hour, and is the only one    *)
(* alive (requestOtp).                                                     *)
(***************************************************************************)
LEMMA ApartMade ==
    ASSUME SignInTyped, ApartInv, NEW q \in Browsers, G!Insert(q)
    PROVE  InTime' /\ G!CodesApart'
<1> DEFINE n == Len(codes) + 1
<1>1. /\ codes' \in Seq(Codes) /\ Len(codes') = n /\ DOMAIN codes' = DOMAIN codes \cup {n} /\ n \notin DOMAIN codes
      /\ codes'[n] = CodeMade(q) /\ \A i \in DOMAIN codes : codes'[i] = codes[i]
    BY Made
<1>2. /\ now \in Nat /\ now' = now /\ Len(codes) \in Nat /\ DOMAIN codes = 1..Len(codes) /\ Len(codes) \in DOMAIN codes
      /\ \A i \in DOMAIN codes : codes[i].made \in Int
    BY CodeRows DEF G!Insert, SignInTyped, Codes
<1>3. codes'[n].made = now /\ codes'[n].crossed = (Len(codes) # sreq[q].seen)
    BY <1>1 DEF CodeMade
<1>4. InTime
    BY DEF ApartInv
<1>5. InTime'
    <2>1. \A i \in DOMAIN codes' : codes'[i].made <= now
        BY <1>1, <1>2, <1>3, <1>4 DEF InTime
    <2>2. ASSUME NEW i \in DOMAIN codes', NEW j \in DOMAIN codes', i <= j PROVE codes'[i].made <= codes'[j].made
        <3>1. CASE j = n
            BY <2>1, <1>3, <3>1
        <3>2. CASE j \in DOMAIN codes
            <4>1. i \in DOMAIN codes
                BY <1>1, <1>2, <2>2, <3>2
            <4> QED BY <1>1, <1>4, <2>2, <3>2, <4>1 DEF InTime
        <3> QED BY <1>1, <3>1, <3>2
    <2> QED BY <1>2, <2>1, <2>2 DEF InTime
<1>6. ASSUME NEW j \in DOMAIN codes, \A i \in 1..j : ~codes'[i].crossed
      PROVE  /\ \A i \in 1..(j - 1) : codes'[j].made - codes'[i].made >= RESEND_COOLDOWN
             /\ G!Cardinality({i \in 1..j : codes'[j].made - codes'[i].made < Hour}) <= MAX_PER_HOUR
             /\ \A i \in 1..(j - 1) : codes'[i].consumed
    <2>0. j \in Nat /\ 1..j \subseteq DOMAIN codes /\ 1..(j - 1) \subseteq DOMAIN codes
        BY <1>2
    <2>1. \A i \in 1..j : ~codes[i].crossed
        BY <1>1, <1>6, <2>0
    <2>2. /\ \A i \in 1..(j - 1) : codes[j].made - codes[i].made >= RESEND_COOLDOWN
          /\ G!Cardinality({i \in 1..j : codes[j].made - codes[i].made < Hour}) <= MAX_PER_HOUR
          /\ \A i \in 1..(j - 1) : codes[i].consumed
        BY <2>1 DEF ApartInv, G!CodesApart
    <2>3. {i \in 1..j : codes'[j].made - codes'[i].made < Hour} = {i \in 1..j : codes[j].made - codes[i].made < Hour}
        BY <1>1, <2>0
    <2> QED BY <1>1, <2>0, <2>2, <2>3
<1>7. ASSUME ~codes'[n].crossed
      PROVE  /\ \A i \in 1..(n - 1) : codes'[n].made - codes'[i].made >= RESEND_COOLDOWN
             /\ G!Cardinality({i \in 1..n : codes'[n].made - codes'[i].made < Hour}) <= MAX_PER_HOUR
             /\ \A i \in 1..(n - 1) : codes'[i].consumed
    <2>1. sreq[q].pc = "insert" /\ sreq[q].seen = Len(codes)
        BY <1>3, <1>7 DEF G!Insert
    <2>2. /\ now - G!LastAt >= RESEND_COOLDOWN /\ Cardinality(G!InHour) < MAX_PER_HOUR
          /\ \A i \in DOMAIN codes : codes[i].consumed
        BY <2>1 DEF ApartInv
    <2>3. 1..(n - 1) = DOMAIN codes
        BY <1>2
    <2>4. \A i \in DOMAIN codes : codes[i].made <= G!LastAt /\ G!LastAt \in Int
        BY <1>2, <1>4 DEF InTime, G!LastAt
    <2>5. \A i \in DOMAIN codes : now - codes[i].made >= RESEND_COOLDOWN
        BY <1>2, <2>2, <2>4, SignInConstants
    <2>6. {i \in 1..n : codes'[n].made - codes'[i].made < Hour} = G!InHour \cup {n}
        <3>1. now - now < Hour
            BY <1>2, SignInConstants
        <3>2. \A i \in 1..n : i \in DOMAIN codes \/ i = n
            BY <1>2
        <3>3. \A i \in DOMAIN codes : i \in 1..n
            BY <1>2
        <3>4. n \in 1..n
            BY <1>2
        <3> QED BY <1>1, <1>3, <3>1, <3>2, <3>3, <3>4 DEF G!InHour
    <2>7. Cardinality(G!InHour \cup {n}) = Cardinality(G!InHour) + 1
        <3>1. n \notin G!InHour
            BY <1>1 DEF G!InHour
        <3> QED BY <3>1, HourFinite, FS_AddElement
    <2>8. Cardinality(G!InHour \cup {n}) <= MAX_PER_HOUR
        BY <2>2, <2>7, HourFinite, SignInConstants
    <2> QED BY <1>1, <1>3, <2>2, <2>3, <2>5, <2>6, <2>8, SameSize
<1>8. G!CodesApart'
    <2> SUFFICES ASSUME NEW j \in DOMAIN codes', \A i \in 1..j : ~codes'[i].crossed
                 PROVE  /\ \A i \in 1..(j - 1) : codes'[j].made - codes'[i].made >= RESEND_COOLDOWN
                        /\ G!Cardinality({i \in 1..j : codes'[j].made - codes'[i].made < Hour}) <= MAX_PER_HOUR
                        /\ \A i \in 1..(j - 1) : codes'[i].consumed
        BY DEF G!CodesApart
    <2>1. CASE j \in DOMAIN codes
        BY <1>6, <2>1
    <2>2. CASE j = n
        <3>1. n \in 1..n
            BY <1>2
        <3>2. ~codes'[n].crossed
            BY <2>2, <3>1
        <3> QED BY <1>7, <2>2, <3>2
    <2> QED BY <1>1, <2>1, <2>2
<1> QED BY <1>5, <1>8

(***************************************************************************)
(* Where the request of a browser is after each of its steps, and what it  *)
(* has with it.                                                            *)
(***************************************************************************)
LEMMA Moved ==
    ASSUME SignInTyped, NEW q \in Browsers, ByBrowser(q)
    PROVE  \/ sreq'[q].pc = "none"
           \/ G!Request(q) /\ sreq'[q].pc = "recent"
           \/ G!Recent(q) /\ sreq'[q].pc = "replace" /\ sreq'[q].seen = Len(codes)
           \/ G!Replace(q) /\ sreq'[q].pc = "insert" /\ sreq'[q].seen = sreq[q].seen
           \/ G!Insert(q) /\ sreq'[q].pc = "sms"
           \/ G!Verify(q) /\ sreq'[q].pc = "read"
           \/ G!ReadRow(q) /\ sreq'[q].pc = "count" /\ sreq'[q].row = Len(codes)
           \/ G!Count(q) /\ sreq'[q].pc = "user"
           \/ /\ G!FindUser(q) /\ sreq'[q].seen = account.writes
              /\ sreq'[q].pc = "burn" \/ (sreq'[q].pc = "consume" /\ account.active)
           \/ G!Consume(q) /\ sreq'[q].pc = "session" /\ sreq'[q].seen = sreq[q].seen
           \/ G!CheckLogin(q) /\ sreq'[q].pc = "session" /\ sreq'[q].seen = sreq[q].seen /\ sreq'[q].word = sreq[q].word
           \/ G!CheckCurrent(q) /\ sreq'[q].pc = "write" /\ sreq'[q].seen = sreq[q].seen /\ sreq'[q].word = sreq[q].word
           \/ G!Login(q) /\ sreq'[q].pc = "compare" /\ sreq'[q].seen = account.writes /\ sreq'[q].read = account.word
           \/ G!ChangePassword(q) /\ sreq'[q].pc = "current" /\ sreq'[q].seen = account.writes /\ sreq'[q].read = account.word
<1> USE DEF Onward, Replacing, Sending, Typing, Reading, Finding, Comparing, Changing
<1>0. sreq[q] \in Requests
    BY DEF SignInTyped
<1>1. \A r : Asks(q, r) => sreq'[q] = r
    BY RequestMoved
<1>2. ASSUME Asks(q, G!NoRequest) PROVE sreq'[q].pc = "none"
    <2>1. sreq'[q] = G!NoRequest
        BY <1>1, <1>2
    <2>2. G!NoRequest.pc = "none"
        BY DEF G!NoRequest
    <2> QED BY <2>1, <2>2
<1>3. CASE G!ChangeNumber(q) \/ G!Logout(q)
    BY <1>3 DEF G!ChangeNumber, G!Logout
<1>4. ASSUME NEW c, Asks(q, Onward(q, c))
      PROVE  sreq'[q].pc = c /\ sreq'[q].seen = sreq[q].seen /\ sreq'[q].word = sreq[q].word
    <2>1. sreq'[q] = Onward(q, c)
        BY <1>1, <1>4
    <2> QED BY <1>0, <2>1 DEF Requests
<1>5. CASE G!Request(q) \/ G!Replace(q) \/ G!Count(q) \/ G!Consume(q) \/ G!CheckLogin(q) \/ G!CheckCurrent(q)
    BY <1>2, <1>4, <1>5, EveryMove, Zenon
<1>6. CASE G!Recent(q)
    <2>1. CASE Asks(q, Replacing(q))
        <3>1. sreq'[q] = Replacing(q)
            BY <1>1, <2>1
        <3>2. sreq'[q].pc = "replace" /\ sreq'[q].seen = Len(codes)
            BY <1>0, <3>1 DEF Requests
        <3> QED BY <1>6, <3>2
    <2> QED BY <1>2, <1>6, <2>1, EveryMove, Zenon
<1>7. CASE G!Insert(q)
    <2>1. sreq'[q] = Sending(q)
        BY <1>1, <1>7, EveryMove, Zenon
    <2>2. sreq'[q].pc = "sms"
        BY <1>0, <2>1 DEF Requests
    <2> QED BY <1>7, <2>2
<1>8. CASE G!Verify(q)
    <2>1. PICK c \in Nat : Asks(q, Typing(q, c))
        BY <1>8, EveryMove, Zenon
    <2>2. sreq'[q] = Typing(q, c)
        BY <1>1, <2>1
    <2>3. sreq'[q].pc = "read"
        BY <1>0, <2>2 DEF Requests
    <2> QED BY <1>8, <2>3
<1>9. CASE G!ReadRow(q)
    <2>1. CASE Asks(q, Reading(q))
        <3>1. sreq'[q] = Reading(q)
            BY <1>1, <2>1
        <3>2. sreq'[q].pc = "count" /\ sreq'[q].row = Len(codes)
            BY <1>0, <3>1 DEF Requests
        <3> QED BY <1>9, <3>2
    <2> QED BY <1>2, <1>9, <2>1, EveryMove, Zenon
<1>10. CASE G!FindUser(q)
    <2>1. sreq'[q] = Finding(q)
        BY <1>1, <1>10, EveryMove, Zenon
    <2>2. sreq'[q].seen = account.writes /\ sreq'[q].pc = IF account.active THEN "consume" ELSE "burn"
        BY <1>0, <2>1 DEF Requests
    <2> QED BY <1>10, <2>2
<1>11. CASE G!SendSms(q) \/ G!WritePassword(q) \/ G!StartSession(q)
    BY <1>2, <1>11, EveryMove, Zenon
<1>12. CASE G!Login(q)
    <2>1. PICK w \in Passwords : Asks(q, Comparing(q, w))
        BY <1>12, EveryMove, Zenon
    <2>2. sreq'[q] = Comparing(q, w)
        BY <1>1, <2>1
    <2>3. sreq'[q].pc = "compare" /\ sreq'[q].seen = account.writes /\ sreq'[q].read = account.word
        BY <1>0, <2>2 DEF Requests
    <2> QED BY <1>12, <2>3
<1>13. CASE G!ChangePassword(q)
    <2>1. PICK w, fresh \in Passwords : Asks(q, Changing(q, w, fresh))
        BY <1>13, EveryMove, Zenon
    <2>2. sreq'[q] = Changing(q, w, fresh)
        BY <1>1, <2>1
    <2>3. sreq'[q].pc = "current" /\ sreq'[q].seen = account.writes /\ sreq'[q].read = account.word
        BY <1>0, <2>2 DEF Requests
    <2> QED BY <1>13, <2>3
<1> QED BY <1>3, <1>5, <1>6, <1>7, <1>8, <1>9, <1>10, <1>11, <1>12, <1>13 DEF ByBrowser, G!ByCode,
    G!ByPassword

(***************************************************************************)
(* A browser's step keeps ApartInv: what a request read of the last code   *)
(* and of the hour still holds when it writes, unless a code was made      *)
(* meanwhile.                                                              *)
(***************************************************************************)
LEMMA ApartStep ==
    ASSUME SignInTyped, UsedInv, ApartInv, NEW q \in Browsers, ByBrowser(q)
    PROVE  ApartInv'
<1> USE DEF Onward, Replacing, Sending, Typing, Reading, Finding, Comparing, Changing
<1>0. now' = now /\ \A p \in Browsers \ {q} : sreq'[p] = sreq[p]
    BY SignInRest, RequestsTyped
<1>1. CASE G!Insert(q)
    <2>1. InTime' /\ G!CodesApart'
        BY <1>1, ApartMade
    <2>2. Len(codes') = Len(codes) + 1 /\ Len(codes) \in Nat
        BY <1>1, Made, CodeRows
    <2>3. sreq[q] \in Requests /\ sreq'[q] = Sending(q)
        BY <1>1, EveryMove, RequestMoved, Zenon DEF SignInTyped
    <2>4. sreq'[q].pc = "sms"
        BY <2>3 DEF Requests
    <2>5. \A p \in Browsers \ {q} : sreq[p].pc \in {"replace", "insert"} => sreq[p].seen <= Len(codes) /\ sreq[p].seen \in Nat
        BY DEF ApartInv, SignInTyped, Requests
    <2> QED BY <1>0, <2>1, <2>2, <2>4, <2>5 DEF ApartInv
<1>2. CASE CodesStay
    <2>1. InTime' /\ G!CodesApart' /\ G!LastAt' = G!LastAt /\ G!InHour' = G!InHour
        BY <1>0, <1>2, ApartStay DEF ApartInv
    <2>2. /\ DOMAIN codes' = DOMAIN codes /\ Len(codes') = Len(codes)
          /\ \A i \in DOMAIN codes : codes[i].consumed => codes'[i].consumed
        BY <1>2 DEF CodesStay
    <2>3. ASSUME NEW p \in Browsers, sreq'[p].pc \in {"replace", "insert"}
          PROVE  /\ sreq'[p].seen <= Len(codes)
                 /\ sreq'[p].seen = Len(codes) =>
                       /\ now - G!LastAt >= RESEND_COOLDOWN /\ Cardinality(G!InHour) < MAX_PER_HOUR
                       /\ sreq'[p].pc = "insert" => \A i \in DOMAIN codes : codes'[i].consumed
        <3>1. CASE p # q
            BY <1>0, <2>2, <2>3, <3>1 DEF ApartInv
        <3>2. CASE p = q /\ G!Recent(q) /\ sreq'[q].pc = "replace" /\ sreq'[q].seen = Len(codes)
            <4>1. ~ (codes # <<>> /\ now - G!LastAt < RESEND_COOLDOWN) /\ ~ (G!Cardinality(G!InHour) >= MAX_PER_HOUR)
                <5>1. ~ G!Answer(q)
                    <6>1. ASSUME G!Answer(q) PROVE FALSE
                        <7>1. Asks(q, G!NoRequest)
                            BY <3>2, <6>1, Answers DEF G!Recent
                        <7>2. sreq'[q] = G!NoRequest
                            BY <7>1, RequestMoved
                        <7>3. G!NoRequest.pc = "none"
                            BY DEF G!NoRequest
                        <7> QED BY <3>2, <7>2, <7>3
                    <6> QED BY <6>1
                <5> QED BY <3>2, <5>1 DEF G!Recent
            <4>2. codes # <<>> /\ now \in Int /\ G!LastAt \in Int /\ RESEND_COOLDOWN \in Int /\ MAX_PER_HOUR \in Nat
                BY SignInConstants, CodeRows DEF SignInTyped, G!LastAt, Codes
            <4>3. now - G!LastAt >= RESEND_COOLDOWN
                BY <4>1, <4>2
            <4>4. Cardinality(G!InHour) < MAX_PER_HOUR
                BY <4>1, <4>2, HourFinite, SameSize
            <4> QED BY <3>2, <4>3, <4>4, CodeRows
        <3>3. CASE p = q /\ G!Replace(q) /\ sreq'[q].pc = "insert" /\ sreq'[q].seen = sreq[q].seen
            <4>1. sreq[q].pc = "replace"
                BY <3>3 DEF G!Replace
            <4>2. \A i \in DOMAIN codes : codes'[i].consumed
                BY <3>3, Replaced
            <4> QED BY <3>3, <4>1, <4>2 DEF ApartInv
        <3> QED BY <2>3, <3>1, <3>2, <3>3, Moved
    <2> QED BY <1>0, <2>1, <2>2, <2>3 DEF ApartInv
<1> QED BY <1>1, <1>2, CodesTyped

(***************************************************************************)
(* The browsers about to count an attempt on a code are no more than the   *)
(* browsers.                                                               *)
(***************************************************************************)
LEMMA CountingCard ==
    ASSUME SignInTyped, NEW i
    PROVE  Counting(i) \subseteq Browsers /\ IsFiniteSet(Counting(i)) /\ Cardinality(Counting(i)) \in Nat
           /\ Cardinality(Counting(i)) <= Cardinality(Browsers)
<1>1. Counting(i) \subseteq Browsers
    BY DEF Counting
<1> QED BY <1>1, SignInConstants, FS_Subset, FS_CardinalityType

(***************************************************************************)
(* The same after a step.                                                  *)
(***************************************************************************)
LEMMA CountingCardNext ==
    ASSUME NEW i
    PROVE  Counting(i)' \subseteq Browsers /\ IsFiniteSet(Counting(i)') /\ Cardinality(Counting(i)') \in Nat
           /\ Cardinality(Counting(i)') <= Cardinality(Browsers)
<1>1. Counting(i)' \subseteq Browsers
    BY DEF Counting
<1> QED BY <1>1, SignInConstants, FS_Subset, FS_CardinalityType

(***************************************************************************)
(* A browser's step keeps AttemptsInv: an attempt is counted by a browser  *)
(* that was about to count it, and a browser begins to only where the      *)
(* limit is not reached.                                                   *)
(***************************************************************************)
LEMMA AttemptsStep ==
    ASSUME SignInTyped, UsedInv, AttemptsInv, NEW q \in Browsers, ByBrowser(q)
    PROVE  AttemptsInv'
<1>0. \A p \in Browsers \ {q} : sreq'[p] = sreq[p]
    BY RequestsTyped
<1>1. \A i \in DOMAIN codes : codes[i].attempts \in Nat /\ codes[i].attempts + Cardinality(Counting(i)) < MAX_ATTEMPTS + Cardinality(Browsers)
    BY CodeRows DEF AttemptsInv, Codes
<1>2. ASSUME NEW i \in DOMAIN codes, Counting(i)' \subseteq Counting(i), codes'[i].attempts = codes[i].attempts
      PROVE  codes'[i].attempts + Cardinality(Counting(i)') < MAX_ATTEMPTS + Cardinality(Browsers)
    <2>1. Cardinality(Counting(i)') <= Cardinality(Counting(i))
        BY <1>2, CountingCard, FS_Subset
    <2> QED BY <1>1, <1>2, <2>1, CountingCard, CountingCardNext, SignInConstants
<1>3. CASE sreq'[q].pc # "count" /\ codes' = codes
    <2>1. \A i \in DOMAIN codes : Counting(i)' \subseteq Counting(i)
        BY <1>0, <1>3 DEF Counting
    <2> QED BY <1>2, <1>3, <2>1 DEF AttemptsInv
<1>4. CASE G!ReadRow(q) /\ sreq'[q].pc = "count" /\ sreq'[q].row = Len(codes)
    <2>1. codes' = codes
        BY <1>4 DEF G!ReadRow
    <2>2. \A i \in DOMAIN codes : i # Len(codes) => Counting(i)' \subseteq Counting(i)
        BY <1>0, <1>4 DEF Counting
    <2>3. codes[Len(codes)].attempts < MAX_ATTEMPTS
        <3>1. ASSUME G!Answer(q) PROVE FALSE
            <4>1. sreq'[q] = G!NoRequest
                BY <1>4, <3>1, Answers, RequestMoved DEF G!ReadRow
            <4>2. G!NoRequest.pc = "none"
                BY DEF G!NoRequest
            <4> QED BY <1>4, <4>1, <4>2
        <3> QED BY <1>4, <3>1 DEF G!ReadRow, G!Usable
    <2>4. codes[Len(codes)].attempts + Cardinality(Counting(Len(codes))') < MAX_ATTEMPTS + Cardinality(Browsers)
        <3>1. Cardinality(Counting(Len(codes))') <= Cardinality(Browsers) /\ Cardinality(Counting(Len(codes))') \in Nat
            <4>1. Counting(Len(codes))' \subseteq Browsers
                BY DEF Counting
            <4> QED BY <4>1, SignInConstants, FS_Subset, FS_CardinalityType
        <3> QED BY <1>1, <2>3, <3>1, CodeRows, SignInConstants
    <2>5. ASSUME NEW i \in DOMAIN codes PROVE codes[i].attempts + Cardinality(Counting(i)') < MAX_ATTEMPTS + Cardinality(Browsers)
        <3>1. CASE i # Len(codes)
            BY <1>2, <2>1, <2>2, <3>1
        <3>2. CASE i = Len(codes)
            <4>1. Counting(i)' = Counting(Len(codes))'
                BY <2>1, <3>2 DEF Counting
            <4> QED BY <2>4, <3>2, <4>1
        <3> QED BY <3>1, <3>2
    <2> QED BY <2>1, <2>5 DEF AttemptsInv
<1>5. CASE G!Count(q) /\ sreq'[q].pc # "count"
    <2>1. /\ CodesStay /\ sreq[q].row \in DOMAIN codes
          /\ codes'[sreq[q].row].attempts = codes[sreq[q].row].attempts + 1
          /\ \A i \in DOMAIN codes : i # sreq[q].row => codes'[i] = codes[i]
        BY <1>5, Tried
    <2>2. \A i \in DOMAIN codes : Counting(i)' \subseteq Counting(i)
        BY <1>0, <1>5 DEF Counting
    <2>3. ASSUME NEW i \in DOMAIN codes, i = sreq[q].row
          PROVE  codes'[i].attempts + Cardinality(Counting(i)') < MAX_ATTEMPTS + Cardinality(Browsers)
        <3>1. q \in Counting(i) /\ q \notin Counting(i)'
            BY <1>5, <2>3 DEF Counting, G!Count
        <3>2. Counting(i)' \subseteq Counting(i) \ {q}
            BY <2>2, <3>1
        <3>3. Cardinality(Counting(i) \ {q}) = Cardinality(Counting(i)) - 1 /\ IsFiniteSet(Counting(i) \ {q})
            BY <3>1, CountingCard, FS_RemoveElement
        <3>4. Cardinality(Counting(i)') <= Cardinality(Counting(i)) - 1
            BY <3>2, <3>3, FS_Subset
        <3>5. codes'[i].attempts = codes[i].attempts + 1
            BY <2>1, <2>3
        <3> QED BY <1>1, <3>4, <3>5, CountingCard, CountingCardNext, SignInConstants
    <2>4. \A i \in DOMAIN codes : codes'[i].attempts + Cardinality(Counting(i)') < MAX_ATTEMPTS + Cardinality(Browsers)
        BY <1>2, <2>1, <2>2, <2>3
    <2>5. DOMAIN codes' = DOMAIN codes
        BY <2>1 DEF CodesStay
    <2> QED BY <2>4, <2>5 DEF AttemptsInv
<1>6. CASE (G!Replace(q) \/ G!Consume(q)) /\ sreq'[q].pc # "count"
    <2>1. CodesStay /\ \A i \in DOMAIN codes : codes'[i].attempts = codes[i].attempts
        BY <1>6, Replaced, UsedUp
    <2>2. \A i \in DOMAIN codes : Counting(i)' \subseteq Counting(i)
        BY <1>0, <1>6 DEF Counting
    <2>3. \A i \in DOMAIN codes : codes'[i].attempts + Cardinality(Counting(i)') < MAX_ATTEMPTS + Cardinality(Browsers)
        BY <1>2, <2>1, <2>2
    <2>4. DOMAIN codes' = DOMAIN codes
        BY <2>1 DEF CodesStay
    <2> QED BY <2>3, <2>4 DEF AttemptsInv
<1>7. CASE G!Insert(q) /\ sreq'[q].pc # "count"
    <2> DEFINE n == Len(codes) + 1
    <2>1. /\ DOMAIN codes' = DOMAIN codes \cup {n} /\ codes'[n] = CodeMade(q) /\ \A i \in DOMAIN codes : codes'[i] = codes[i]
        BY <1>7, Made
    <2>2. \A i \in DOMAIN codes : Counting(i)' \subseteq Counting(i)
        BY <1>0, <1>7 DEF Counting
    <2>3. \A i \in DOMAIN codes : codes'[i].attempts + Cardinality(Counting(i)') < MAX_ATTEMPTS + Cardinality(Browsers)
        BY <1>2, <2>1, <2>2
    <2>4. ASSUME NEW i \in DOMAIN codes', i = n
          PROVE  codes'[i].attempts + Cardinality(Counting(i)') < MAX_ATTEMPTS + Cardinality(Browsers)
        <3>1. codes'[i].attempts = 0
            BY <2>1, <2>4 DEF CodeMade
        <3> QED BY <3>1, CountingCardNext, SignInConstants
    <2>5. \A i \in DOMAIN codes' : codes'[i].attempts + Cardinality(Counting(i)') < MAX_ATTEMPTS + Cardinality(Browsers)
        BY <2>1, <2>3, <2>4
    <2> QED BY <2>5 DEF AttemptsInv
<1>8. \/ codes' = codes \/ G!Replace(q) \/ G!Insert(q) \/ G!Count(q) \/ G!Consume(q)
    BY Zenon DEF ByBrowser, G!ByCode, G!ByPassword, G!Request, G!ChangeNumber, G!Recent, G!SendSms,
        G!Verify, G!ReadRow, G!FindUser, G!Login, G!CheckLogin, G!ChangePassword, G!CheckCurrent,
        G!WritePassword, G!Logout, G!StartSession
<1>9. sreq'[q].pc = "count" => G!ReadRow(q) /\ sreq'[q].row = Len(codes)
    BY Moved
<1> QED BY <1>3, <1>4, <1>5, <1>6, <1>7, <1>8, <1>9

(***************************************************************************)
(* The last code was made at a time that has come.                         *)
(***************************************************************************)
LEMMA LastIs ==
    ASSUME SignInTyped, InTime
    PROVE  G!LastAt \in Int /\ now \in Nat /\ G!LastAt <= now /\ codes # <<>> /\ Len(codes) \in Nat
BY CodeRows DEF SignInTyped, G!LastAt, Codes, InTime

(***************************************************************************)
(* A form of which WaitsInv holds, the newest code having been made at     *)
(* newest.                                                                 *)
(***************************************************************************)
Waits(f, newest) ==
    /\ ~f.refused /\ f.known <= Len(codes)
    /\ f.sent /\ f.known = Len(codes) => f.left + now - newest >= RESEND_COOLDOWN

(***************************************************************************)
(* A form that changes waits as long as the last code demands, and is      *)
(* refused by none it knew of.                                             *)
(***************************************************************************)
LEMMA WaitsOwn ==
    ASSUME SignInTyped, ApartInv, WaitsInv, NEW q \in Browsers, ByBrowser(q), sform' # sform
    PROVE  Waits(sform'[q], G!LastAt) /\ codes' = codes /\ sreq'[q].pc # "recent"
<1>0. /\ sform \in [Browsers -> Askers] /\ sform[q] \in Askers /\ RESEND_COOLDOWN \in Nat /\ RESEND_COOLDOWN > 0
      /\ G!LastAt \in Int /\ now \in Nat /\ G!LastAt <= now /\ codes # <<>> /\ Len(codes) \in Nat /\ Len(codes) > 0
    BY LastIs, SignInConstants DEF SignInTyped, ApartInv
<1>1. ~sform[q].refused
    BY DEF WaitsInv
<1>2. CASE G!StartSession(q) \/ G!ChangeNumber(q)
    <2>1. sform' = [sform EXCEPT ![q] = G!NewForm] /\ codes' = codes
        BY <1>2 DEF G!StartSession, G!ChangeNumber
    <2>2. sform'[q] = G!NewForm
        BY <1>0, <2>1
    <2>3. G!NewForm.sent = FALSE /\ G!NewForm.known = 0 /\ G!NewForm.refused = FALSE
        BY DEF G!NewForm
    <2>4. sreq'[q].pc # "recent"
        <3>1. CASE G!ChangeNumber(q)
            BY <3>1 DEF G!ChangeNumber
        <3>2. CASE G!StartSession(q)
            <4>1. ~ G!Request(q)
                BY <3>2 DEF G!StartSession, G!Request
            <4> QED BY <4>1, Moved
        <3> QED BY <1>2, <3>1, <3>2
    <2> QED BY <1>0, <2>1, <2>2, <2>3, <2>4 DEF Waits
<1>3. ASSUME sform' = [sform EXCEPT ![q].sent = TRUE, ![q].left = RESEND_COOLDOWN, ![q].known = Len(codes)]
      PROVE  Waits(sform'[q], G!LastAt)
    <2>1. sform'[q] = [sform[q] EXCEPT !.sent = TRUE, !.left = RESEND_COOLDOWN, !.known = Len(codes)]
        BY <1>0, <1>3
    <2>2. sform'[q].left = RESEND_COOLDOWN /\ sform'[q].known = Len(codes) /\ sform'[q].refused = sform[q].refused
        BY <1>0, <2>1 DEF Askers
    <2> QED BY <1>0, <1>1, <2>2 DEF Waits
<1>4. CASE G!SendSms(q)
    <2>1. codes' = codes /\ ~ G!Request(q)
        BY <1>4 DEF G!SendSms, G!Request
    <2>2. sform' = [sform EXCEPT ![q].sent = TRUE, ![q].left = RESEND_COOLDOWN, ![q].known = Len(codes)]
        BY <1>4 DEF G!SendSms
    <2> QED BY <1>3, <2>1, <2>2, Moved
<1>5. CASE G!Recent(q)
    <2>1. codes' = codes /\ ~ G!Request(q) /\ sreq[q].pc = "recent" /\ sform[q].left = 0
        BY <1>5 DEF G!Recent, G!Request, WaitsInv
    <2>2. CASE now - G!LastAt < RESEND_COOLDOWN
        <3> DEFINE left1 == RESEND_COOLDOWN - (now - G!LastAt)
                   refused1 == sform[q].sent /\ sform[q].known = Len(codes)
        <3>1. sform' = [sform EXCEPT ![q].sent = TRUE, ![q].left = left1, ![q].known = Len(codes), ![q].refused = refused1]
            BY <1>0, <1>5, <2>2 DEF G!Recent, G!RetryAfter
        <3>2. refused1 = FALSE
            <4>1. refused1 => sform[q].left + now - G!LastAt >= RESEND_COOLDOWN
                BY DEF WaitsInv
            <4> QED BY <1>0, <2>1, <2>2, <4>1
        <3>3. left1 + now - G!LastAt >= RESEND_COOLDOWN
            BY <1>0
        <3> HIDE DEF left1, refused1
        <3>4. sform'[q] = [sform[q] EXCEPT !.sent = TRUE, !.left = left1, !.known = Len(codes), !.refused = refused1]
            BY <1>0, <3>1
        <3>5. sform'[q].left = left1 /\ sform'[q].known = Len(codes) /\ sform'[q].refused = refused1
            BY <1>0, <3>4 DEF Askers
        <3>6. Waits(sform'[q], G!LastAt)
            BY <1>0, <3>2, <3>3, <3>5 DEF Waits
        <3> QED BY <2>1, <3>6, Moved
    <2>3. CASE ~ (now - G!LastAt < RESEND_COOLDOWN)
        <3>1. sform' = [sform EXCEPT ![q].sent = TRUE, ![q].left = RESEND_COOLDOWN, ![q].known = Len(codes)]
            BY <1>5, <2>3, Zenon DEF G!Recent
        <3> QED BY <1>3, <2>1, <3>1, Moved
    <2> QED BY <2>2, <2>3
<1>6. G!StartSession(q) \/ G!ChangeNumber(q) \/ G!Recent(q) \/ G!SendSms(q)
    BY Zenon DEF ByBrowser, G!ByCode, G!ByPassword, G!Request, G!Replace, G!Insert, G!Verify, G!ReadRow,
        G!Count, G!FindUser, G!Consume, G!Login, G!CheckLogin, G!ChangePassword, G!CheckCurrent,
        G!WritePassword, G!Logout
<1> QED BY <1>2, <1>4, <1>5, <1>6

(***************************************************************************)
(* A browser's step keeps WaitsInv: the countdown of a form and the        *)
(* cooldown of requestOtp end together.                                    *)
(***************************************************************************)
LEMMA WaitsStep ==
    ASSUME SignInTyped, ApartInv, WaitsInv, UsedInv, NEW q \in Browsers, ByBrowser(q)
    PROVE  WaitsInv'
<1>0. /\ now' = now /\ \A p \in Browsers \ {q} : sreq'[p] = sreq[p] /\ sform'[p] = sform[p]
    BY SignInRest, RequestsTyped, FormsTyped
<1>1. \A p \in Browsers : Waits(sform[p], G!LastAt) /\ (sreq[p].pc = "recent" => sform[p].left = 0)
    BY DEF WaitsInv, Waits
<1>2. ASSUME NEW p \in Browsers, Waits(sform'[p], G!LastAt), sform'[p].known \in Nat
      PROVE  /\ ~sform'[p].refused /\ sform'[p].known <= Len(codes')
             /\ sform'[p].sent /\ sform'[p].known = Len(codes') => sform'[p].left + now' - G!LastAt' >= RESEND_COOLDOWN
    <2>1. CASE CodesStay
        <3>1. Len(codes') = Len(codes) /\ G!LastAt' = G!LastAt
            BY <1>0, <2>1, ApartStay DEF ApartInv, CodesStay
        <3> QED BY <1>0, <1>2, <3>1 DEF Waits
    <2>2. CASE G!Insert(q)
        <3>1. Len(codes') = Len(codes) + 1 /\ Len(codes) \in Nat
            BY <2>2, Made, CodeRows
        <3> QED BY <1>2, <3>1 DEF Waits
    <2> QED BY <2>1, <2>2, CodesTyped
<1>3. \A p \in Browsers : sform'[p].known \in Nat
    BY FormsTyped DEF Askers
<1>4. CASE sform' = sform
    <2>1. sreq'[q].pc = "recent" => sform'[q].left = 0
        <3>1. G!Request(q) => sform[q].left = 0
            BY DEF G!Request
        <3> QED BY <1>4, <3>1, Moved
    <2>2. \A p \in Browsers : sreq'[p].pc = "recent" => sform'[p].left = 0
        BY <1>0, <1>1, <1>4, <2>1
    <2>3. \A p \in Browsers : Waits(sform'[p], G!LastAt)
        BY <1>1, <1>4
    <2> QED BY <1>2, <1>3, <2>2, <2>3 DEF WaitsInv
<1>5. CASE sform' # sform
    <2>1. Waits(sform'[q], G!LastAt) /\ sreq'[q].pc # "recent"
        BY <1>5, WaitsOwn
    <2>2. \A p \in Browsers : sreq'[p].pc = "recent" => sform'[p].left = 0
        BY <1>0, <1>1, <2>1
    <2>3. \A p \in Browsers : Waits(sform'[p], G!LastAt)
        BY <1>0, <1>1, <2>1
    <2> QED BY <1>2, <1>3, <2>2, <2>3 DEF WaitsInv
<1> QED BY <1>4, <1>5

(***************************************************************************)
(* What ReadInv says of one request.                                       *)
(***************************************************************************)
StillAsRead(r) ==
    /\ r.pc \in {"read", "count", "user", "consume", "burn"} => way = "code"
    /\ r.pc \in {"consume", "session", "compare", "current", "write"} => r.seen <= account.writes
    /\ r.seen = account.writes =>
          /\ r.pc \in {"consume", "session", "compare"} => account.active
          /\ r.pc \in {"compare", "current"} => r.read = account.word
          /\ r.pc = "write" \/ (r.pc = "session" /\ way = "password") => r.word = account.word

(***************************************************************************)
(* The request that has just moved knows the account as it is, unless the  *)
(* account changed after it was read.                                      *)
(***************************************************************************)
LEMMA ReadOwn ==
    ASSUME SignInTyped, ReadInv, NEW q \in Browsers, ByBrowser(q)
    PROVE  StillAsRead(sreq'[q])
<1>0. StillAsRead(sreq[q]) /\ account.writes \in Nat
    BY DEF ReadInv, StillAsRead, SignInTyped
<1>1. CASE sreq'[q].pc \in {"none", "recent", "replace", "insert", "sms"}
    BY <1>1 DEF StillAsRead
<1>2. CASE G!Verify(q) /\ sreq'[q].pc = "read"
    BY <1>2 DEF StillAsRead, G!Verify
<1>3. CASE (G!ReadRow(q) /\ sreq'[q].pc = "count") \/ (G!Count(q) /\ sreq'[q].pc = "user")
    BY <1>0, <1>3 DEF StillAsRead, G!ReadRow, G!Count
<1>4. CASE G!FindUser(q) /\ sreq'[q].seen = account.writes /\ (sreq'[q].pc = "burn" \/ (sreq'[q].pc = "consume" /\ account.active))
    BY <1>0, <1>4 DEF StillAsRead, G!FindUser
<1>5. CASE G!Consume(q) /\ sreq'[q].pc = "session" /\ sreq'[q].seen = sreq[q].seen
    <2>1. sreq[q].pc = "consume"
        <3>1. ASSUME sreq[q].pc = "burn" PROVE FALSE
            <4>1. Asks(q, G!NoRequest)
                BY <1>5, <3>1, Answers DEF G!Consume
            <4>2. sreq'[q] = G!NoRequest
                BY <4>1, RequestMoved
            <4>3. G!NoRequest.pc = "none"
                BY DEF G!NoRequest
            <4> QED BY <1>5, <4>2, <4>3
        <3> QED BY <1>5, <3>1 DEF G!Consume
    <2> QED BY <1>0, <1>5, <2>1 DEF StillAsRead
<1>6. CASE G!CheckLogin(q) /\ sreq'[q].pc = "session" /\ sreq'[q].seen = sreq[q].seen /\ sreq'[q].word = sreq[q].word
    <2>1. sreq[q].pc = "compare"
        BY <1>6 DEF G!CheckLogin
    <2>2. sreq[q].word = sreq[q].read
        <3>1. ASSUME G!Answer(q) PROVE FALSE
            <4>1. sreq'[q] = G!NoRequest
                BY <1>6, <3>1, Answers, RequestMoved DEF G!CheckLogin
            <4>2. G!NoRequest.pc = "none"
                BY DEF G!NoRequest
            <4> QED BY <1>6, <4>1, <4>2
        <3> QED BY <1>6, <3>1 DEF G!CheckLogin, G!VerifyPassword
    <2> QED BY <1>0, <1>6, <2>1, <2>2 DEF StillAsRead
<1>7. CASE G!CheckCurrent(q) /\ sreq'[q].pc = "write" /\ sreq'[q].seen = sreq[q].seen /\ sreq'[q].word = sreq[q].word
    <2>1. sreq[q].pc = "current"
        BY <1>7 DEF G!CheckCurrent
    <2>2. sreq[q].word = sreq[q].read
        <3>1. ASSUME G!Answer(q) PROVE FALSE
            <4>1. sreq'[q] = G!NoRequest
                BY <1>7, <3>1, Answers, RequestMoved DEF G!CheckCurrent
            <4>2. G!NoRequest.pc = "none"
                BY DEF G!NoRequest
            <4> QED BY <1>7, <4>1, <4>2
        <3> QED BY <1>7, <3>1 DEF G!CheckCurrent, G!VerifyPassword
    <2> QED BY <1>0, <1>7, <2>1, <2>2 DEF StillAsRead
<1>8. CASE G!Login(q) /\ sreq'[q].pc = "compare" /\ sreq'[q].seen = account.writes /\ sreq'[q].read = account.word
    BY <1>0, <1>8 DEF StillAsRead, G!Login
<1>9. CASE G!ChangePassword(q) /\ sreq'[q].pc = "current" /\ sreq'[q].seen = account.writes /\ sreq'[q].read = account.word
    BY <1>0, <1>9 DEF StillAsRead
<1> QED BY <1>1, <1>2, <1>3, <1>4, <1>5, <1>6, <1>7, <1>8, <1>9, Moved

(***************************************************************************)
(* A browser's step keeps ReadInv: a request that read an earlier account  *)
(* can be told by the number of changes.                                   *)
(***************************************************************************)
LEMMA ReadStep ==
    ASSUME SignInTyped, ReadInv, NEW q \in Browsers, ByBrowser(q)
    PROVE  ReadInv'
<1>0. way' = way /\ \A p \in Browsers \ {q} : sreq'[p] = sreq[p]
    BY SignInRest, RequestsTyped
<1>1. \A p \in Browsers : StillAsRead(sreq'[p])
    <2>1. \A p \in Browsers \ {q} : StillAsRead(sreq'[p])
        BY <1>0 DEF ReadInv, StillAsRead
    <2> QED BY <2>1, ReadOwn
<1>2. CASE account' = account
    BY <1>0, <1>1, <1>2 DEF StillAsRead, ReadInv
<1>3. CASE account'.writes = account.writes + 1 /\ account' # account
    <2>1. G!WritePassword(q) /\ account.writes \in Nat
        BY <1>3, Zenon DEF ByBrowser, G!ByCode, G!ByPassword, G!Request, G!ChangeNumber, G!Recent,
            G!Replace, G!Insert, G!SendSms, G!Verify, G!ReadRow, G!Count, G!FindUser, G!Consume,
            G!Login, G!CheckLogin, G!ChangePassword, G!CheckCurrent, G!Logout, G!StartSession,
            SignInTyped
    <2>2. \A p \in Browsers : sreq'[p].seen \in Nat
        BY RequestsTyped DEF Requests
    <2>3. \A p \in Browsers :
              /\ sreq'[p].pc \in {"read", "count", "user", "consume", "burn"} => way' = "code"
              /\ sreq'[p].pc \in {"consume", "session", "compare", "current", "write"} =>
                    sreq'[p].seen <= account'.writes /\ sreq'[p].seen # account'.writes
        BY <1>0, <1>1, <1>3, <2>1, <2>2 DEF StillAsRead
    <2> QED BY <2>3 DEF ReadInv
<1> QED BY <1>2, <1>3, AccountTyped

(***************************************************************************)
(* Time keeps SignInInv: each form counts down by what the cooldown falls. *)
(***************************************************************************)
LEMMA SignInTickStep == ASSUME SignInInv, G!Tick PROVE SignInInv'
<1>0. /\ now' = now + 1 /\ now \in Nat
      /\ sform' = [p \in Browsers |-> [sform[p] EXCEPT !.left = IF sform[p].left > 0 THEN sform[p].left - 1 ELSE 0]]
      /\ UNCHANGED <<way, next, account, codes, sreq, opensession, opened>>
    BY DEF G!Tick, SignInInv, SignInTyped
<1>1. SignInTyped /\ UsedInv /\ ApartInv /\ AttemptsInv /\ WaitsInv /\ ReadInv
    BY DEF SignInInv
<1>2. /\ G!LastAt \in Int /\ G!LastAt <= now /\ Len(codes) \in Nat /\ RESEND_COOLDOWN \in Nat /\ Hour \in Nat
      /\ MAX_PER_HOUR \in Nat
    BY <1>1, LastIs, SignInConstants DEF ApartInv
<1>3. ASSUME NEW p \in Browsers
      PROVE  /\ sform'[p] \in Askers /\ sform'[p].sent = sform[p].sent /\ sform'[p].known = sform[p].known
             /\ sform'[p].refused = sform[p].refused /\ sform'[p].left + 1 >= sform[p].left
             /\ sform[p].left = 0 => sform'[p].left = 0
    <2>1. sform[p] \in Askers
        BY <1>1 DEF SignInTyped
    <2>2. PICK n \in Nat : n = IF sform[p].left > 0 THEN sform[p].left - 1 ELSE 0
        BY <2>1 DEF Askers
    <2>3. sform'[p] = [sform[p] EXCEPT !.left = n]
        BY <1>0, <2>2
    <2>4. n + 1 >= sform[p].left /\ (sform[p].left = 0 => n = 0)
        BY <2>1, <2>2 DEF Askers
    <2> QED BY <2>1, <2>3, <2>4 DEF Askers
<1>4. SignInTyped'
    <2>1. sform' \in [Browsers -> Askers]
        <3> HIDE DEF Askers
        <3> QED BY <1>0, <1>3
    <2>2. now' \in Nat /\ Seats' = Seats /\ G!Middleware' = G!Middleware
        BY <1>0 DEF Seats, G!Token, G!SignedOut, G!GoHome, G!Middleware
    <2>3. /\ way \in {"code", "password"} /\ next \in G!Middleware
          /\ account \in Accounts
          /\ codes \in Seq(Codes) /\ Len(codes) > 0
          /\ sreq \in [Browsers -> Requests]
          /\ opensession \in [Browsers -> Seats]
          /\ \A q \in Browsers :
                /\ sreq[q].pc \in {"compare", "current", "write"} => way = "password"
                /\ sreq[q].pc \in {"current", "write"} => sreq[q].new \in Passwords
        BY <1>1 DEF SignInTyped, Accounts
    <2> HIDE DEF Codes, Askers, Requests, Seats, Accounts
    <2> QED BY <1>0, <2>1, <2>2, <2>3 DEF SignInTyped, Accounts
<1>5. UsedInv' /\ ReadInv'
    BY <1>0, <1>1 DEF UsedInv, ReadInv
<1>6. G!LastAt' = G!LastAt /\ InTime' /\ G!CodesApart'
    <2>1. InTime'
        <3>1. \A i \in DOMAIN codes : codes[i].made \in Int
            BY <1>1, CodeRows DEF Codes
        <3> QED BY <1>0, <1>1, <3>1 DEF InTime, ApartInv
    <2> QED BY <1>0, <1>1, <2>1 DEF G!LastAt, ApartInv, G!CodesApart
<1>7. Cardinality(G!InHour') <= Cardinality(G!InHour) /\ Cardinality(G!InHour') \in Nat
    <2>1. \A i \in DOMAIN codes : codes[i].made \in Int
        BY <1>1, CodeRows DEF Codes
    <2>2. G!InHour' \subseteq G!InHour
        BY <1>0, <1>2, <2>1 DEF G!InHour
    <2>3. IsFiniteSet(G!InHour) /\ IsFiniteSet(G!InHour')
        BY <1>1, <2>2, HourFinite, FS_Subset
    <2> QED BY <2>2, <2>3, FS_Subset, FS_CardinalityType
<1>8. ApartInv'
    <2>1. Cardinality(G!InHour) < MAX_PER_HOUR => Cardinality(G!InHour') < MAX_PER_HOUR
        BY <1>1, <1>2, <1>7, HourFinite
    <2>2. now - G!LastAt >= RESEND_COOLDOWN => now' - G!LastAt >= RESEND_COOLDOWN
        BY <1>0, <1>2
    <2> QED BY <1>0, <1>1, <1>6, <2>1, <2>2 DEF ApartInv
<1>9. AttemptsInv'
    <2>1. \A i : Counting(i)' = Counting(i)
        BY <1>0 DEF Counting
    <2> QED BY <1>0, <1>1, <2>1 DEF AttemptsInv
<1>10. WaitsInv'
    <2>1. ASSUME NEW p \in Browsers
          PROVE  /\ ~sform'[p].refused /\ sform'[p].known <= Len(codes)
                 /\ sform'[p].sent /\ sform'[p].known = Len(codes) => sform'[p].left + now' - G!LastAt >= RESEND_COOLDOWN
                 /\ sreq[p].pc = "recent" => sform'[p].left = 0
        <3>1. /\ ~sform[p].refused /\ sform[p].known <= Len(codes)
              /\ sform[p].sent /\ sform[p].known = Len(codes) => sform[p].left + now - G!LastAt >= RESEND_COOLDOWN
              /\ sreq[p].pc = "recent" => sform[p].left = 0
              /\ sform[p].left \in Nat /\ sform'[p].left \in Nat
            BY <1>1, <1>3 DEF WaitsInv, SignInTyped, Askers
        <3>2. /\ sform'[p].sent = sform[p].sent /\ sform'[p].known = sform[p].known /\ sform'[p].refused = sform[p].refused
              /\ sform'[p].left + 1 >= sform[p].left /\ (sform[p].left = 0 => sform'[p].left = 0)
            BY <1>3
        <3>3. sform[p].left + now - G!LastAt >= RESEND_COOLDOWN => sform'[p].left + now' - G!LastAt >= RESEND_COOLDOWN
            BY <1>0, <1>2, <3>1, <3>2
        <3> QED BY <3>1, <3>2, <3>3
    <2> QED BY <1>0, <1>6, <2>1 DEF WaitsInv
<1> QED BY <1>4, <1>5, <1>8, <1>9, <1>10 DEF SignInInv

(***************************************************************************)
(* An admin's change of the account keeps SignInInv: every request that    *)
(* had read it has an older number.                                        *)
(***************************************************************************)
LEMMA SignInAdminStep == ASSUME SignInInv, G!Admin PROVE SignInInv'
<1>0. /\ UNCHANGED <<way, next, now, codes, sform, sreq, opensession, opened>>
      /\ G!Deactivate \/ G!GiveLogin
    BY DEF G!Admin
<1>1. SignInTyped /\ UsedInv /\ ApartInv /\ AttemptsInv /\ WaitsInv /\ ReadInv
    BY DEF SignInInv
<1>2. account \in Accounts
    BY <1>1 DEF SignInTyped, Accounts
<1>3. PICK n \in Nat : n = account.writes + 1
    BY <1>2 DEF Accounts
<1>4. account' \in Accounts /\ account'.role = account.role /\ account'.writes = account.writes + 1
    <2>1. CASE G!Deactivate
        <3>1. account' = [account EXCEPT !.active = FALSE, !.writes = n]
            BY <1>3, <2>1 DEF G!Deactivate
        <3> QED BY <1>2, <1>3, <3>1 DEF Accounts
    <2>2. CASE G!GiveLogin
        <3>1. PICK w \in Passwords : account' = [account EXCEPT !.active = TRUE, !.word = w, !.writes = n]
            BY <1>3, <2>2, SignInConstants, Zenon DEF G!GiveLogin
        <3> QED BY <1>2, <1>3, <3>1 DEF Accounts
    <2> QED BY <1>0, <2>1, <2>2
<1>5. SignInTyped'
    <2>1. Seats' = Seats /\ G!Middleware' = G!Middleware
        BY <1>0, <1>4 DEF Seats, G!Token, G!SignedOut, G!GoHome, G!Middleware
    <2>2. /\ way \in {"code", "password"} /\ next \in G!Middleware /\ now \in Nat
          /\ codes \in Seq(Codes) /\ Len(codes) > 0
          /\ sform \in [Browsers -> Askers] /\ sreq \in [Browsers -> Requests]
          /\ opensession \in [Browsers -> Seats]
          /\ \A q \in Browsers :
                /\ sreq[q].pc \in {"compare", "current", "write"} => way = "password"
                /\ sreq[q].pc \in {"current", "write"} => sreq[q].new \in Passwords
        BY <1>1 DEF SignInTyped
    <2> HIDE DEF Codes, Askers, Requests, Seats, Accounts
    <2> QED BY <1>0, <1>4, <2>1, <2>2 DEF SignInTyped, Accounts
<1>6. UsedInv' /\ WaitsInv'
    BY <1>0, <1>1 DEF UsedInv, WaitsInv, G!LastAt
<1>7. ApartInv'
    BY <1>0, <1>1 DEF ApartInv, InTime, G!CodesApart, G!LastAt, G!InHour
<1>8. AttemptsInv'
    <2>1. \A i : Counting(i)' = Counting(i)
        BY <1>0 DEF Counting
    <2> QED BY <1>0, <1>1, <2>1 DEF AttemptsInv
<1>9. ReadInv'
    <2>1. \A p \in Browsers : sreq[p].seen \in Nat
        BY <1>1 DEF SignInTyped, Requests
    <2>2. account.writes \in Nat
        BY <1>2 DEF Accounts
    <2>3. \A p \in Browsers :
              /\ sreq[p].pc \in {"read", "count", "user", "consume", "burn"} => way = "code"
              /\ sreq[p].pc \in {"consume", "session", "compare", "current", "write"} =>
                    sreq[p].seen <= account'.writes /\ sreq[p].seen # account'.writes
        BY <1>1, <1>4, <2>1, <2>2 DEF ReadInv
    <2> QED BY <1>0, <2>3 DEF ReadInv
<1> QED BY <1>5, <1>6, <1>7, <1>8, <1>9 DEF SignInInv

(***************************************************************************)
(* A restart keeps SignInInv: the requests under way are gone, and the     *)
(* rows stay.                                                              *)
(***************************************************************************)
LEMMA SignInRestartStep == ASSUME SignInInv, G!Restart PROVE SignInInv'
<1>0. /\ UNCHANGED <<way, next, now, account, codes, sform, opensession, opened>>
      /\ sreq' = [p \in Browsers |-> G!NoRequest]
    BY DEF G!Restart
<1>1. SignInTyped /\ UsedInv /\ ApartInv /\ AttemptsInv /\ WaitsInv /\ ReadInv
    BY DEF SignInInv
<1>2. G!NoRequest \in Requests /\ G!NoRequest.pc = "none" /\ G!NoRequest.spent = FALSE
    BY DEF G!NoRequest, Requests, Stages, Phrases
<1>3. \A p \in Browsers : sreq'[p].pc = "none" /\ ~sreq'[p].spent
    BY <1>0, <1>2
<1>4. SignInTyped'
    <2>1. Seats' = Seats /\ G!Middleware' = G!Middleware
        BY <1>0 DEF Seats, G!Token, G!SignedOut, G!GoHome, G!Middleware
    <2>2. /\ way \in {"code", "password"} /\ next \in G!Middleware /\ now \in Nat
          /\ codes \in Seq(Codes) /\ Len(codes) > 0 /\ account \in Accounts
          /\ sform \in [Browsers -> Askers]
          /\ opensession \in [Browsers -> Seats]
        BY <1>1 DEF SignInTyped, Accounts
    <2>3. sreq' \in [Browsers -> Requests]
        <3> HIDE DEF Requests
        <3> QED BY <1>0, <1>2
    <2> HIDE DEF Codes, Askers, Requests, Seats, Accounts
    <2> QED BY <1>0, <1>3, <2>1, <2>2, <2>3 DEF SignInTyped, Accounts
<1>5. UsedInv' /\ WaitsInv' /\ ReadInv'
    BY <1>0, <1>1, <1>3 DEF UsedInv, WaitsInv, ReadInv, G!LastAt
<1>6. ApartInv'
    BY <1>0, <1>1, <1>3 DEF ApartInv, InTime, G!CodesApart
<1>7. AttemptsInv'
    <2>1. ASSUME NEW i \in DOMAIN codes PROVE Counting(i)' \subseteq Counting(i)
        BY <1>3 DEF Counting
    <2>2. ASSUME NEW i \in DOMAIN codes PROVE codes[i].attempts + Cardinality(Counting(i)') < MAX_ATTEMPTS + Cardinality(Browsers)
        <3>1. Cardinality(Counting(i)') <= Cardinality(Counting(i))
            BY <1>1, <2>1, CountingCard, FS_Subset
        <3>2. codes[i].attempts \in Nat /\ codes[i].attempts + Cardinality(Counting(i)) < MAX_ATTEMPTS + Cardinality(Browsers)
            BY <1>1, CodeRows DEF AttemptsInv, Codes
        <3> QED BY <1>1, <3>1, <3>2, CountingCard, CountingCardNext, SignInConstants
    <2> QED BY <1>0, <2>2 DEF AttemptsInv
<1> QED BY <1>4, <1>5, <1>6, <1>7 DEF SignInInv

(***************************************************************************)
(* Every step keeps SignInInv.                                             *)
(***************************************************************************)
LEMMA SignInStep == ASSUME SignInInv, G!Next PROVE SignInInv'
<1>1. ASSUME NEW q \in Browsers, ByBrowser(q) PROVE SignInInv'
    BY <1>1, SignInTypedStep, UsedStep, ApartStep, AttemptsStep, WaitsStep, ReadStep DEF SignInInv
<1> QED BY <1>1, SignInTickStep, SignInAdminStep, SignInRestartStep DEF G!Next, ByBrowser

(***************************************************************************)
(* What SignInInv says entails SignInHolds: one use of a code, codes       *)
(* apart, attempts bounded, buttons that wait, accounts as read, and a     *)
(* page whose routes answer.                                               *)
(***************************************************************************)
LEMMA SignInFollows == ASSUME SignInInv PROVE G!SignInHolds
<1>1. SignInTyped /\ UsedInv /\ ApartInv /\ AttemptsInv /\ WaitsInv /\ ReadInv
    BY DEF SignInInv
<1>2. G!UsedOnce /\ G!CodesApart /\ G!WaitsEnough
    BY <1>1 DEF G!UsedOnce, UsedInv, ApartInv, G!WaitsEnough, WaitsInv
<1>3. G!AttemptsBounded
    <2>1. ASSUME NEW i \in DOMAIN codes PROVE codes[i].attempts < MAX_ATTEMPTS + Cardinality(Browsers)
        <3>1. codes[i].attempts \in Nat /\ codes[i].attempts + Cardinality(Counting(i)) < MAX_ATTEMPTS + Cardinality(Browsers)
            BY <1>1, CodeRows DEF AttemptsInv, Codes
        <3> QED BY <1>1, <3>1, CountingCard, SignInConstants
    <2> QED BY <2>1, SameSize DEF G!AttemptsBounded
<1>4. G!AsRead
    BY <1>1 DEF G!AsRead, ReadInv
<1>5. G!LandsHome
    <2> SUFFICES ASSUME NEW q \in Browsers, G!SignedIn(q)
                 PROVE  G!Serves(opensession[q].role, opensession[q].at) \/ (opensession[q].role = "admin" /\ next = "portal")
        BY DEF G!LandsHome
    <2>1. opensession[q] = G!Token(account.role) /\ account.role \in {"customer", "admin"} /\ next \in {"none", "panel", "portal"}
        BY <1>1 DEF SignInTyped, Seats, G!SignedIn, G!SignedOut, G!Middleware
    <2>2. opensession[q].role = account.role /\ opensession[q].at = G!GoHome
        BY <2>1 DEF G!Token
    <2> QED BY <2>1, <2>2 DEF G!Serves, G!GoHome
<1> QED BY <1>2, <1>3, <1>4, <1>5 DEF G!SignInHolds

(***************************************************************************)
(* SignInInv at the start, with one code of the hour before.               *)
(***************************************************************************)
LEMMA SignInInit == ASSUME G!Init PROVE SignInInv
<1>0. /\ G!First \in Passwords /\ RESEND_COOLDOWN \in Nat /\ Hour \in Nat /\ MAX_ATTEMPTS \in Nat /\ MAX_PER_HOUR \in Nat
      /\ RESEND_COOLDOWN > 0 /\ Hour > 0 /\ MAX_ATTEMPTS > 0 /\ MAX_PER_HOUR > 0
    BY SignInConstants
<1>1. /\ codes = <<G!Earlier>> /\ now = 0 /\ opened = {}
      /\ sform = [p \in Browsers |-> G!NewForm] /\ sreq = [p \in Browsers |-> G!NoRequest]
      /\ opensession = [p \in Browsers |-> G!SignedOut]
    BY DEF G!Init
<1>2. /\ G!Earlier \in Codes /\ G!Earlier.made = 0 - 1 /\ G!Earlier.attempts = 1 /\ G!Earlier.crossed = FALSE /\ G!Earlier.consumed
    BY DEF G!Earlier, Codes
<1>3. codes \in Seq(Codes) /\ Len(codes) = 1 /\ DOMAIN codes = {1} /\ codes[1] = G!Earlier
    <2> HIDE DEF Codes
    <2> QED BY <1>1, <1>2
<1>4. /\ G!NoRequest \in Requests /\ G!NoRequest.pc = "none" /\ G!NoRequest.spent = FALSE
      /\ G!NewForm \in Askers /\ G!NewForm.sent = FALSE /\ G!NewForm.known = 0 /\ G!NewForm.refused = FALSE
    BY DEF G!NoRequest, Requests, Stages, Phrases, G!NewForm, Askers
<1>5. account \in Accounts
    BY <1>0 DEF G!Init, Accounts
<1>6. way \in {"code", "password"} /\ next \in G!Middleware
    BY DEF G!Init, G!Middleware
<1>7. \A p \in Browsers : sreq[p].pc = "none" /\ ~sreq[p].spent /\ sform[p].sent = FALSE /\ sform[p].known = 0 /\ ~sform[p].refused
    BY <1>1, <1>4
<1>8. SignInTyped
    <2>1. G!SignedOut \in Seats
        BY DEF Seats
    <2>2. sform \in [Browsers -> Askers] /\ sreq \in [Browsers -> Requests] /\ opensession \in [Browsers -> Seats]
        <3> HIDE DEF Askers, Requests, Seats
        <3> QED BY <1>1, <1>4, <2>1
    <2> HIDE DEF Codes, Askers, Requests, Seats, Accounts
    <2> QED BY <1>1, <1>3, <1>5, <1>6, <1>7, <2>2 DEF SignInTyped, Accounts
<1>9. UsedInv /\ WaitsInv /\ ReadInv
    BY <1>1, <1>3, <1>7 DEF UsedInv, WaitsInv, ReadInv
<1>10. ApartInv
    <2>1. InTime
        BY <1>1, <1>2, <1>3 DEF InTime
    <2>2. G!CodesApart
        <3> SUFFICES ASSUME NEW j \in DOMAIN codes
                     PROVE  /\ \A i \in 1..(j - 1) : codes[j].made - codes[i].made >= RESEND_COOLDOWN
                            /\ G!Cardinality({i \in 1..j : codes[j].made - codes[i].made < Hour}) <= MAX_PER_HOUR
                            /\ \A i \in 1..(j - 1) : codes[i].consumed
            BY DEF G!CodesApart
        <3>1. j = 1 /\ 1..(j - 1) = {} /\ 1..j = {1}
            BY <1>3
        <3>2. {i \in 1..j : codes[j].made - codes[i].made < Hour} \subseteq {1}
            BY <3>1
        <3>3. Cardinality({1}) = 1 /\ IsFiniteSet({1})
            BY FS_Singleton
        <3>4. Cardinality({i \in 1..j : codes[j].made - codes[i].made < Hour}) <= 1
              /\ Cardinality({i \in 1..j : codes[j].made - codes[i].made < Hour}) \in Nat
            BY <3>2, <3>3, FS_Subset, FS_CardinalityType
        <3> QED BY <1>0, <3>1, <3>4, SameSize
    <2> QED BY <1>7, <2>1, <2>2 DEF ApartInv
<1>11. AttemptsInv
    <2>1. Counting(1) = {}
        BY <1>7 DEF Counting
    <2>2. Cardinality(Counting(1)) = 0
        BY <2>1, FS_EmptySet
    <2>3. codes[1].attempts = 1
        BY <1>2, <1>3
    <2>4. Cardinality(Browsers) \in Nat /\ Cardinality(Browsers) > 0
        BY SignInConstants
    <2> QED BY <1>0, <1>3, <2>2, <2>3, <2>4 DEF AttemptsInv
<1> QED BY <1>8, <1>9, <1>10, <1>11 DEF SignInInv

(***************************************************************************)
(* The times of a key, its entry in the Map, and those of its times that   *)
(* count in its window.                                                    *)
(***************************************************************************)
Hits == [at : Int, nr : Nat]
Buckets == [place : Nat, hits : SUBSET Hits]
Counted(q) == {h \in buckets[q].hits : R!Counts(h.at, WindowOf[q])}

(***************************************************************************)
(* What holds of one key: the times it was let in at are within its        *)
(* window, its counted times are among them, and if it was not dropped     *)
(* they are the same and no more than its limit. A key without a place has *)
(* no times.                                                               *)
(***************************************************************************)
KeyHeld(q) ==
    /\ IsFiniteSet(admitted[q]) /\ IsFiniteSet(buckets[q].hits)
    /\ \A h \in admitted[q] : clock - h.at < WindowOf[q]
    /\ \A h \in Counted(q) : \E g \in admitted[q] : g.at = h.at
    /\ ~forgotten[q] => Counted(q) = admitted[q] /\ Cardinality(admitted[q]) <= LimitOf[q]
    /\ buckets[q].place = 0 => buckets[q].hits = {}
LimiterTyped ==
    /\ clock \in Nat /\ admitted \in [Asked -> SUBSET Hits] /\ forgotten \in [Asked -> BOOLEAN]
    /\ buckets \in [Asked -> Buckets]

(***************************************************************************)
(* The inductive form of LimiterHolds.                                     *)
(***************************************************************************)
LimiterInv == LimiterTyped /\ (\A q \in Asked : KeyHeld(q)) /\ Cardinality(R!Held) <= MAX_KEYS + 1

(***************************************************************************)
(* The instance of RateLimit counts as FiniteSets does.                    *)
(***************************************************************************)
LEMMA SameCount == \A set : R!Cardinality(set) = Cardinality(set)
BY DEF Cardinality, R!Cardinality, IsFiniteSet, R!IsFiniteSet

(***************************************************************************)
(* What the assumption on the constants says of the limits, the windows,   *)
(* the addresses and the cap.                                              *)
(***************************************************************************)
LEMMA LimiterConstants ==
    /\ LimitOf \in [Asked -> Nat \ {0}] /\ WindowOf \in [Asked -> Nat \ {0}] /\ IsFiniteSet(Asked) /\ MAX_KEYS \in Nat
<1>1. R!RateLimitAssumption
    BY OfficeAssumption DEF OfficeAssumption
<1>2. R!IsFiniteSet(Asked) <=> IsFiniteSet(Asked)
    BY DEF IsFiniteSet, R!IsFiniteSet
<1> QED BY <1>1, <1>2 DEF R!RateLimitAssumption

(***************************************************************************)
(* After a cleaning no more keys are left than the cap: the one that was   *)
(* put there first has, with those after it, no more than the cap, and     *)
(* none before it is left.                                                 *)
(***************************************************************************)
LEMMA KeptFew ==
    ASSUME LimiterTyped, NEW window
    PROVE  /\ R!Kept(window) \subseteq R!Held /\ IsFiniteSet(R!Kept(window))
           /\ Cardinality(R!Kept(window)) \in Nat /\ Cardinality(R!Kept(window)) <= MAX_KEYS
<1> DEFINE kept == R!Kept(window)
           live == {q \in R!Held : R!Alive(buckets[q], window)}
<1>0. R!Held \subseteq Asked /\ IsFiniteSet(Asked) /\ MAX_KEYS \in Nat
    BY LimiterConstants DEF R!Held
<1>1. IsFiniteSet(R!Held) /\ live \subseteq R!Held
    BY <1>0, FS_Subset
<1>2. kept = IF Cardinality(R!Held) <= MAX_KEYS THEN R!Held ELSE {q \in live : Cardinality(R!NotBefore(q, live)) <= MAX_KEYS}
    BY SameCount DEF R!Kept
<1> HIDE DEF kept, live
<1>3. kept \subseteq R!Held
    BY <1>1, <1>2
<1>4. IsFiniteSet(kept) /\ Cardinality(kept) \in Nat
    BY <1>1, <1>3, FS_Subset, FS_CardinalityType
<1>5. Cardinality(kept) <= MAX_KEYS
    <2>1. CASE kept = {}
        BY <1>0, <2>1, FS_EmptySet
    <2>2. CASE kept # {} /\ ~ (Cardinality(R!Held) <= MAX_KEYS)
        <3> DEFINE places == {buckets[q].place : q \in kept}
        <3>1. \A q \in kept : buckets[q].place \in Nat
            BY <1>0, <1>3 DEF LimiterTyped, Buckets
        <3>2. places \in SUBSET Nat /\ places # {}
            BY <2>2, <3>1
        <3>3. PICK p \in places : \A n \in places : p <= n
            <4> HIDE DEF places
            <4> QED BY <3>2, Least
        <3>4. PICK q \in kept : buckets[q].place = p
            BY <3>3
        <3>5. kept = {j \in live : Cardinality(R!NotBefore(j, live)) <= MAX_KEYS}
            BY <1>2, <2>2
        <3>6. q \in live /\ kept \subseteq live /\ Cardinality(R!NotBefore(q, live)) <= MAX_KEYS
            BY <3>4, <3>5
        <3>7. kept \subseteq R!NotBefore(q, live) /\ R!NotBefore(q, live) \subseteq live
            BY <3>1, <3>3, <3>4, <3>6 DEF R!NotBefore
        <3>8. IsFiniteSet(R!NotBefore(q, live))
            BY <1>1, <3>7, FS_Subset
        <3>9. Cardinality(kept) <= Cardinality(R!NotBefore(q, live)) /\ Cardinality(R!NotBefore(q, live)) \in Nat
            BY <3>7, <3>8, FS_Subset, FS_CardinalityType
        <3> QED BY <1>0, <1>4, <3>6, <3>9
    <2>3. CASE Cardinality(R!Held) <= MAX_KEYS
        BY <1>2, <2>3
    <2> QED BY <2>1, <2>2, <2>3
<1> QED BY <1>3, <1>4, <1>5 DEF kept

(***************************************************************************)
(* A set with one element more can be counted, and counts at most one      *)
(* more.                                                                   *)
(***************************************************************************)
LEMMA OneMore ==
    ASSUME NEW X, NEW h, IsFiniteSet(X)
    PROVE  IsFiniteSet(X \cup {h}) /\ Cardinality(X \cup {h}) \in Nat /\ Cardinality(X \cup {h}) <= Cardinality(X) + 1
<1>1. IsFiniteSet(X \cup {h})
    BY FS_AddElement
<1>2. Cardinality(X) \in Nat /\ Cardinality(X \cup {h}) \in Nat
    BY <1>1, FS_CardinalityType
<1>3. Cardinality(X \cup {h}) = IF h \in X THEN Cardinality(X) ELSE Cardinality(X) + 1
    BY FS_AddElement
<1> QED BY <1>1, <1>2, <1>3

(***************************************************************************)
(* A time that is pushed is the present one, and makes the list longer by  *)
(* one at most.                                                            *)
(***************************************************************************)
LEMMA PushedIs ==
    ASSUME clock \in Nat, NEW X \in SUBSET Hits, IsFiniteSet(X)
    PROVE  \E h \in Hits : h.at = clock /\ R!Pushed(X) = X \cup {h} /\ IsFiniteSet(R!Pushed(X))
                           /\ Cardinality(R!Pushed(X)) <= Cardinality(X) + 1
<1> DEFINE same == {g \in X : g.at = clock}
           h == [at |-> clock, nr |-> Cardinality(same)]
<1>1. IsFiniteSet(same) /\ Cardinality(same) \in Nat
    BY FS_Subset, FS_CardinalityType
<1>2. h \in Hits /\ h.at = clock
    BY <1>1 DEF Hits
<1>3. R!Pushed(X) = X \cup {h}
    BY SameCount DEF R!Pushed
<1> HIDE DEF h
<1>4. IsFiniteSet(X \cup {h}) /\ Cardinality(X \cup {h}) <= Cardinality(X) + 1
    BY OneMore
<1> QED BY <1>2, <1>3, <1>4

(***************************************************************************)
(* A request keeps LimiterInv: the times of a key that was never dropped   *)
(* are those it was let in at, so the limit is compared with all of them   *)
(* (rateLimit).                                                            *)
(***************************************************************************)
LEMMA AskStep == ASSUME LimiterInv, NEW q \in Asked, R!Ask(q) PROVE LimiterInv'
<1> DEFINE kept == R!Kept(WindowOf[q])
           hits == R!Recent(q, kept)
           free == R!Cardinality(hits) < LimitOf[q]
           put == IF free THEN R!Pushed(hits) ELSE hits
           places(j) == IF j \in kept THEN R!Cardinality(kept \ R!NotBefore(j, kept)) + 1 ELSE R!Cardinality(kept) + 1
<1>1. /\ buckets' = R!Put(q, kept, put)
      /\ admitted' = IF free THEN [admitted EXCEPT ![q] = R!Pushed(admitted[q])] ELSE admitted
      /\ forgotten' = [j \in Asked |-> forgotten[j] \/ (j \in R!Held \ kept /\ admitted[j] # {})]
      /\ clock' = clock
    BY DEF R!Ask
<1>2. /\ buckets' = [j \in Asked |-> IF j = q THEN [place |-> places(q), hits |-> put]
                                     ELSE IF j \in kept THEN [place |-> places(j), hits |-> buckets[j].hits] ELSE R!NoBucket]
    BY <1>1 DEF R!Put
<1>3. LimiterTyped /\ clock \in Nat /\ \A j \in Asked : KeyHeld(j)
    BY DEF LimiterInv, LimiterTyped
<1>4. kept \subseteq R!Held /\ IsFiniteSet(kept) /\ Cardinality(kept) \in Nat /\ Cardinality(kept) <= MAX_KEYS
    BY <1>3, KeptFew
<1>5. R!Held \subseteq Asked /\ kept \subseteq Asked
    BY <1>4 DEF R!Held
<1>6. \A j \in Asked : /\ buckets[j].place \in Nat /\ buckets[j].hits \in SUBSET Hits /\ IsFiniteSet(buckets[j].hits)
                       /\ admitted[j] \in SUBSET Hits /\ IsFiniteSet(admitted[j]) /\ forgotten[j] \in BOOLEAN
    BY <1>3 DEF LimiterTyped, KeyHeld, Buckets
<1>7. \A j \in Asked : LimitOf[j] \in Nat /\ LimitOf[j] > 0 /\ WindowOf[j] \in Nat /\ WindowOf[j] > 0
    BY LimiterConstants
<1>8. hits = IF q \in kept THEN Counted(q) ELSE {}
    BY DEF R!Recent, Counted
<1>9. hits \in SUBSET Hits /\ IsFiniteSet(hits) /\ hits \subseteq Counted(q)
    <2>1. Counted(q) \subseteq buckets[q].hits
        BY DEF Counted
    <2>2. IsFiniteSet(Counted(q)) /\ IsFiniteSet({})
        BY <1>6, <2>1, FS_Subset, FS_EmptySet
    <2> QED BY <1>6, <1>8, <2>1, <2>2
<1> HIDE DEF kept, hits
<1>10. free <=> Cardinality(hits) < LimitOf[q]
    BY SameCount
<1>11. Cardinality(hits) \in Nat /\ \A j \in Asked : Cardinality(admitted[j]) \in Nat
    BY <1>6, <1>9, FS_CardinalityType
<1>12. \A j \in Asked : places(j) \in Nat /\ places(j) > 0
    <2>1. ASSUME NEW j \in Asked PROVE Cardinality(kept \ R!NotBefore(j, kept)) \in Nat
        <3>1. IsFiniteSet(kept \ R!NotBefore(j, kept))
            BY <1>4, FS_Subset
        <3> QED BY <3>1, FS_CardinalityType
    <2> QED BY <1>4, <2>1, SameCount
<1> HIDE DEF places
<1>13. put \in SUBSET Hits /\ IsFiniteSet(put) /\ (free => \E h \in Hits : h.at = clock /\ put = hits \cup {h})
    <2>1. \E h \in Hits : h.at = clock /\ R!Pushed(hits) = hits \cup {h} /\ IsFiniteSet(R!Pushed(hits))
        BY <1>3, <1>9, PushedIs
    <2>2. R!Pushed(hits) \in SUBSET Hits /\ IsFiniteSet(R!Pushed(hits))
        BY <1>9, <2>1
    <2> HIDE DEF free
    <2> QED BY <1>9, <2>1, <2>2
<1>14. R!Pushed(admitted[q]) \in SUBSET Hits /\ IsFiniteSet(R!Pushed(admitted[q]))
       /\ \E h \in Hits : h.at = clock /\ R!Pushed(admitted[q]) = admitted[q] \cup {h}
       /\ Cardinality(R!Pushed(admitted[q])) <= Cardinality(admitted[q]) + 1
    <2>1. \E h \in Hits : /\ h.at = clock /\ R!Pushed(admitted[q]) = admitted[q] \cup {h} /\ IsFiniteSet(R!Pushed(admitted[q]))
                          /\ Cardinality(R!Pushed(admitted[q])) <= Cardinality(admitted[q]) + 1
        BY <1>3, <1>6, PushedIs
    <2> QED BY <1>6, <2>1
<1>15. ASSUME NEW j \in Asked
       PROVE  /\ buckets'[j] \in Buckets
              /\ j = q => buckets'[j].hits = put /\ buckets'[j].place > 0
              /\ j # q /\ j \in kept => buckets'[j].hits = buckets[j].hits /\ buckets'[j].place > 0
              /\ j # q /\ j \notin kept => buckets'[j].hits = {} /\ buckets'[j].place = 0
    <2> HIDE DEF put
    <2>1. buckets'[j] = IF j = q THEN [place |-> places(q), hits |-> put]
                        ELSE IF j \in kept THEN [place |-> places(j), hits |-> buckets[j].hits] ELSE R!NoBucket
        BY <1>2
    <2>2. CASE j = q
        BY <1>12, <1>13, <2>1, <2>2 DEF Buckets
    <2>3. CASE j # q /\ j \in kept
        BY <1>6, <1>12, <2>1, <2>3 DEF Buckets
    <2>4. CASE j # q /\ j \notin kept
        BY <2>1, <2>4 DEF Buckets, R!NoBucket
    <2> QED BY <2>2, <2>3, <2>4
<1>16. LimiterTyped'
    <2>1. buckets' \in [Asked -> Buckets]
        <3> HIDE DEF Buckets, put
        <3> QED BY <1>2, <1>15
    <2>2. admitted' \in [Asked -> SUBSET Hits]
        <3> HIDE DEF Hits, free
        <3> QED BY <1>1, <1>3, <1>14 DEF LimiterTyped
    <2>3. forgotten' \in [Asked -> BOOLEAN]
        BY <1>1, <1>6
    <2> HIDE DEF Buckets, Hits
    <2> QED BY <1>1, <1>3, <2>1, <2>2, <2>3 DEF LimiterTyped
<1>17. ASSUME NEW j \in Asked, j # q PROVE KeyHeld(j)'
    <2>1. admitted'[j] = admitted[j]
        <3> HIDE DEF free
        <3> QED BY <1>1, <1>3, <1>17 DEF LimiterTyped
    <2>2. Counted(j)' = IF j \in kept THEN Counted(j) ELSE {}
        BY <1>1, <1>15, <1>17 DEF Counted, R!Counts
    <2>3. IsFiniteSet(buckets'[j].hits) /\ (buckets'[j].place = 0 => buckets'[j].hits = {})
        <3>1. CASE j \in kept
            BY <1>6, <1>15, <1>17, <3>1
        <3>2. CASE j \notin kept
            BY <1>15, <1>17, <3>2, FS_EmptySet
        <3> QED BY <3>1, <3>2
    <2>4. ASSUME ~forgotten'[j] PROVE Counted(j)' = admitted[j] /\ Cardinality(admitted[j]) <= LimitOf[j]
        <3>1. ~forgotten[j] /\ (j \in R!Held \ kept => admitted[j] = {})
            BY <1>1, <2>4
        <3>2. Counted(j) = admitted[j] /\ Cardinality(admitted[j]) <= LimitOf[j]
            BY <1>3, <3>1 DEF KeyHeld
        <3>3. CASE j \in kept
            BY <2>2, <3>2, <3>3
        <3>4. CASE j \notin R!Held
            <4>1. buckets[j].hits = {}
                BY <1>3, <1>6, <3>4 DEF R!Held, KeyHeld
            <4>2. Counted(j) = {} /\ j \notin kept
                BY <1>4, <3>4, <4>1 DEF Counted
            <4> QED BY <2>2, <3>2, <4>2
        <3> QED BY <2>2, <3>1, <3>2, <3>3, <3>4
    <2>5. /\ IsFiniteSet(admitted[j])
          /\ \A h \in admitted[j] : clock - h.at < WindowOf[j]
          /\ \A h \in Counted(j) : \E g \in admitted[j] : g.at = h.at
        BY <1>3 DEF KeyHeld
    <2> QED BY <1>1, <2>1, <2>2, <2>3, <2>4, <2>5 DEF KeyHeld
<1>18. KeyHeld(q)'
    <2>0. /\ IsFiniteSet(admitted[q])
          /\ \A h \in admitted[q] : clock - h.at < WindowOf[q]
          /\ \A h \in Counted(q) : \E g \in admitted[q] : g.at = h.at
        BY <1>3 DEF KeyHeld
    <2>1. \A h \in hits : R!Counts(h.at, WindowOf[q])
        BY <1>9 DEF Counted
    <2>2. \A h \in Hits : h.at = clock => R!Counts(h.at, WindowOf[q])
        BY <1>3, <1>7 DEF R!Counts
    <2>3. Counted(q)' = put
        <3>1. \A h \in put : R!Counts(h.at, WindowOf[q])
            <4> HIDE DEF free
            <4> QED BY <1>13, <2>1, <2>2
        <3> HIDE DEF put
        <3> QED BY <1>1, <1>15, <3>1 DEF Counted, R!Counts
    <2>4. IsFiniteSet(buckets'[q].hits) /\ buckets'[q].place # 0
        <3> HIDE DEF put
        <3> QED BY <1>13, <1>15
    <2>5. admitted'[q] = IF free THEN R!Pushed(admitted[q]) ELSE admitted[q]
        <3> HIDE DEF free
        <3> QED BY <1>1, <1>3 DEF LimiterTyped
    <2>6. IsFiniteSet(admitted'[q]) /\ \A h \in admitted'[q] : clock - h.at < WindowOf[q]
        <3>1. clock - clock < WindowOf[q]
            BY <1>3, <1>7
        <3> HIDE DEF free
        <3> QED BY <1>14, <2>0, <2>5, <3>1
    <2>7. \A h \in put : \E g \in admitted'[q] : g.at = h.at
        <3>1. CASE free
            <4>1. \A h \in hits : \E g \in admitted[q] : g.at = h.at
                BY <1>9, <2>0
            <4> HIDE DEF free
            <4> QED BY <1>13, <1>14, <2>5, <3>1, <4>1
        <3>2. CASE ~free
            <4> HIDE DEF free
            <4> QED BY <1>9, <2>0, <2>5, <3>2
        <3> QED BY <3>1, <3>2
    <2>8. ASSUME ~forgotten'[q] PROVE put = admitted'[q] /\ Cardinality(admitted'[q]) <= LimitOf[q]
        <3>1. ~forgotten[q] /\ (q \in R!Held \ kept => admitted[q] = {})
            BY <1>1, <2>8
        <3>2. Counted(q) = admitted[q] /\ Cardinality(admitted[q]) <= LimitOf[q]
            BY <1>3, <3>1 DEF KeyHeld
        <3>3. hits = admitted[q]
            <4>1. CASE q \in kept
                BY <1>8, <3>2, <4>1
            <4>2. CASE q \notin R!Held
                <5>1. buckets[q].hits = {}
                    BY <1>3, <1>6, <4>2 DEF R!Held, KeyHeld
                <5>2. Counted(q) = {} /\ q \notin kept
                    BY <1>4, <4>2, <5>1 DEF Counted
                <5> QED BY <1>8, <3>2, <5>2
            <4> QED BY <1>8, <3>1, <4>1, <4>2
        <3>4. CASE free
            <4>1. put = R!Pushed(admitted[q]) /\ admitted'[q] = R!Pushed(admitted[q])
                BY <2>5, <3>3, <3>4
            <4>2. Cardinality(admitted[q]) < LimitOf[q]
                BY <1>10, <3>3, <3>4
            <4>3. Cardinality(R!Pushed(admitted[q])) \in Nat
                BY <1>14, FS_CardinalityType
            <4> QED BY <1>7, <1>11, <1>14, <4>1, <4>2, <4>3
        <3>5. CASE ~free
            <4> HIDE DEF free
            <4> QED BY <2>5, <3>2, <3>3, <3>5
        <3> QED BY <3>4, <3>5
    <2> HIDE DEF put, free
    <2> QED BY <1>1, <2>3, <2>4, <2>6, <2>7, <2>8 DEF KeyHeld
<1>19. Cardinality(R!Held') <= MAX_KEYS + 1
    <2>1. R!Held' \subseteq kept \cup {q}
        BY <1>15 DEF R!Held
    <2>2. IsFiniteSet(kept \cup {q}) /\ Cardinality(kept \cup {q}) <= Cardinality(kept) + 1
        BY <1>4, OneMore
    <2>3. /\ Cardinality(R!Held') <= Cardinality(kept \cup {q}) /\ Cardinality(kept \cup {q}) \in Nat
          /\ Cardinality(R!Held') \in Nat
        BY <2>1, <2>2, FS_Subset, FS_CardinalityType
    <2> QED BY <1>4, <2>2, <2>3, LimiterConstants
<1> QED BY <1>16, <1>17, <1>18, <1>19 DEF LimiterInv

(***************************************************************************)
(* Time keeps LimiterInv: what leaves the window leaves both lists, and    *)
(* who has none left in it is no longer forgotten.                         *)
(***************************************************************************)
LEMMA LimiterTickStep == ASSUME LimiterInv, R!Tick PROVE LimiterInv'
<1>1. /\ clock' = clock + 1 /\ buckets' = buckets
      /\ admitted' = [j \in Asked |-> {h \in admitted[j] : clock' - h.at < WindowOf[j]}]
      /\ forgotten' = [j \in Asked |-> forgotten[j] /\ admitted'[j] # {}]
    BY DEF R!Tick
<1>2. LimiterTyped /\ clock \in Nat /\ \A j \in Asked : KeyHeld(j)
    BY DEF LimiterInv, LimiterTyped
<1>3. \A j \in Asked : /\ buckets[j].hits \in SUBSET Hits /\ admitted[j] \in SUBSET Hits /\ forgotten[j] \in BOOLEAN
                       /\ WindowOf[j] \in Nat
    BY <1>2, LimiterConstants DEF LimiterTyped, Buckets
<1>4. \A j \in Asked : /\ admitted'[j] = {h \in admitted[j] : clock' - h.at < WindowOf[j]} /\ admitted'[j] \subseteq admitted[j]
                       /\ forgotten'[j] = (forgotten[j] /\ admitted'[j] # {})
    BY <1>1
<1>5. LimiterTyped'
    <2>1. admitted' \in [Asked -> SUBSET Hits]
        <3> HIDE DEF Hits
        <3> QED BY <1>1, <1>3
    <2>2. forgotten' \in [Asked -> BOOLEAN]
        BY <1>1, <1>3
    <2> QED BY <1>1, <1>2, <2>1, <2>2 DEF LimiterTyped
<1>6. ASSUME NEW j \in Asked PROVE KeyHeld(j)'
    <2>1. /\ IsFiniteSet(admitted[j]) /\ IsFiniteSet(buckets[j].hits)
          /\ \A h \in admitted[j] : clock - h.at < WindowOf[j]
          /\ \A h \in Counted(j) : \E g \in admitted[j] : g.at = h.at
          /\ ~forgotten[j] => Counted(j) = admitted[j] /\ Cardinality(admitted[j]) <= LimitOf[j]
          /\ buckets[j].place = 0 => buckets[j].hits = {}
        BY <1>2 DEF KeyHeld
    <2>2. \A h \in Hits : h.at \in Int
        BY DEF Hits
    <2>3. Counted(j)' = {h \in Counted(j) : clock' - h.at < WindowOf[j]}
        <3>1. \A h \in buckets[j].hits : clock' - h.at < WindowOf[j] => clock - h.at < WindowOf[j]
            BY <1>1, <1>2, <1>3, <2>2
        <3> QED BY <1>1, <3>1 DEF Counted, R!Counts
    <2>4. \A h \in Counted(j)' : \E g \in admitted'[j] : g.at = h.at
        BY <1>4, <2>1, <2>3
    <2>5. IsFiniteSet(admitted'[j]) /\ Cardinality(admitted'[j]) <= Cardinality(admitted[j])
          /\ Cardinality(admitted'[j]) \in Nat /\ Cardinality(admitted[j]) \in Nat
        BY <1>4, <2>1, FS_Subset, FS_CardinalityType
    <2>6. ASSUME ~forgotten'[j] PROVE Counted(j)' = admitted'[j] /\ Cardinality(admitted'[j]) <= LimitOf[j]
        <3>1. CASE ~forgotten[j]
            BY <1>4, <2>1, <2>3, <2>5, <3>1, LimiterConstants
        <3>2. CASE forgotten[j]
            <4>1. admitted'[j] = {}
                BY <1>4, <2>6, <3>2
            <4>2. Counted(j)' = {}
                BY <2>4, <4>1
            <4> QED BY <4>1, <4>2, FS_EmptySet, LimiterConstants
        <3> QED BY <1>3, <3>1, <3>2
    <2> QED BY <1>1, <1>4, <2>1, <2>4, <2>5, <2>6 DEF KeyHeld
<1>7. R!Held' = R!Held
    BY <1>1 DEF R!Held
<1> QED BY <1>5, <1>6, <1>7 DEF LimiterInv

(***************************************************************************)
(* What the Map holds after a restart: nothing.                            *)
(***************************************************************************)
LEMMA NoneHeld ==
    ASSUME NEW j \in Asked, buckets' = [q \in Asked |-> R!NoBucket]
    PROVE  /\ buckets'[j].place = 0 /\ buckets'[j].hits = {} /\ buckets'[j] \in Buckets
           /\ IsFiniteSet(buckets'[j].hits) /\ R!Held' = {}
<1>1. \A q \in Asked : buckets'[q].place = 0 /\ buckets'[q].hits = {} /\ buckets'[q] \in Buckets
    BY DEF R!NoBucket, Buckets
<1> QED BY <1>1, FS_EmptySet DEF R!Held

(***************************************************************************)
(* A restart keeps LimiterInv: who had been let in is forgotten.           *)
(***************************************************************************)
LEMMA LimiterRestartStep == ASSUME LimiterInv, R!Restart PROVE LimiterInv'
<1>1. /\ buckets' = [q \in Asked |-> R!NoBucket] /\ clock' = clock /\ admitted' = admitted
      /\ forgotten' = [j \in Asked |-> admitted[j] # {}]
    BY DEF R!Restart
<1>2. LimiterTyped /\ clock \in Nat /\ \A j \in Asked : KeyHeld(j)
    BY DEF LimiterInv, LimiterTyped
<1>3. LimiterTyped'
    <2>1. buckets' \in [Asked -> Buckets]
        <3> HIDE DEF Buckets
        <3> QED BY <1>1, NoneHeld
    <2>2. forgotten' \in [Asked -> BOOLEAN]
        BY <1>1
    <2> QED BY <1>1, <1>2, <2>1, <2>2 DEF LimiterTyped
<1>4. ASSUME NEW j \in Asked PROVE KeyHeld(j)'
    <2>1. Counted(j)' = {}
        BY <1>1, NoneHeld DEF Counted
    <2>2. forgotten'[j] <=> admitted[j] # {}
        BY <1>1
    <2>3. IsFiniteSet(admitted[j]) /\ \A h \in admitted[j] : clock - h.at < WindowOf[j]
        BY <1>2 DEF KeyHeld
    <2>4. ~forgotten'[j] => admitted[j] = {} /\ Cardinality(admitted[j]) <= LimitOf[j]
        BY <2>2, FS_EmptySet, LimiterConstants
    <2> QED BY <1>1, <2>1, <2>3, <2>4, NoneHeld DEF KeyHeld
<1>5. Cardinality(R!Held') <= MAX_KEYS + 1
    <2>1. R!Held' = {}
        BY <1>1 DEF R!Held, R!NoBucket
    <2> QED BY <2>1, FS_EmptySet, LimiterConstants
<1> QED BY <1>3, <1>4, <1>5 DEF LimiterInv

(***************************************************************************)
(* LimiterInv at the start.                                                *)
(***************************************************************************)
LEMMA LimiterInit == ASSUME R!Init PROVE LimiterInv
<1>1. /\ clock = 0 /\ buckets = [q \in Asked |-> R!NoBucket] /\ admitted = [q \in Asked |-> {}]
      /\ forgotten = [q \in Asked |-> FALSE]
    BY DEF R!Init
<1>2. R!NoBucket \in Buckets /\ R!NoBucket.place = 0 /\ R!NoBucket.hits = {}
    BY DEF R!NoBucket, Buckets
<1>3. LimiterTyped
    <2>1. buckets \in [Asked -> Buckets]
        <3> HIDE DEF Buckets
        <3> QED BY <1>1, <1>2
    <2> QED BY <1>1, <2>1 DEF LimiterTyped
<1>4. ASSUME NEW j \in Asked PROVE KeyHeld(j)
    <2>1. buckets[j].hits = {} /\ buckets[j].place = 0 /\ admitted[j] = {}
        BY <1>1, <1>2
    <2>2. Counted(j) = {}
        BY <2>1 DEF Counted
    <2> QED BY <2>1, <2>2, FS_EmptySet, LimiterConstants DEF KeyHeld
<1>5. Cardinality(R!Held) <= MAX_KEYS + 1
    <2>1. R!Held = {}
        BY <1>1, <1>2 DEF R!Held
    <2> QED BY <2>1, FS_EmptySet, LimiterConstants
<1> QED BY <1>3, <1>4, <1>5 DEF LimiterInv

(***************************************************************************)
(* What LimiterInv says entails LimiterHolds.                              *)
(***************************************************************************)
LEMMA LimiterFollows == ASSUME LimiterInv PROVE R!LimiterHolds
<1>1. ASSUME NEW j \in Asked, R!Cardinality(admitted[j]) > LimitOf[j] PROVE forgotten[j]
    <2>1. ~forgotten[j] => Cardinality(admitted[j]) <= LimitOf[j]
        BY DEF LimiterInv, KeyHeld
    <2>2. Cardinality(admitted[j]) \in Nat /\ LimitOf[j] \in Nat
        BY FS_CardinalityType, LimiterConstants DEF LimiterInv, KeyHeld
    <2>3. Cardinality(admitted[j]) > LimitOf[j]
        BY <1>1, SameCount
    <2> QED BY <2>1, <2>2, <2>3
<1>2. R!Cardinality(R!Held) <= MAX_KEYS + 1
    BY SameCount DEF LimiterInv
<1> QED BY <1>1, <1>2 DEF R!LimiterHolds, R!WindowKept, R!FewAreKept

(***************************************************************************)
(* For every number of browsers, passwords, codes, addresses and events: a *)
(* code that has opened a session opens no later one, codes are a cooldown *)
(* and a limit apart and one is alive unless their requests crossed, a     *)
(* code is tried so often and once more for each other browser, a button   *)
(* that has counted down is not refused, nobody signs in or writes a       *)
(* password against an account as it was read, who signs in lands on a     *)
(* page that answers, no window lets in more than its limit unless the key *)
(* was dropped, and the Map holds one key above the cap at most            *)
(* (lib/otp.ts, the routes of the login and of the profile, lib/rate-      *)
(* limit.ts).                                                              *)
(***************************************************************************)
THEOREM SignInHoldsAlways == Spec => []SignInHolds
<1>1. Init => SignInInv /\ LimiterInv
    BY SignInInit, LimiterInit DEF Init
<1>2. ASSUME SignInInv, [Next]_vars PROVE SignInInv'
    <2>1. CASE G!Next
        BY <1>2, <2>1, SignInStep
    <2>2. CASE UNCHANGED gvars
        <3>1. UNCHANGED <<way, next, now, account, codes, sform, sreq, opensession, opened>>
            BY <2>2 DEF gvars
        <3> QED BY <1>2, <3>1 DEF SignInInv, SignInTyped, UsedInv, ApartInv, InTime, AttemptsInv,
            Counting, WaitsInv, ReadInv, Seats, G!Middleware, G!SignedOut, G!Token, G!GoHome,
            G!CodesApart, G!LastAt, G!InHour
    <2>3. G!Next \/ UNCHANGED gvars
        BY <1>2 DEF Next, vars, desk, talk, OnlyMessages, OnlyMail, OnlyTickets, OnlyAnchor,
            OnlyBilling, OnlyCalendar, OnlyDiff, OnlyLimiter, OnlyAnnouncements, OnlySettings,
            OnlyFleet, OnlyBackfill
    <2> QED BY <2>1, <2>2, <2>3
<1>3. ASSUME LimiterInv, [Next]_vars PROVE LimiterInv'
    <2>1. CASE R!Next
        BY <1>3, <2>1, AskStep, LimiterTickStep, LimiterRestartStep DEF R!Next
    <2>2. CASE UNCHANGED rvars
        <3>1. UNCHANGED <<clock, buckets, admitted, forgotten>>
            BY <2>2 DEF rvars
        <3> QED BY <1>3, <3>1 DEF LimiterInv, LimiterTyped, KeyHeld, Counted, R!Counts, R!Held
    <2>3. R!Next \/ UNCHANGED rvars
        BY <1>3 DEF Next, vars, desk, talk, OnlyMessages, OnlyMail, OnlyTickets, OnlyAnchor,
            OnlyBilling, OnlyCalendar, OnlyDiff, OnlySignIn, OnlyAnnouncements, OnlySettings, OnlyFleet,
            OnlyBackfill
    <2> QED BY <2>1, <2>2, <2>3
<1>4. SignInInv /\ LimiterInv => SignInHolds
    BY SignInFollows, LimiterFollows DEF SignInHolds
<1> QED BY <1>1, <1>2, <1>3, <1>4, PTL DEF Spec

(***************************************************************************)
(* The instance of Anchor counts as FiniteSets does.                       *)
(***************************************************************************)
LEMMA AnchorCounts == \A set : N!Cardinality(set) = Cardinality(set)
BY DEF Cardinality, N!Cardinality, IsFiniteSet, N!IsFiniteSet

(***************************************************************************)
(* What the assumption on the constants says of the addresses and limits.  *)
(***************************************************************************)
LEMMA AnchorConstants ==
    /\ Size \in Nat \ {0} /\ Cap \in Nat /\ NodeCap \in Nat /\ MaxMoves \in Nat
    /\ IsFiniteSet(N!Addresses) /\ N!Primary \in N!Addresses
<1>1. {Size, Cap, NodeCap} \subseteq Nat \ {0} /\ {MaxFailing, MaxMoves} \subseteq Nat
    BY OfficeAssumption DEF OfficeAssumption, N!AnchorAssumption
<1>2. IsFiniteSet(1..Size)
    BY <1>1, FS_Interval
<1> QED BY <1>1, <1>2 DEF N!Addresses, N!Primary

(***************************************************************************)
(* A run as a record, and the sets of addresses it works on.               *)
(***************************************************************************)
JobTyped ==
    /\ job = [pc |-> job.pc, listed |-> job.listed, attach |-> job.attach, detach |-> job.detach,
              left |-> job.left, drop |-> job.drop, conf |-> job.conf, failed |-> job.failed]
    /\ job.attach \subseteq N!Addresses /\ Cardinality(job.attach) <= Cap
    /\ job.left \subseteq N!Addresses /\ job.failed \in Nat

(***************************************************************************)
(* What was on the anchor when it was listed and is not any more; and what *)
(* SolusVM is still to be sent although the anchor has it, for the second  *)
(* listing had left out its block: that request fails.                     *)
(***************************************************************************)
Gone == {z \in N!On(job.listed) : truth[z] # "anchor"}
Doomed == {z \in job.left \ job.attach : truth[z] = "anchor"}

(***************************************************************************)
(* The inductive form of AnchorKept.  The anchor's own address is never to *)
(* be detached.  Each address gone from the anchor is one act of people.   *)
(* Until something has failed, every new address was taken by the          *)
(* hypervisor or is still to be sent; or the list was cut, and then more   *)
(* requests are bound to fail than people have acts left to prevent it.    *)
(***************************************************************************)
AnchorInv ==
    /\ truth \in [N!Addresses -> N!Owners] /\ events \in Nat /\ events <= MaxMoves
    /\ wrote = [attached |-> wrote.attached, detached |-> wrote.detached]
    /\ JobTyped
    /\ driver = "solusvm2" => truth[N!Primary] = "anchor" /\ N!Primary \notin job.drop
    /\ job.pc \in {"plan", "open"} => DOMAIN job.listed \subseteq N!Addresses /\ Cardinality(Gone) <= events
    /\ job.pc = "detach" => job.drop \intersect job.left = {}
    /\ job.pc \in {"detach", "attach"} /\ job.failed = 0 =>
          \/ job.attach \subseteq wrote.attached \cup job.left
          \/ Cardinality(Doomed) > MaxMoves - events
    /\ job.pc \in {"attached", "detached"} => job.attach \subseteq wrote.attached

(***************************************************************************)
(* Sets of addresses can be counted, and a part counts no more.            *)
(***************************************************************************)
LEMMA AddressesCount ==
    ASSUME NEW X \in SUBSET N!Addresses, NEW Y \in SUBSET X
    PROVE  /\ IsFiniteSet(X) /\ IsFiniteSet(Y) /\ Cardinality(X) \in Nat /\ Cardinality(Y) \in Nat
           /\ Cardinality(Y) <= Cardinality(X)
<1>1. IsFiniteSet(X)
    BY AnchorConstants, FS_Subset
<1>2. IsFiniteSet(Y) /\ Cardinality(Y) <= Cardinality(X)
    BY <1>1, FS_Subset
<1> QED BY <1>1, <1>2, FS_CardinalityType

(***************************************************************************)
(* A set of addresses with one taken out counts one less at most.          *)
(***************************************************************************)
LEMMA OneLess ==
    ASSUME NEW X \in SUBSET N!Addresses, NEW Y \in SUBSET N!Addresses, NEW z, X \subseteq Y \cup {z}
    PROVE  Cardinality(X) <= Cardinality(Y) + 1
<1>1. IsFiniteSet(X) /\ IsFiniteSet(Y) /\ Cardinality(X) \in Nat /\ Cardinality(Y) \in Nat
    BY AddressesCount
<1>2. IsFiniteSet(Y \cup {z}) /\ Cardinality(Y \cup {z}) <= Cardinality(Y) + 1
    BY <1>1, FS_AddElement
<1>3. Cardinality(Y \cup {z}) \in Nat
    BY <1>2, FS_CardinalityType
<1>4. Cardinality(X) <= Cardinality(Y \cup {z})
    BY <1>2, FS_Subset
<1> QED BY <1>1, <1>2, <1>3, <1>4

(***************************************************************************)
(* A slice is a part of its set, no longer than the limit; one that leaves *)
(* something out is as long as the limit.                                  *)
(***************************************************************************)
LEMMA SliceIs ==
    ASSUME NEW X \in SUBSET N!Addresses, NEW n \in Nat, NEW part \in N!Slices(n, X)
    PROVE  part \subseteq X /\ Cardinality(part) <= n /\ (part # X => Cardinality(part) = n)
<1>1. Cardinality(X) \in Nat
    BY AddressesCount
<1> QED BY <1>1, AnchorCounts DEF N!Slices

(***************************************************************************)
(* The listing and the plan.  A run begins with nothing gone; the plan     *)
(* takes no more than the anchor's limit.                                  *)
(***************************************************************************)
LEMMA ListStep == ASSUME AnchorInv, N!List PROVE AnchorInv'
<1>1. PICK bad : job' = [N!Idle EXCEPT !.pc = "plan", !.listed = N!Read(bad)]
    BY Zenon DEF N!List
<1>2. wrote' = N!Nothing /\ UNCHANGED <<driver, truth, events>>
    BY Zenon DEF N!List
<1>3. /\ job'.pc = "plan" /\ job'.listed = N!Read(bad) /\ job'.attach = {} /\ job'.left = {} /\ job'.drop = {} /\ job'.failed = 0
      /\ job' = [pc |-> job'.pc, listed |-> job'.listed, attach |-> job'.attach, detach |-> job'.detach,
                 left |-> job'.left, drop |-> job'.drop, conf |-> job'.conf, failed |-> job'.failed]
    BY <1>1 DEF N!Idle
<1>4. DOMAIN N!Read(bad) \subseteq N!Addresses /\ \A z \in N!On(N!Read(bad)) : truth[z] = "anchor"
    BY DEF N!On, N!Read
<1>5. Gone' = {}
    BY <1>2, <1>3, <1>4 DEF Gone
<1>6. Cardinality({}) = 0
    BY FS_EmptySet
<1>7. wrote' = [attached |-> wrote'.attached, detached |-> wrote'.detached]
    BY <1>2 DEF N!Nothing
<1>8. JobTyped'
    BY <1>3, <1>6, AnchorConstants DEF JobTyped
<1>9. DOMAIN job'.listed \subseteq N!Addresses /\ Cardinality(Gone') <= events'
    BY <1>2, <1>3, <1>4, <1>5, <1>6 DEF AnchorInv
<1> QED BY <1>2, <1>3, <1>7, <1>8, <1>9 DEF AnchorInv

(***************************************************************************)
(* A run that is over, or was never begun, holds nothing.                  *)
(***************************************************************************)
LEMMA NoRun ==
    ASSUME AnchorInv, job' = N!Idle, truth' \in [N!Addresses -> N!Owners], events' \in Nat, events' <= MaxMoves,
           wrote' = [attached |-> wrote'.attached, detached |-> wrote'.detached],
           driver' = driver, driver = "solusvm2" => truth'[N!Primary] = "anchor"
    PROVE  AnchorInv'
<1>1. /\ job'.pc = "idle" /\ job'.attach = {} /\ job'.left = {} /\ job'.drop = {} /\ job'.failed = 0
      /\ job' = [pc |-> job'.pc, listed |-> job'.listed, attach |-> job'.attach, detach |-> job'.detach,
                 left |-> job'.left, drop |-> job'.drop, conf |-> job'.conf, failed |-> job'.failed]
    BY DEF N!Idle
<1>2. Cardinality({}) = 0
    BY FS_EmptySet
<1>3. JobTyped'
    BY <1>1, <1>2, AnchorConstants DEF JobTyped
<1> QED BY <1>1, <1>3 DEF AnchorInv

(***************************************************************************)
(* The plan: what the panel has more is added, what it has no more is to   *)
(* be dropped.                                                             *)
(***************************************************************************)
LEMMA PlanStep == ASSUME AnchorInv, N!Plan PROVE AnchorInv'
<1> DEFINE unused == {u \in DOMAIN job.listed : job.listed[u] = "free" /\ ~nrows[u].released}
<1>0. UNCHANGED <<driver, truth, wrote, events>> /\ job.pc = "plan"
    BY DEF N!Plan
<1>1. PICK attach \in N!Slices(Cap, unused) : \E detach :
          job' = IF attach = {} /\ detach = {} THEN N!Idle
                 ELSE [job EXCEPT !.pc = "open", !.attach = attach, !.detach = detach]
    BY Zenon DEF N!Plan
<1>2. CASE job' = N!Idle
    BY <1>0, <1>2, NoRun DEF AnchorInv
<1>3. ASSUME NEW detach, job' = [job EXCEPT !.pc = "open", !.attach = attach, !.detach = detach] PROVE AnchorInv'
    <2>1. /\ job'.pc = "open" /\ job'.attach = attach /\ job'.listed = job.listed
          /\ job'.left = job.left /\ job'.drop = job.drop /\ job'.failed = job.failed
          /\ job' = [pc |-> job'.pc, listed |-> job'.listed, attach |-> job'.attach, detach |-> job'.detach,
                     left |-> job'.left, drop |-> job'.drop, conf |-> job'.conf, failed |-> job'.failed]
        BY <1>3 DEF AnchorInv, JobTyped
    <2>2. attach \subseteq N!Addresses /\ Cardinality(attach) <= Cap
        <3>1. unused \in SUBSET N!Addresses
            BY <1>0 DEF AnchorInv
        <3> HIDE DEF unused
        <3> QED BY <3>1, SliceIs, AnchorConstants
    <2>3. JobTyped'
        BY <2>1, <2>2 DEF AnchorInv, JobTyped
    <2>4. Gone' = Gone
        BY <1>0, <2>1 DEF Gone, N!On
    <2> QED BY <1>0, <2>1, <2>3, <2>4 DEF AnchorInv
<1> QED BY <1>1, <1>2, <1>3, Zenon

(***************************************************************************)
(* Virtualizor's client: a list the hypervisor has stored is what the      *)
(* anchor now has, new addresses and all.                                  *)
(***************************************************************************)
LEMMA VirtualizorStep == ASSUME AnchorInv, N!ReadVps \/ N!WriteVps PROVE AnchorInv'
<1>0. driver = "virtualizor" /\ UNCHANGED <<driver, events>>
    BY DEF N!ReadVps, N!WriteVps
<1>1. truth' \in [N!Addresses -> N!Owners] /\ wrote' = [attached |-> wrote'.attached, detached |-> wrote'.detached]
    BY DEF N!ReadVps, N!WriteVps, N!Replace, AnchorInv, N!Owners
<1>2. CASE job' = N!Idle
    BY <1>0, <1>1, <1>2, NoRun DEF AnchorInv
<1>3. CASE job' = [job EXCEPT !.pc = "send", !.conf = disks]
    <2>1. /\ job'.pc = "send" /\ job'.attach = job.attach /\ job'.left = job.left /\ job'.failed = job.failed
          /\ job' = [pc |-> job'.pc, listed |-> job'.listed, attach |-> job'.attach, detach |-> job'.detach,
                     left |-> job'.left, drop |-> job'.drop, conf |-> job'.conf, failed |-> job'.failed]
        BY <1>3 DEF AnchorInv, JobTyped
    <2>2. JobTyped'
        BY <2>1 DEF AnchorInv, JobTyped
    <2> QED BY <1>0, <1>1, <2>1, <2>2 DEF AnchorInv
<1>4. CASE job' = [job EXCEPT !.pc = "attached"] /\ wrote'.attached = job.attach
    <2>1. /\ job'.pc = "attached" /\ job'.attach = job.attach /\ job'.left = job.left /\ job'.failed = job.failed
          /\ job' = [pc |-> job'.pc, listed |-> job'.listed, attach |-> job'.attach, detach |-> job'.detach,
                     left |-> job'.left, drop |-> job'.drop, conf |-> job'.conf, failed |-> job'.failed]
        BY <1>4 DEF AnchorInv, JobTyped
    <2>2. JobTyped'
        BY <2>1 DEF AnchorInv, JobTyped
    <2> QED BY <1>0, <1>1, <1>4, <2>1, <2>2 DEF AnchorInv
<1> QED BY <1>2, <1>3, <1>4 DEF N!ReadVps, N!WriteVps, N!Replace, N!Confirmed

(***************************************************************************)
(* SolusVM's second listing.  When the list is cut, the part that goes is  *)
(* as long as the hypervisor's limit and one of the anchor's new addresses *)
(* is not in it; the rest of it, more than people have acts, is gone from  *)
(* the anchor, one act each, or doomed.                                    *)
(***************************************************************************)
LEMMA ListAgainStep == ASSUME Cap + MaxMoves <= NodeCap, AnchorInv, N!ListAgain PROVE AnchorInv'
<1>0. driver = "solusvm2" /\ job.pc = "open" /\ UNCHANGED <<driver, truth, events>>
    BY Zenon DEF N!ListAgain
<1>1. CASE job' = N!Idle /\ UNCHANGED wrote
    BY <1>0, <1>1, NoRun DEF AnchorInv
<1>2. ASSUME NEW bad, NEW part \in N!Sent(N!On(N!Read(bad))),
             job' = [job EXCEPT !.pc = "detach", !.drop = N!Detachable(N!On(N!Read(bad)) \ N!Want), !.left = part],
             wrote' = [wrote EXCEPT !.attached = N!On(N!Read(bad))]
      PROVE  AnchorInv'
    <2> DEFINE on == N!On(N!Read(bad))
               new == job.attach
    <2>1. /\ job'.pc = "detach" /\ job'.attach = new /\ job'.left = part /\ job'.failed = job.failed
          /\ job'.drop = N!Detachable(on \ N!Want)
          /\ job' = [pc |-> job'.pc, listed |-> job'.listed, attach |-> job'.attach, detach |-> job'.detach,
                     left |-> job'.left, drop |-> job'.drop, conf |-> job'.conf, failed |-> job'.failed]
        BY <1>2 DEF AnchorInv, JobTyped
    <2>2. wrote'.attached = on /\ wrote' = [attached |-> wrote'.attached, detached |-> wrote'.detached]
        BY <1>2 DEF AnchorInv
    <2>3. N!Want \ on \in SUBSET N!Addresses /\ new \in SUBSET N!Addresses /\ Cardinality(new) <= Cap
        BY <1>0 DEF AnchorInv, JobTyped, N!Want, N!On
    <2>4. part \in N!Slices(NodeCap, N!Want \ on)
        BY <1>2 DEF N!Sent
    <2>5. part \subseteq N!Want \ on /\ (part # N!Want \ on => Cardinality(part) = NodeCap)
        BY <2>3, <2>4, SliceIs, AnchorConstants
    <2>6. N!Primary \notin job'.drop /\ job'.drop \intersect part = {}
        BY <2>1, <2>5 DEF N!Detachable
    <2>7. JobTyped'
        BY <2>1, <2>3, <2>5 DEF AnchorInv, JobTyped
    <2>8. ASSUME ~(new \subseteq on \cup part) PROVE Cardinality(Doomed') > MaxMoves - events
        <3>1. PICK u \in new : u \notin on /\ u \notin part
            BY <2>8
        <3>2. Cardinality(part) = NodeCap
            BY <2>5, <3>1 DEF N!Want
        <3>3. part \intersect new \subseteq new \ {u}
            BY <3>1
        <3>4. IsFiniteSet(new) /\ Cardinality(new) \in Nat /\ IsFiniteSet(part) /\ part \in SUBSET N!Addresses
            BY <2>3, <2>5, AddressesCount
        <3>5. Cardinality(part \intersect new) <= Cap - 1 /\ Cardinality(part \intersect new) \in Nat
            <4>1. IsFiniteSet(new \ {u}) /\ Cardinality(new \ {u}) = Cardinality(new) - 1
                BY <3>4, FS_RemoveElement
            <4>2. Cardinality(part \intersect new) <= Cardinality(new \ {u}) /\ IsFiniteSet(part \intersect new)
                BY <3>3, <4>1, FS_Subset
            <4>3. Cardinality(part \intersect new) \in Nat
                BY <4>2, FS_CardinalityType
            <4> QED BY <2>3, <3>4, <4>1, <4>2, <4>3, AnchorConstants
        <3>6. Cardinality(part \ new) = NodeCap - Cardinality(part \intersect new)
            BY <3>2, <3>4, FS_Difference
        <3>7. part \ new \subseteq Gone \cup Doomed'
            <4>1. ASSUME NEW z \in part \ new, truth[z] # "anchor" PROVE z \in Gone
                BY <2>5, <4>1 DEF Gone, N!Want
            <4>2. ASSUME NEW z \in part \ new, truth[z] = "anchor" PROVE z \in Doomed'
                BY <1>0, <2>1, <4>2 DEF Doomed
            <4> QED BY <4>1, <4>2
        <3>8. Gone \in SUBSET N!Addresses /\ Doomed' \in SUBSET N!Addresses /\ Cardinality(Gone) <= events
            BY <1>0, <2>1, <3>4 DEF AnchorInv, Gone, Doomed, N!On
        <3>9. /\ IsFiniteSet(Gone) /\ Cardinality(Gone) \in Nat /\ IsFiniteSet(Doomed') /\ Cardinality(Doomed') \in Nat
            BY <3>8, AddressesCount
        <3>10. Cardinality(part \ new) <= Cardinality(Gone) + Cardinality(Doomed')
            <4>1. /\ IsFiniteSet(Gone \cup Doomed') /\ Cardinality(Gone \intersect Doomed') \in Nat
                  /\ Cardinality(Gone \cup Doomed') = Cardinality(Gone) + Cardinality(Doomed') - Cardinality(Gone \intersect Doomed')
                BY <3>9, FS_Union, FS_Intersection, FS_CardinalityType
            <4>2. Cardinality(part \ new) <= Cardinality(Gone \cup Doomed') /\ IsFiniteSet(part \ new)
                BY <3>7, <4>1, FS_Subset
            <4>3. Cardinality(part \ new) \in Nat
                BY <4>2, FS_CardinalityType
            <4> QED BY <3>9, <4>1, <4>2, <4>3
        <3> HIDE DEF new
        <3> QED BY <3>5, <3>6, <3>8, <3>9, <3>10, AnchorConstants DEF AnchorInv
    <2> QED BY <1>0, <2>1, <2>2, <2>6, <2>7, <2>8 DEF AnchorInv
<1>3. \/ job' = N!Idle /\ UNCHANGED wrote
      \/ \E bad : \E part \in N!Sent(N!On(N!Read(bad))) :
            /\ job' = [job EXCEPT !.pc = "detach", !.drop = N!Detachable(N!On(N!Read(bad)) \ N!Want), !.left = part]
            /\ wrote' = [wrote EXCEPT !.attached = N!On(N!Read(bad))]
    BY Zenon DEF N!ListAgain
<1> QED BY <1>1, <1>2, <1>3, Zenon

(***************************************************************************)
(* The request that detaches leaves alone what is still to be attached.    *)
(***************************************************************************)
LEMMA DetachStep == ASSUME AnchorInv, N!Detach PROVE AnchorInv'
<1>0. job.pc = "detach" /\ UNCHANGED <<driver, events>>
    BY DEF N!Detach
<1>1. /\ job'.pc = "attach" /\ job'.attach = job.attach /\ job'.left = job.left /\ job'.drop = job.drop
      /\ job'.failed \in {job.failed, job.failed + 1}
      /\ job' = [pc |-> job'.pc, listed |-> job'.listed, attach |-> job'.attach, detach |-> job'.detach,
                 left |-> job'.left, drop |-> job'.drop, conf |-> job'.conf, failed |-> job'.failed]
    BY DEF N!Detach, N!Failed, AnchorInv, JobTyped
<1>2. wrote'.attached = wrote.attached /\ wrote' = [attached |-> wrote'.attached, detached |-> wrote'.detached]
    BY DEF N!Detach, AnchorInv
<1>3. /\ truth' \in [N!Addresses -> N!Owners]
      /\ \A z \in N!Addresses : truth'[z] = truth[z] \/ z \in job.drop
    BY DEF N!Detach, AnchorInv, N!Owners
<1>4. JobTyped'
    BY <1>1 DEF AnchorInv, JobTyped
<1>5. driver = "solusvm2" => truth'[N!Primary] = "anchor"
    BY <1>3, AnchorConstants DEF AnchorInv
<1>6. Doomed' = Doomed
    BY <1>0, <1>1, <1>3 DEF Doomed, AnchorInv, JobTyped
<1>7. job'.failed = 0 => job.failed = 0
    BY <1>1 DEF AnchorInv, JobTyped
<1> QED BY <1>0, <1>1, <1>2, <1>3, <1>4, <1>5, <1>6, <1>7 DEF AnchorInv

(***************************************************************************)
(* A request that attaches: one that succeeds was not doomed.              *)
(***************************************************************************)
LEMMA AttachStep == ASSUME AnchorInv, N!Attach PROVE AnchorInv'
<1>0. job.pc = "attach" /\ UNCHANGED <<driver, events>>
    BY DEF N!Attach
<1>1. PICK u \in job.left :
         \/ /\ truth[u] = "free" /\ truth' = [truth EXCEPT ![u] = "anchor"]
            /\ wrote' = [wrote EXCEPT !.attached = @ \union {u}] /\ job' = N!Onward(u)
         \/ job' = N!Failed(N!Onward(u)) /\ UNCHANGED <<truth, wrote>>
    BY DEF N!Attach
<1>2. CASE /\ truth[u] = "free" /\ truth' = [truth EXCEPT ![u] = "anchor"]
           /\ wrote' = [wrote EXCEPT !.attached = @ \union {u}] /\ job' = N!Onward(u)
    <2>1. /\ job'.pc = "attach" /\ job'.attach = job.attach /\ job'.left = job.left \ {u} /\ job'.drop = job.drop
          /\ job'.failed = job.failed
          /\ job' = [pc |-> job'.pc, listed |-> job'.listed, attach |-> job'.attach, detach |-> job'.detach,
                     left |-> job'.left, drop |-> job'.drop, conf |-> job'.conf, failed |-> job'.failed]
        BY <1>0, <1>2 DEF N!Onward, AnchorInv, JobTyped
    <2>2. wrote'.attached = wrote.attached \cup {u} /\ wrote' = [attached |-> wrote'.attached, detached |-> wrote'.detached]
        BY <1>2 DEF AnchorInv
    <2>3. truth' \in [N!Addresses -> N!Owners] /\ \A z \in N!Addresses : truth'[z] = IF z = u THEN "anchor" ELSE truth[z]
        BY <1>2 DEF AnchorInv, N!Owners
    <2>4. JobTyped'
        BY <2>1 DEF AnchorInv, JobTyped
    <2>5. Doomed' = Doomed
        BY <1>2, <2>1, <2>3 DEF Doomed, AnchorInv, JobTyped
    <2>6. driver = "solusvm2" => truth'[N!Primary] = "anchor"
        BY <2>3, AnchorConstants DEF AnchorInv
    <2> QED BY <1>0, <2>1, <2>2, <2>3, <2>4, <2>5, <2>6 DEF AnchorInv
<1>3. CASE job' = N!Failed(N!Onward(u)) /\ UNCHANGED <<truth, wrote>>
    <2>1. /\ job'.pc = "attach" /\ job'.attach = job.attach /\ job'.left \subseteq job.left /\ job'.drop = job.drop
          /\ job'.failed = job.failed + 1
          /\ job' = [pc |-> job'.pc, listed |-> job'.listed, attach |-> job'.attach, detach |-> job'.detach,
                     left |-> job'.left, drop |-> job'.drop, conf |-> job'.conf, failed |-> job'.failed]
        BY <1>0, <1>3 DEF N!Onward, N!Failed, AnchorInv, JobTyped
    <2>2. JobTyped' /\ job'.failed # 0
        BY <2>1 DEF AnchorInv, JobTyped
    <2> QED BY <1>0, <1>3, <2>1, <2>2 DEF AnchorInv
<1> QED BY <1>1, <1>2, <1>3

(***************************************************************************)
(* The end of it: with nothing left to send nothing is doomed, so every    *)
(* new address was taken; and the rows that say so.                        *)
(***************************************************************************)
LEMMA FinishStep == ASSUME AnchorInv, N!Finish \/ N!RecordAttached \/ N!RecordDetached PROVE AnchorInv'
<1>0. UNCHANGED <<driver, truth, wrote, events>>
    BY DEF N!Finish, N!RecordAttached, N!RecordDetached
<1>1. CASE job' = N!Idle
    BY <1>0, <1>1, NoRun DEF AnchorInv
<1>2. ASSUME NEW step \in {"attached", "detached"}, job' = [job EXCEPT !.pc = step], job.attach \subseteq wrote.attached
      PROVE  AnchorInv'
    <2>1. /\ job'.pc = step /\ job'.attach = job.attach /\ job'.left = job.left /\ job'.drop = job.drop
          /\ job'.failed = job.failed
          /\ job' = [pc |-> job'.pc, listed |-> job'.listed, attach |-> job'.attach, detach |-> job'.detach,
                     left |-> job'.left, drop |-> job'.drop, conf |-> job'.conf, failed |-> job'.failed]
        BY <1>2 DEF AnchorInv, JobTyped
    <2>2. JobTyped'
        BY <2>1 DEF AnchorInv, JobTyped
    <2> QED BY <1>0, <1>2, <2>1, <2>2 DEF AnchorInv
<1>3. CASE N!Finish /\ job' # N!Idle
    <2>1. job.pc = "attach" /\ job.left = {} /\ job.failed = 0 /\ job' = [job EXCEPT !.pc = "attached"]
        BY <1>3 DEF N!Finish
    <2>2. Cardinality(Doomed) = 0
        BY <2>1, FS_EmptySet DEF Doomed
    <2>3. job.attach \subseteq wrote.attached
        BY <2>1, <2>2, AnchorConstants DEF AnchorInv
    <2> QED BY <1>2, <2>1, <2>3
<1>4. CASE N!RecordAttached
    BY <1>2, <1>4 DEF N!RecordAttached, AnchorInv
<1> QED BY <1>1, <1>3, <1>4 DEF N!RecordDetached

(***************************************************************************)
(* One act of people takes one address away from the anchor, or saves one  *)
(* request from failing.                                                   *)
(***************************************************************************)
LEMMA PeopleStep == ASSUME AnchorInv, N!ByHand PROVE AnchorInv'
<1>0. /\ UNCHANGED <<driver, wrote, job>>
      /\ events' = events + 1 /\ events < MaxMoves
    BY DEF N!ByHand, N!Move, N!Reserve, N!ChangeDisks, N!Release, N!Event
<1>1. PICK u : /\ truth' \in [N!Addresses -> N!Owners] /\ truth'[N!Primary] = truth[N!Primary]
               /\ \A z \in N!Addresses : z = u \/ truth'[z] = truth[z]
    <2>1. CASE N!Move
        <3>1. PICK u \in N!Addresses \ {N!Primary}, o \in N!Owners : truth' = [truth EXCEPT ![u] = o]
            BY <2>1 DEF N!Move
        <3>2. truth \in [N!Addresses -> N!Owners] /\ N!Primary \in N!Addresses
            BY AnchorConstants DEF AnchorInv
        <3> QED BY <3>1, <3>2
    <2>2. CASE truth' = truth
        BY <2>2 DEF AnchorInv
    <2> QED BY <2>1, <2>2 DEF N!ByHand, N!Reserve, N!ChangeDisks, N!Release
<1>2. JobTyped'
    BY <1>0 DEF AnchorInv, JobTyped
<1>3. events' \in Nat /\ events' <= MaxMoves
    BY <1>0, AnchorConstants DEF AnchorInv
<1>4. ASSUME job.pc \in {"plan", "open"} PROVE Cardinality(Gone') <= events'
    <2>1. Gone' \subseteq Gone \cup {u} /\ Gone \in SUBSET N!Addresses /\ Gone' \in SUBSET N!Addresses
        BY <1>0, <1>1, <1>4 DEF AnchorInv, Gone, N!On
    <2>2. Cardinality(Gone') <= Cardinality(Gone) + 1 /\ Cardinality(Gone) \in Nat /\ Cardinality(Gone') \in Nat
        BY <2>1, OneLess, AddressesCount
    <2>3. Cardinality(Gone) <= events
        BY <1>4 DEF AnchorInv
    <2> QED BY <1>0, <2>2, <2>3 DEF AnchorInv
<1>5. ASSUME Cardinality(Doomed) > MaxMoves - events PROVE Cardinality(Doomed') > MaxMoves - events'
    <2>1. Doomed \subseteq Doomed' \cup {u} /\ Doomed \in SUBSET N!Addresses /\ Doomed' \in SUBSET N!Addresses
        BY <1>0, <1>1 DEF AnchorInv, JobTyped, Doomed
    <2>2. Cardinality(Doomed) <= Cardinality(Doomed') + 1 /\ Cardinality(Doomed) \in Nat /\ Cardinality(Doomed') \in Nat
        BY <2>1, OneLess, AddressesCount
    <2> QED BY <1>0, <1>5, <2>2, AnchorConstants DEF AnchorInv
<1> QED BY <1>0, <1>1, <1>2, <1>3, <1>4, <1>5 DEF AnchorInv

(***************************************************************************)
(* Every step of the anchor's run, of people and of a restart keeps        *)
(* AnchorInv.                                                              *)
(***************************************************************************)
LEMMA AnchorStep == ASSUME Cap + MaxMoves <= NodeCap, AnchorInv, N!Next PROVE AnchorInv'
<1>1. CASE N!Crash
    <2>1. job' = N!Idle /\ events' = events + 1 /\ events < MaxMoves /\ UNCHANGED <<driver, truth, wrote>>
        BY <1>1 DEF N!Crash, N!Event
    <2>2. events' \in Nat /\ events' <= MaxMoves
        BY <2>1, AnchorConstants DEF AnchorInv
    <2> QED BY <2>1, <2>2, NoRun DEF AnchorInv
<1>2. CASE N!Job
    BY <1>2, ListStep, PlanStep, VirtualizorStep, ListAgainStep, DetachStep, AttachStep, FinishStep DEF N!Job
<1> QED BY <1>1, <1>2, PeopleStep DEF N!Next

(***************************************************************************)
(* For every number of addresses, blocks, failures and limits where the    *)
(* hypervisor's limit leaves room beside the anchor's for what people do   *)
(* meanwhile: whatever fails, in whatever order listings, requests, people *)
(* and restarts come, SolusVM's anchor keeps its own address, and what is  *)
(* recorded as attached was taken by the hypervisor or seen on the anchor  *)
(* (applyNode of worker/vz-sync.mjs, writeVpsIps of both clients).         *)
(***************************************************************************)
THEOREM AnchorKeptAlways == ASSUME Cap + MaxMoves <= NodeCap PROVE Spec => []AnchorKept
<1>1. Init => AnchorInv
    <2> SUFFICES ASSUME N!Init PROVE AnchorInv
        BY DEF Init
    <2>1. /\ job.pc = "idle" /\ job.attach = {} /\ job.left = {} /\ job.drop = {} /\ job.failed = 0
          /\ job = [pc |-> job.pc, listed |-> job.listed, attach |-> job.attach, detach |-> job.detach,
                    left |-> job.left, drop |-> job.drop, conf |-> job.conf, failed |-> job.failed]
        BY DEF N!Init, N!Idle
    <2>2. JobTyped
        BY <2>1, FS_EmptySet, AnchorConstants DEF JobTyped
    <2> QED BY <2>1, <2>2, AnchorConstants DEF AnchorInv, N!Init, N!Nothing
<1>2. AnchorInv /\ [Next]_vars => AnchorInv'
    <2> SUFFICES ASSUME AnchorInv, [Next]_vars PROVE AnchorInv'
        OBVIOUS
    <2>1. CASE N!Next
        BY <2>1, AnchorStep
    <2>2. CASE UNCHANGED nvars
        <3>1. UNCHANGED <<driver, truth, job, wrote, events>>
            BY <2>2 DEF nvars
        <3> QED BY <3>1 DEF AnchorInv, JobTyped, Gone, Doomed, N!On
    <2>3. N!Next \/ UNCHANGED nvars
        BY DEF Next, vars, OnlyMessages, OnlyMail, OnlyTickets, OnlyAnchor, OnlyBilling, OnlyCalendar, OnlyDiff,
            OnlySignIn, OnlyLimiter, OnlyAnnouncements, OnlySettings, OnlyFleet, OnlyBackfill
    <2> QED BY <2>1, <2>2, <2>3
<1>3. AnchorInv => AnchorKept
    BY DEF AnchorInv, AnchorKept, N!AnchorKept, N!NothingCutOff
<1> QED BY <1>1, <1>2, <1>3, PTL DEF Spec

(***************************************************************************)
(* What the assumption on the constants says of the recipients.            *)
(***************************************************************************)
LEMMA RecipientsFinite == IsFiniteSet(B!Recipients) /\ B!Recipients \subseteq Nat /\ 0 \notin B!Recipients
<1>1. Addressees \in Nat
    BY OfficeAssumption DEF OfficeAssumption, B!BroadcastsAssumption
<1> QED BY <1>1, FS_Interval DEF B!Recipients

(***************************************************************************)
(* The broadcast, its rows, the worker and the faults, as records and      *)
(* functions.                                                              *)
(***************************************************************************)
BroadcastTyped ==
    /\ bc = [status |-> bc.status, sent |-> bc.sent, failed |-> bc.failed]
    /\ rows \in [B!Recipients -> {"none", "pending", "sent", "failed"}]
    /\ form \in Nat
    /\ worker = [pc |-> worker.pc, left |-> worker.left, row |-> worker.row, ok |-> worker.ok]
    /\ faults = [crashes |-> faults.crashes, lost |-> faults.lost, retries |-> faults.retries]
    /\ worker.ok \in BOOLEAN /\ again \in Nat /\ faults.crashes \in Nat /\ faults.lost \in Nat

(***************************************************************************)
(* The customers that have the message and may be sent it again: those     *)
(* whose rows do not say so, nor are about to.                             *)
(***************************************************************************)
Exposed == {r \in B!Recipients : r \in got /\ rows[r] # "sent" /\ ~(worker.pc = "mark" /\ worker.ok /\ worker.row = r)}

(***************************************************************************)
(* The inductive form of OnceUnlessCrash.  The rows the worker holds wait, *)
(* and none waits that the request has not written yet.  Every message     *)
(* that came again, and every customer exposed to one, is paid for by a    *)
(* restart or a lost answer.  After a cancellation one message goes out    *)
(* and then no other is under way.                                         *)
(***************************************************************************)
BroadcastInv ==
    /\ BroadcastTyped
    /\ bc.status = "none" => form = 0
    /\ \A r \in B!Recipients : r >= form => rows[r] = "none"
    /\ worker.left \subseteq {r \in B!Recipients : rows[r] = "pending"}
    /\ worker.pc \in {"send", "mark"} =>
          worker.row \in B!Recipients \ worker.left /\ rows[worker.row] = "pending"
    /\ again + Cardinality(Exposed) <= faults.crashes + faults.lost
    /\ late \in {0, 1}
    /\ late = 1 /\ bc.status = "canceled" => worker.pc # "send"

(***************************************************************************)
(* The exposed customers can be counted, also with one more or one less.   *)
(***************************************************************************)
LEMMA ExposedCount ==
    ASSUME NEW X \in SUBSET B!Recipients, NEW w
    PROVE  /\ IsFiniteSet(X) /\ Cardinality(X) \in Nat
           /\ Cardinality(X \cup {w}) = IF w \in X THEN Cardinality(X) ELSE Cardinality(X) + 1
           /\ Cardinality(X \ {w}) = IF w \in X THEN Cardinality(X) - 1 ELSE Cardinality(X)
           /\ IsFiniteSet(X \cup {w}) /\ Cardinality(X \cup {w}) \in Nat
<1>1. IsFiniteSet(X)
    BY RecipientsFinite, FS_Subset
<1>2. IsFiniteSet(X \cup {w})
    BY <1>1, FS_AddElement
<1> QED BY <1>1, <1>2, FS_CardinalityType, FS_AddElement, FS_RemoveElement

(***************************************************************************)
(* The statements of the panel expose nobody: they put back only rows      *)
(* whose sending failed, and write only rows that are new.                 *)
(***************************************************************************)
LEMMA PanelStep == ASSUME BroadcastInv, B!Panel PROVE BroadcastInv'
<1>0. UNCHANGED <<worker, got, again>>
    BY DEF B!Panel, B!Post, B!PostRow, B!Cancel, B!RetryFailed, B!RetryQueued
<1>1. /\ faults'.crashes = faults.crashes /\ faults'.lost = faults.lost
      /\ faults' = [crashes |-> faults'.crashes, lost |-> faults'.lost, retries |-> faults'.retries]
    BY DEF B!Panel, B!Post, B!PostRow, B!Cancel, B!RetryFailed, B!RetryQueued, BroadcastInv, BroadcastTyped
<1>2. /\ rows' \in [B!Recipients -> {"none", "pending", "sent", "failed"}]
      /\ \A r \in B!Recipients : /\ rows'[r] # rows[r] => rows'[r] = "pending" /\ rows[r] # "sent"
                                 /\ rows'[r] # rows[r] /\ rows[r] = "none" => r = form /\ form' = form + 1
    BY DEF B!Panel, B!Post, B!PostRow, B!Cancel, B!RetryFailed, B!RetryQueued, B!PutBack, BroadcastInv, BroadcastTyped
<1>3. /\ form' \in Nat
      /\ form' = form \/ (form = 0 /\ form' = 1) \/ (form \in B!Recipients /\ form' = form + 1)
    BY DEF B!Panel, B!Post, B!PostRow, B!Cancel, B!RetryFailed, B!RetryQueued, BroadcastInv, BroadcastTyped
<1>4. bc' = [status |-> bc'.status, sent |-> bc'.sent, failed |-> bc'.failed] /\ late' \in {0, 1}
    BY DEF B!Panel, B!Post, B!PostRow, B!Cancel, B!RetryFailed, B!RetryQueued, BroadcastInv, BroadcastTyped
<1>10. /\ bc'.status = "none" => bc.status = "none" /\ form' = form
       /\ late' = 1 /\ bc'.status = "canceled" => late = 1 /\ bc.status = "canceled"
    <2>1. CASE B!Post
        <3>1. bc'.status = "queued"
            BY <2>1 DEF B!Post, BroadcastInv, BroadcastTyped
        <3> QED BY <3>1
    <2>2. CASE B!Cancel
        <3>1. bc'.status = "canceled" /\ late' = 0
            BY <2>2 DEF B!Cancel, BroadcastInv, BroadcastTyped
        <3> QED BY <3>1
    <2>3. CASE B!RetryQueued
        <3>1. bc'.status = "queued"
            BY <2>3 DEF B!RetryQueued, BroadcastInv, BroadcastTyped
        <3> QED BY <3>1
    <2>4. CASE B!PostRow \/ B!RetryFailed
        BY <2>4, RecipientsFinite DEF B!PostRow, B!RetryFailed, BroadcastInv, BroadcastTyped
    <2> QED BY <2>1, <2>2, <2>3, <2>4 DEF B!Panel
<1>5. BroadcastTyped'
    BY <1>0, <1>1, <1>2, <1>3, <1>4 DEF BroadcastInv, BroadcastTyped
<1>6. \A r \in B!Recipients : r >= form' => rows'[r] = "none"
    BY <1>2, <1>3, RecipientsFinite DEF BroadcastInv, BroadcastTyped
<1>7. Exposed' = Exposed
    BY <1>0, <1>2 DEF Exposed
<1>8. worker.left \subseteq {r \in B!Recipients : rows'[r] = "pending"}
    BY <1>2 DEF BroadcastInv
<1>9. worker.pc \in {"send", "mark"} => rows'[worker.row] = "pending"
    BY <1>2 DEF BroadcastInv
<1> QED BY <1>0, <1>1, <1>4, <1>10, <1>5, <1>6, <1>7, <1>8, <1>9 DEF BroadcastInv

(***************************************************************************)
(* A step of the worker that sends nothing and marks nothing: the rows it  *)
(* takes wait, and it turns to one of them only while the broadcast is not *)
(* cancelled.                                                              *)
(***************************************************************************)
LEMMA RoundStep == ASSUME BroadcastInv, B!Drain \/ B!Select \/ B!Finish \/ B!Check \/ B!Count PROVE BroadcastInv'
<1>0. UNCHANGED <<rows, form, got, again, late, faults>> /\ worker.pc \notin {"send", "mark"}
    BY Zenon DEF B!Drain, B!Select, B!Finish, B!Check, B!Count
<1>1. bc' = [status |-> bc'.status, sent |-> bc'.sent, failed |-> bc'.failed]
    BY Zenon DEF B!Drain, B!Select, B!Finish, B!Check, B!Count, BroadcastInv, BroadcastTyped
<1>2. /\ worker' = [pc |-> worker'.pc, left |-> worker'.left, row |-> worker'.row, ok |-> worker'.ok]
      /\ worker'.pc # "mark" /\ (bc'.status = "none" => bc.status = "none")
      /\ worker'.left \subseteq {r \in B!Recipients : rows[r] = "pending"}
      /\ worker'.pc = "send" => /\ worker'.row \in B!Recipients \ worker'.left /\ rows[worker'.row] = "pending"
                                /\ bc'.status # "canceled"
      /\ worker'.ok \in BOOLEAN
    <2>0. worker = [pc |-> worker.pc, left |-> worker.left, row |-> worker.row, ok |-> worker.ok]
          /\ worker.left \subseteq {r \in B!Recipients : rows[r] = "pending"} /\ worker.ok \in BOOLEAN
        BY DEF BroadcastInv, BroadcastTyped
    <2>1. CASE worker' = B!Idle /\ (bc'.status = "none" => bc.status = "none")
        BY <2>1 DEF B!Idle
    <2>2. CASE B!Drain
        <3>1. bc'.status # "none"
            BY <2>2 DEF B!Drain, BroadcastInv, BroadcastTyped
        <3>2. /\ worker'.pc = "select" /\ worker'.left = {} /\ worker'.ok = FALSE
              /\ worker' = [pc |-> worker'.pc, left |-> worker'.left, row |-> worker'.row, ok |-> worker'.ok]
            BY <2>2 DEF B!Drain, B!Idle
        <3> QED BY <3>1, <3>2
    <2>3. CASE B!Select /\ B!Waiting = {}
        <3>1. worker' = [worker EXCEPT !.pc = "finish"] /\ bc' = bc
            BY <2>3 DEF B!Select
        <3>2. worker'.pc = "finish" /\ worker'.left = worker.left
              /\ worker' = [pc |-> worker'.pc, left |-> worker'.left, row |-> worker'.row, ok |-> worker'.ok]
            BY <2>0, <3>1
        <3> QED BY <2>0, <3>1, <3>2
    <2>4. CASE B!Select /\ B!Waiting # {}
        <3>1. worker' = [worker EXCEPT !.pc = "check", !.left = B!Pending] /\ bc' = bc
            BY <2>4 DEF B!Select
        <3>2. worker'.pc = "check" /\ worker'.left = B!Pending /\ worker'.ok = worker.ok
              /\ worker' = [pc |-> worker'.pc, left |-> worker'.left, row |-> worker'.row, ok |-> worker'.ok]
            BY <2>0, <3>1
        <3> QED BY <2>0, <3>1, <3>2 DEF B!Pending, B!Waiting
    <2>5. CASE B!Check /\ B!GoesOn
        <3>1. PICK r \in worker.left : worker' = [worker EXCEPT !.pc = "send", !.row = r, !.left = @ \ {r}]
            BY <2>5, Zenon DEF B!Check
        <3>2. worker'.pc = "send" /\ worker'.left = worker.left \ {r} /\ worker'.row = r /\ worker'.ok = worker.ok
              /\ worker' = [pc |-> worker'.pc, left |-> worker'.left, row |-> worker'.row, ok |-> worker'.ok]
            BY <2>0, <3>1
        <3>3. bc' = bc /\ bc.status # "canceled"
            BY <2>5, Zenon DEF B!Check, B!GoesOn
        <3> QED BY <2>0, <3>2, <3>3
    <2>6. CASE B!Count
        <3>1. worker' = [worker EXCEPT !.pc = "check"] /\ bc'.status = bc.status
            BY <2>6 DEF B!Count, BroadcastInv, BroadcastTyped
        <3>2. worker'.pc = "check" /\ worker'.left = worker.left
              /\ worker' = [pc |-> worker'.pc, left |-> worker'.left, row |-> worker'.row, ok |-> worker'.ok]
            BY <2>0, <3>1
        <3> QED BY <2>0, <3>1, <3>2
    <2>7. CASE B!Finish
        BY <2>1, <2>7 DEF B!Finish, BroadcastInv, BroadcastTyped
    <2>8. CASE B!Check /\ ~B!GoesOn
        BY <2>1, <2>8 DEF B!Check
    <2> QED BY <2>2, <2>3, <2>4, <2>5, <2>6, <2>7, <2>8
<1>3. BroadcastTyped'
    BY <1>0, <1>1, <1>2 DEF BroadcastInv, BroadcastTyped
<1>7. Exposed' = Exposed
    BY <1>0, <1>2 DEF Exposed
<1> QED BY <1>0, <1>2, <1>3, <1>7 DEF BroadcastInv

(***************************************************************************)
(* Sending: a message that comes again goes to one who was exposed, who is *)
(* exposed no more when the answer comes, and is when it is lost.          *)
(***************************************************************************)
LEMMA MessageSent == ASSUME BroadcastInv, B!Send PROVE BroadcastInv'
<1> DEFINE w == worker.row
<1>0. worker.pc = "send" /\ UNCHANGED <<bc, rows, form>> /\ w \in B!Recipients /\ rows[w] = "pending"
    BY DEF B!Send, BroadcastInv
<1>1. PICK there \in BOOLEAN, ok \in BOOLEAN :
         /\ ok => there
         /\ worker' = [worker EXCEPT !.pc = "mark", !.ok = ok]
         /\ got' = IF there THEN got \union {w} ELSE got
         /\ again' = again + IF there /\ w \in got THEN 1 ELSE 0
         /\ faults' = [faults EXCEPT !.lost = @ + IF there /\ ~ok THEN 1 ELSE 0]
    BY Zenon DEF B!Send
<1>2. /\ worker' = [pc |-> worker'.pc, left |-> worker'.left, row |-> worker'.row, ok |-> worker'.ok]
      /\ worker'.pc = "mark" /\ worker'.left = worker.left /\ worker'.row = w /\ worker'.ok = ok
    BY <1>1 DEF BroadcastInv, BroadcastTyped
<1>3. /\ faults' = [crashes |-> faults'.crashes, lost |-> faults'.lost, retries |-> faults'.retries]
      /\ faults'.crashes = faults.crashes
      /\ faults'.lost = faults.lost + IF there /\ ~ok THEN 1 ELSE 0
    BY <1>1 DEF BroadcastInv, BroadcastTyped
<1>4. again' \in Nat /\ faults'.lost \in Nat /\ faults'.crashes \in Nat /\ BroadcastTyped'
    <2>1. again' \in Nat
        BY <1>1 DEF BroadcastInv, BroadcastTyped
    <2>2. faults'.lost \in Nat /\ faults'.crashes \in Nat
        BY <1>3 DEF BroadcastInv, BroadcastTyped
    <2> QED BY <1>0, <1>2, <1>3, <2>1, <2>2 DEF BroadcastInv, BroadcastTyped
<1>5. late' \in {0, 1}
    BY <1>0 DEF B!Send, BroadcastInv
<1>6. Exposed \in SUBSET B!Recipients /\ (w \in Exposed <=> w \in got)
    BY <1>0 DEF Exposed
<1>7. again' + Cardinality(Exposed') <= faults'.crashes + faults'.lost
    <2>0. again + Cardinality(Exposed) <= faults.crashes + faults.lost /\ again \in Nat /\ faults.crashes \in Nat /\ faults.lost \in Nat
        BY DEF BroadcastInv, BroadcastTyped
    <2>1. CASE ~there
        <3>1. Exposed' = Exposed
            BY <1>0, <1>1, <1>2, <2>1 DEF Exposed
        <3> QED BY <1>1, <1>3, <2>0, <2>1, <3>1
    <2>2. CASE there /\ ok
        <3>1. Exposed' = Exposed \ {w}
            BY <1>0, <1>1, <1>2, <2>2 DEF Exposed
        <3> HIDE DEF w
        <3>2. Cardinality(Exposed) \in Nat /\ Cardinality(Exposed \ {w}) = IF w \in Exposed THEN Cardinality(Exposed) - 1 ELSE Cardinality(Exposed)
            BY <1>6, ExposedCount
        <3> QED BY <1>1, <1>3, <1>6, <2>0, <2>2, <3>1, <3>2
    <2>3. CASE there /\ ~ok
        <3>1. Exposed' = Exposed \cup {w}
            BY <1>0, <1>1, <1>2, <2>3 DEF Exposed
        <3> HIDE DEF w
        <3>2. Cardinality(Exposed) \in Nat /\ Cardinality(Exposed \cup {w}) = IF w \in Exposed THEN Cardinality(Exposed) ELSE Cardinality(Exposed) + 1
            BY <1>6, ExposedCount
        <3> QED BY <1>1, <1>3, <1>6, <2>0, <2>3, <3>1, <3>2
    <2> QED BY <2>1, <2>2, <2>3
<1> QED BY <1>0, <1>2, <1>4, <1>5, <1>7 DEF BroadcastInv

(***************************************************************************)
(* The row of the customer who was sent the message says so, or that it    *)
(* failed.                                                                 *)
(***************************************************************************)
LEMMA MarkStep == ASSUME BroadcastInv, B!Mark PROVE BroadcastInv'
<1> DEFINE w == worker.row
<1>0. /\ worker.pc = "mark" /\ UNCHANGED <<bc, form, got, again, late, faults>>
      /\ w \in B!Recipients \ worker.left /\ rows[w] = "pending"
      /\ rows' = [rows EXCEPT ![w] = IF worker.ok THEN "sent" ELSE "failed"]
    BY DEF B!Mark, BroadcastInv
<1>1. /\ worker' = [pc |-> worker'.pc, left |-> worker'.left, row |-> worker'.row, ok |-> worker'.ok]
      /\ worker'.pc = "count" /\ worker'.left = worker.left /\ worker'.row = w /\ worker'.ok = worker.ok
    BY DEF B!Mark, BroadcastInv, BroadcastTyped
<1>2. /\ rows' \in [B!Recipients -> {"none", "pending", "sent", "failed"}]
      /\ \A r \in B!Recipients : rows'[r] = IF r = w THEN IF worker.ok THEN "sent" ELSE "failed" ELSE rows[r]
    BY <1>0 DEF BroadcastInv, BroadcastTyped
<1>3. BroadcastTyped'
    BY <1>0, <1>1, <1>2 DEF BroadcastInv, BroadcastTyped
<1>4. Exposed' = Exposed
    BY <1>0, <1>1, <1>2 DEF Exposed
<1>5. \A r \in B!Recipients : r >= form => rows'[r] = "none"
    BY <1>0, <1>2 DEF BroadcastInv
<1>6. worker'.left \subseteq {r \in B!Recipients : rows'[r] = "pending"}
    BY <1>0, <1>1, <1>2 DEF BroadcastInv
<1> QED BY <1>0, <1>1, <1>3, <1>4, <1>5, <1>6 DEF BroadcastInv

(***************************************************************************)
(* A restart between a message and its mark exposes one customer.          *)
(***************************************************************************)
LEMMA DyingStep == ASSUME BroadcastInv, B!Crash PROVE BroadcastInv'
<1> DEFINE w == worker.row
<1>0. UNCHANGED <<bc, rows, form, got, again, late>>
    BY DEF B!Crash
<1>1. /\ worker' = [pc |-> worker'.pc, left |-> worker'.left, row |-> worker'.row, ok |-> worker'.ok]
      /\ worker'.pc = "idle" /\ worker'.left = {} /\ worker'.ok \in BOOLEAN
    BY DEF B!Crash, B!Idle
<1>2. /\ faults' = [crashes |-> faults'.crashes, lost |-> faults'.lost, retries |-> faults'.retries]
      /\ faults'.crashes = faults.crashes + 1 /\ faults'.lost = faults.lost
    BY DEF B!Crash, BroadcastInv, BroadcastTyped
<1>3. BroadcastTyped'
    BY <1>0, <1>1, <1>2 DEF BroadcastInv, BroadcastTyped
<1>4. Exposed' \subseteq Exposed \cup {w} /\ Exposed \in SUBSET B!Recipients /\ Exposed' \in SUBSET B!Recipients
    BY <1>0, <1>1 DEF Exposed
<1>5. Cardinality(Exposed') <= Cardinality(Exposed) + 1 /\ Cardinality(Exposed) \in Nat /\ Cardinality(Exposed') \in Nat
    <2> HIDE DEF w
    <2>1. Exposed \in SUBSET B!Recipients /\ Exposed' \in SUBSET B!Recipients
        BY <1>4
    <2>2. /\ IsFiniteSet(Exposed \cup {w}) /\ Cardinality(Exposed \cup {w}) \in Nat /\ Cardinality(Exposed) \in Nat
          /\ Cardinality(Exposed \cup {w}) = IF w \in Exposed THEN Cardinality(Exposed) ELSE Cardinality(Exposed) + 1
        BY <2>1, ExposedCount
    <2>3. Cardinality(Exposed') \in Nat
        BY <2>1, ExposedCount
    <2>4. Cardinality(Exposed') <= Cardinality(Exposed \cup {w})
        BY <1>4, <2>2, FS_Subset
    <2> QED BY <2>2, <2>3, <2>4
<1>6. again + Cardinality(Exposed) <= faults.crashes + faults.lost /\ again \in Nat /\ faults.crashes \in Nat /\ faults.lost \in Nat
    BY DEF BroadcastInv, BroadcastTyped
<1>7. again' + Cardinality(Exposed') <= faults'.crashes + faults'.lost
    BY <1>0, <1>2, <1>5, <1>6
<1> QED BY <1>0, <1>1, <1>3, <1>7 DEF BroadcastInv

(***************************************************************************)
(* Every step of the panel and the worker, and a restart, keeps            *)
(* BroadcastInv.                                                           *)
(***************************************************************************)
LEMMA BroadcastStep == ASSUME BroadcastInv, B!Next PROVE BroadcastInv'
BY PanelStep, RoundStep, MessageSent, MarkStep, DyingStep DEF B!Next, B!Worker

(***************************************************************************)
(* BroadcastInv at the start.                                              *)
(***************************************************************************)
LEMMA BroadcastInit == ASSUME B!Init PROVE BroadcastInv
<1>1. BroadcastTyped
    BY DEF B!Init, B!Idle, B!NoFaults, BroadcastTyped
<1>2. Exposed = {}
    BY DEF B!Init, Exposed
<1>3. Cardinality(Exposed) = 0
    BY <1>2, FS_EmptySet
<1> QED BY <1>1, <1>3 DEF B!Init, B!Idle, B!NoFaults, BroadcastInv

(***************************************************************************)
(* What BroadcastInv says entails OnceUnlessCrash.                         *)
(***************************************************************************)
LEMMA BroadcastFollows == ASSUME BroadcastInv PROVE B!OnceUnlessCrash
<1>1. Cardinality(Exposed) \in Nat
    BY ExposedCount DEF Exposed
<1> QED BY <1>1 DEF BroadcastInv, BroadcastTyped, B!OnceUnlessCrash

(***************************************************************************)
(* The security and the ways of signing in there are, and a command with   *)
(* the code it expects.                                                    *)
(***************************************************************************)
MailConf == conf.security \in {"none", "starttls", "tls"} /\ conf.auth \in {"none", "PLAIN", "LOGIN"}
CommandWords == {"greeting", "EHLO", "STARTTLS", "AUTH PLAIN", "AUTH LOGIN", "user", "pass", "MAIL FROM", "RCPT TO", "DATA", "."}
Commands == [cmd : CommandWords, code : Nat]

(***************************************************************************)
(* Two lines, joined or added one after the other.                         *)
(***************************************************************************)
LEMMA TwoLines ==
    ASSUME NEW p, NEW q
    PROVE  <<p>> \o <<q>> = <<p, q>> /\ Append(<<p>>, q) = <<p, q>>
<1> DEFINE one == <<p>>
           two == <<q>>
           both == <<p, q>>
<1>1. one \in Seq({p, q}) /\ two \in Seq({p, q}) /\ both \in Seq({p, q})
    OBVIOUS
<1>2. Len(one) = 1 /\ Len(two) = 1 /\ Len(both) = 2 /\ one[1] = p /\ two[1] = q /\ both[1] = p /\ both[2] = q
    OBVIOUS
<1>3. q \in {p, q}
    OBVIOUS
<1> HIDE DEF one, two, both
<1>4. one \o two \in Seq({p, q})
    BY <1>1, ConcatProperties
<1>5. one \o two = both
    <2>1. Len(one \o two) = Len(one) + Len(two)
        BY <1>1, ConcatProperties
    <2>2. \A i \in 1 .. Len(one) + Len(two) : (one \o two)[i] = IF i <= Len(one) THEN one[i] ELSE two[i - Len(one)]
        BY <1>1, ConcatProperties
    <2>3. (one \o two)[1] = p /\ (one \o two)[2] = q
        BY <1>2, <2>2
    <2> QED BY <1>1, <1>2, <1>4, <2>1, <2>3, SeqEqual
<1>6. /\ Append(one, q) \in Seq({p, q}) /\ Len(Append(one, q)) = 2
      /\ Append(one, q)[1] = p /\ Append(one, q)[2] = q
    <2>1. Append(one, q) \in Seq({p, q}) /\ Len(Append(one, q)) = Len(one) + 1
        BY <1>1, <1>3, AppendProperties
    <2>2. Append(one, q)[Len(one) + 1] = q
        BY <1>1, <1>3, AppendProperties
    <2>3. \A i \in 1 .. Len(one) : Append(one, q)[i] = one[i]
        BY <1>1, <1>3, AppendProperties
    <2> QED BY <1>2, <2>1, <2>2, <2>3
<1>7. Append(one, q) = both
    BY <1>1, <1>2, <1>6, SeqEqual
<1> QED BY <1>5, <1>7 DEF one, two, both

(***************************************************************************)
(* However it is secured and signed in to, a sending ends with the message *)
(* itself, which is taken with a 250.                                      *)
(***************************************************************************)
LEMMA ScriptEnds ==
    ASSUME MailConf
    PROVE  S!Script \in Seq(Commands) /\ Len(S!Script) >= 1 /\ S!Script[Len(S!Script)] = [cmd |-> ".", code |-> 250]
<1> DEFINE secured == IF conf.security = "starttls" THEN S!Step("STARTTLS", 220) \o S!Step("EHLO", 250) ELSE <<>>
           known == CASE conf.auth = "none" -> <<>>
                      [] conf.auth = "PLAIN" -> S!Step("AUTH PLAIN", 235)
                      [] conf.auth = "LOGIN" -> S!Step("AUTH LOGIN", 334) \o S!Step("user", 334) \o S!Step("pass", 235)
           start == S!Step("greeting", 220) \o S!Step("EHLO", 250) \o secured \o known
                    \o S!Step("MAIL FROM", 250) \o S!Step("RCPT TO", 250) \o S!Step("DATA", 354)
           dot == S!Step(".", 250)
<1>1. S!Script = start \o dot
    BY DEF S!Script
<1>2. ASSUME NEW cmd \in CommandWords, NEW code \in Nat PROVE S!Step(cmd, code) \in Seq(Commands)
    BY DEF S!Step, Commands
<1>g. S!Step("greeting", 220) \in Seq(Commands)
    <2>1. "greeting" \in CommandWords /\ 220 \in Nat
        BY DEF CommandWords
    <2> QED BY <1>2, <2>1, Zenon
<1>e. S!Step("EHLO", 250) \in Seq(Commands)
    <2>1. "EHLO" \in CommandWords /\ 250 \in Nat
        BY DEF CommandWords
    <2> QED BY <1>2, <2>1, Zenon
<1>t. S!Step("STARTTLS", 220) \in Seq(Commands)
    <2>1. "STARTTLS" \in CommandWords /\ 220 \in Nat
        BY DEF CommandWords
    <2> QED BY <1>2, <2>1, Zenon
<1>p. S!Step("AUTH PLAIN", 235) \in Seq(Commands)
    <2>1. "AUTH PLAIN" \in CommandWords /\ 235 \in Nat
        BY DEF CommandWords
    <2> QED BY <1>2, <2>1, Zenon
<1>l. S!Step("AUTH LOGIN", 334) \in Seq(Commands)
    <2>1. "AUTH LOGIN" \in CommandWords /\ 334 \in Nat
        BY DEF CommandWords
    <2> QED BY <1>2, <2>1, Zenon
<1>u. S!Step("user", 334) \in Seq(Commands)
    <2>1. "user" \in CommandWords /\ 334 \in Nat
        BY DEF CommandWords
    <2> QED BY <1>2, <2>1, Zenon
<1>w. S!Step("pass", 235) \in Seq(Commands)
    <2>1. "pass" \in CommandWords /\ 235 \in Nat
        BY DEF CommandWords
    <2> QED BY <1>2, <2>1, Zenon
<1>m. S!Step("MAIL FROM", 250) \in Seq(Commands)
    <2>1. "MAIL FROM" \in CommandWords /\ 250 \in Nat
        BY DEF CommandWords
    <2> QED BY <1>2, <2>1, Zenon
<1>r. S!Step("RCPT TO", 250) \in Seq(Commands)
    <2>1. "RCPT TO" \in CommandWords /\ 250 \in Nat
        BY DEF CommandWords
    <2> QED BY <1>2, <2>1, Zenon
<1>d. S!Step("DATA", 354) \in Seq(Commands)
    <2>1. "DATA" \in CommandWords /\ 354 \in Nat
        BY DEF CommandWords
    <2> QED BY <1>2, <2>1, Zenon
<1>z. S!Step(".", 250) \in Seq(Commands)
    <2>1. "." \in CommandWords /\ 250 \in Nat
        BY DEF CommandWords
    <2> QED BY <1>2, <2>1, Zenon
<1>3. ASSUME NEW one \in Seq(Commands), NEW two \in Seq(Commands) PROVE one \o two \in Seq(Commands)
    BY <1>3, ConcatProperties
<1>4. secured \in Seq(Commands)
    <2>1. <<>> \in Seq(Commands)
        OBVIOUS
    <2>2. S!Step("STARTTLS", 220) \o S!Step("EHLO", 250) \in Seq(Commands)
        BY <1>3, <1>e, <1>t, Zenon
    <2> QED BY <2>1, <2>2, Zenon
<1>5. known \in Seq(Commands)
    <2>1. <<>> \in Seq(Commands)
        OBVIOUS
    <2>2. S!Step("AUTH LOGIN", 334) \o S!Step("user", 334) \in Seq(Commands)
        BY <1>3, <1>l, <1>u, Zenon
    <2>3. S!Step("AUTH LOGIN", 334) \o S!Step("user", 334) \o S!Step("pass", 235) \in Seq(Commands)
        <3> DEFINE name == S!Step("AUTH LOGIN", 334) \o S!Step("user", 334)
                   secret == S!Step("pass", 235)
        <3>1. name \in Seq(Commands) /\ secret \in Seq(Commands)
            BY <1>w, <2>2, Zenon
        <3> HIDE DEF name, secret
        <3>2. name \o secret \in Seq(Commands)
            BY <1>3, <3>1
        <3> QED BY <3>2, Zenon DEF name, secret
    <2>4. CASE conf.auth = "none"
        BY <2>1, <2>4
    <2>5. CASE conf.auth = "PLAIN"
        BY <1>p, <2>5, Zenon
    <2>6. CASE conf.auth = "LOGIN"
        BY <2>3, <2>6, Zenon
    <2> QED BY <2>4, <2>5, <2>6, Zenon DEF MailConf
<1> HIDE DEF secured, known
<1>6. start \in Seq(Commands)
    <2>1. S!Step("greeting", 220) \o S!Step("EHLO", 250) \in Seq(Commands)
        BY <1>3, <1>e, <1>g, Zenon
    <2>2. S!Step("greeting", 220) \o S!Step("EHLO", 250) \o secured \in Seq(Commands)
        BY <1>3, <1>4, <2>1, Zenon
    <2>3. S!Step("greeting", 220) \o S!Step("EHLO", 250) \o secured \o known \in Seq(Commands)
        BY <1>3, <1>5, <2>2, Zenon
    <2>4. S!Step("greeting", 220) \o S!Step("EHLO", 250) \o secured \o known \o S!Step("MAIL FROM", 250) \in Seq(Commands)
        BY <1>3, <1>m, <2>3, Zenon
    <2>5. S!Step("greeting", 220) \o S!Step("EHLO", 250) \o secured \o known \o S!Step("MAIL FROM", 250)
             \o S!Step("RCPT TO", 250) \in Seq(Commands)
        BY <1>3, <1>r, <2>4, Zenon
    <2> DEFINE sofar == S!Step("greeting", 220) \o S!Step("EHLO", 250) \o secured \o known \o S!Step("MAIL FROM", 250)
                         \o S!Step("RCPT TO", 250)
               data == S!Step("DATA", 354)
    <2>6. sofar \in Seq(Commands) /\ data \in Seq(Commands)
        BY <1>d, <2>5, Zenon
    <2>7. start = sofar \o data
        OBVIOUS
    <2> HIDE DEF start, sofar, data
    <2>8. sofar \o data \in Seq(Commands)
        BY <1>3, <2>6
    <2> QED BY <2>7, <2>8
<1> HIDE DEF start
<1>7. dot = <<[cmd |-> ".", code |-> 250]>> /\ dot \in Seq(Commands)
    BY <1>z DEF S!Step
<1> HIDE DEF dot
<1>8. /\ start \o dot \in Seq(Commands) /\ Len(start \o dot) = Len(start) + 1
      /\ (start \o dot)[Len(start) + 1] = dot[1]
    BY <1>6, <1>7, ConcatProperties
<1> QED BY <1>1, <1>6, <1>7, <1>8, LenProperties

(***************************************************************************)
(* The lines of an answer that has come and is on its way: one line or     *)
(* two, of which only the second is the last.                              *)
(***************************************************************************)
First(code) == [code |-> code, last |-> FALSE]
Last(code) == [code |-> code, last |-> TRUE]
Answering(code) ==
    \/ buffer = <<>> /\ flight = <<Last(code)>>
    \/ buffer = <<Last(code)>> /\ flight = <<>>
    \/ buffer = <<>> /\ flight = <<First(code), Last(code)>>
    \/ buffer = <<First(code)>> /\ flight = <<Last(code)>>
    \/ buffer = <<First(code), Last(code)>> /\ flight = <<>>

(***************************************************************************)
(* The inductive form of VerdictIsRight: client and server are at the same *)
(* command and nothing is on its way; or the server has answered that      *)
(* command, and whatever the answer says wrong is known as trouble, and    *)
(* the message as accepted when the answer says so.                        *)
(***************************************************************************)
MailInv ==
    /\ MailConf
    /\ at \in 1 .. Len(S!Script)
    /\ accepted \in BOOLEAN /\ trouble \in BOOLEAN
    /\ result \in {"talking", "ok", "failed"}
    /\ result = "talking" =>
          \/ server = at /\ buffer = <<>> /\ flight = <<>>
          \/ /\ server = at + 1
             /\ \E code \in Nat :
                   /\ Answering(code)
                   /\ code # S!Script[at].code => trouble
                   /\ S!Script[at].cmd = "." /\ code = 250 => accepted
    /\ result = "ok" => accepted
    /\ result = "failed" => trouble

(***************************************************************************)
(* The commands of a sending are fixed when it begins.                     *)
(***************************************************************************)
LEMMA SameScript == ASSUME conf' = conf PROVE S!Script' = S!Script /\ (MailConf => MailConf')
<1>1. S!Script' = S!Script
    BY DEF S!Script, S!Step
<1> QED BY <1>1 DEF MailConf

(***************************************************************************)
(* The server answers one command, and only the one it was given.          *)
(***************************************************************************)
LEMMA ServerAnswers == ASSUME MailInv, NEW code \in {S!Script[at].code, 500}, S!Answer(code) PROVE MailInv'
<1>0. result = "talking" /\ server = at /\ UNCHANGED <<conf, at, buffer, result>>
    BY DEF S!Answer
<1>1. at \in Nat /\ S!Script' = S!Script /\ MailConf' /\ S!Script[at].code \in Nat
    <2>1. S!Script \in Seq(Commands)
        BY ScriptEnds DEF MailInv
    <2>2. S!Script[at] \in Commands
        BY <2>1, ElementOfSeq DEF MailInv
    <2> QED BY <1>0, <2>2, SameScript DEF MailInv, Commands
<1>2. buffer = <<>> /\ flight = <<>>
    BY <1>0, <1>1 DEF MailInv
<1>3. flight' = <<Last(code)>> \/ flight' = <<First(code), Last(code)>>
    <2>1. PICK more \in BOOLEAN :
             flight' = <<>> \o (IF more THEN <<[code |-> code, last |-> FALSE]>> ELSE <<>>) \o <<[code |-> code, last |-> TRUE]>>
        BY <1>2 DEF S!Answer
    <2>2. CASE more
        <3>1. flight' = <<>> \o <<First(code)>> \o <<Last(code)>>
            BY <2>1, <2>2 DEF First, Last
        <3>2. <<>> \o <<First(code)>> = <<First(code)>>
            OBVIOUS
        <3>3. <<First(code)>> \o <<Last(code)>> = <<First(code), Last(code)>>
            BY TwoLines
        <3> QED BY <3>1, <3>2, <3>3
    <2>3. CASE ~more
        <3>1. flight' = <<>> \o <<>> \o <<Last(code)>>
            BY <2>1, <2>3 DEF Last
        <3>2. <<>> \o <<>> = <<>> /\ <<>> \o <<Last(code)>> = <<Last(code)>>
            OBVIOUS
        <3> QED BY <3>1, <3>2
    <2> QED BY <2>2, <2>3
<1>4. Answering(code)'
    BY <1>0, <1>2, <1>3 DEF Answering
<1>5. /\ server' = at + 1
      /\ code # S!Script[at].code => trouble'
      /\ S!Script[at].cmd = "." /\ code = 250 => accepted'
      /\ accepted' \in BOOLEAN /\ trouble' \in BOOLEAN
    BY <1>0 DEF S!Answer, MailInv
<1>6. code \in Nat
    BY <1>1
<1> QED BY <1>0, <1>1, <1>4, <1>5, <1>6 DEF MailInv

(***************************************************************************)
(* A line that comes out of the socket.                                    *)
(***************************************************************************)
LEMMA ArriveStep == ASSUME MailInv, S!Arrive PROVE MailInv'
<1>0. /\ result = "talking" /\ flight # <<>> /\ UNCHANGED <<conf, at, server, accepted, trouble, result>>
      /\ buffer' = Append(buffer, Head(flight)) /\ flight' = Tail(flight)
    BY DEF S!Arrive
<1>1. S!Script' = S!Script /\ MailConf'
    BY <1>0, SameScript DEF MailInv
<1>2. ASSUME NEW code \in Nat, Answering(code) PROVE Answering(code)'
    <2>1. CASE buffer = <<>> /\ flight = <<Last(code)>>
        BY <1>0, <2>1 DEF Answering
    <2>2. CASE buffer = <<>> /\ flight = <<First(code), Last(code)>>
        BY <1>0, <2>2 DEF Answering
    <2>3. CASE buffer = <<First(code)>> /\ flight = <<Last(code)>>
        <3>1. buffer' = <<First(code), Last(code)>> /\ flight' = <<>>
            BY <1>0, <2>3, TwoLines
        <3> QED BY <3>1 DEF Answering
    <2> QED BY <1>0, <1>2, <2>1, <2>2, <2>3 DEF Answering
<1> QED BY <1>0, <1>1, <1>2 DEF MailInv

(***************************************************************************)
(* The first complete answer is the whole answer: it ends with the last    *)
(* line there is, and nothing is on its way.                               *)
(***************************************************************************)
LEMMA CompleteIs ==
    ASSUME NEW code \in Nat, Answering(code), S!CompleteResponse(buffer) > 0
    PROVE  /\ flight = <<>> /\ S!CompleteResponse(buffer) = Len(buffer)
           /\ buffer[Len(buffer)].code = code /\ buffer \in Seq([code : Nat, last : BOOLEAN]) /\ Len(buffer) \in {1, 2}
<1>0. First(code) \in [code : Nat, last : BOOLEAN] /\ Last(code) \in [code : Nat, last : BOOLEAN]
      /\ ~First(code).last /\ Last(code).last /\ Last(code).code = code
    BY DEF First, Last
<1>1. S!CompleteResponse(buffer) # 0
    OBVIOUS
<1>2. PICK n \in DOMAIN buffer : buffer[n].last /\ S!CompleteResponse(buffer) = n
    BY <1>1 DEF S!CompleteResponse
<1>3. CASE buffer = <<Last(code)>> /\ flight = <<>>
    BY <1>0, <1>2, <1>3
<1>4. CASE buffer = <<First(code), Last(code)>> /\ flight = <<>>
    BY <1>0, <1>2, <1>4
<1>5. CASE buffer = <<>>
    BY <1>2, <1>5
<1>6. CASE buffer = <<First(code)>>
    BY <1>0, <1>2, <1>6
<1> QED BY <1>3, <1>4, <1>5, <1>6 DEF Answering

(***************************************************************************)
(* The client reads an answer: it fails only on one that is wrong, ends    *)
(* only with the one to the message, and otherwise goes on with nothing    *)
(* left over.                                                              *)
(***************************************************************************)
LEMMA ClientReads == ASSUME MailInv, S!Read PROVE MailInv'
<1> DEFINE end == S!CompleteResponse(buffer)
<1>0. result = "talking" /\ end > 0 /\ UNCHANGED <<conf, server, flight, accepted, trouble>>
    BY DEF S!Read
<1>1. S!Script' = S!Script /\ MailConf'
    BY <1>0, SameScript DEF MailInv
<1>2. ~(buffer = <<>>)
    BY <1>0 DEF S!CompleteResponse
<1>3. PICK code \in Nat : /\ server = at + 1 /\ Answering(code)
                          /\ code # S!Script[at].code => trouble
                          /\ S!Script[at].cmd = "." /\ code = 250 => accepted
    BY <1>0, <1>2 DEF MailInv
<1>4. /\ flight = <<>> /\ end = Len(buffer) /\ buffer[end].code = code
      /\ buffer \in Seq([code : Nat, last : BOOLEAN]) /\ Len(buffer) \in {1, 2}
    BY <1>0, <1>3, CompleteIs
<1>5. CASE buffer[end].code # S!Script[at].code
    <2>1. result' = "failed" /\ at' = at
        BY <1>5 DEF S!Read
    <2> QED BY <1>0, <1>1, <1>3, <1>4, <1>5, <2>1 DEF MailInv
<1>6. CASE buffer[end].code = S!Script[at].code /\ at = Len(S!Script)
    <2>1. result' = "ok" /\ at' = at
        BY <1>6 DEF S!Read
    <2>2. accepted
        BY <1>3, <1>4, <1>6, ScriptEnds DEF MailInv
    <2> QED BY <1>0, <1>1, <2>1, <2>2 DEF MailInv
<1>7. CASE buffer[end].code = S!Script[at].code /\ at # Len(S!Script)
    <2>1. /\ at' = at + 1 /\ result' = result
          /\ buffer' = IF S!Script[at].cmd = "STARTTLS" THEN <<>> ELSE SubSeq(buffer, end + 1, Len(buffer))
        BY <1>7 DEF S!Read
    <2>2. SubSeq(buffer, end + 1, Len(buffer)) = <<>>
        BY <1>4, SubSeqEmpty
    <2>3. at' \in 1 .. Len(S!Script)
        BY <1>7, <2>1, ScriptEnds, LenProperties DEF MailInv
    <2> QED BY <1>0, <1>1, <1>3, <1>4, <2>1, <2>2, <2>3 DEF MailInv
<1> QED BY <1>5, <1>6, <1>7

(***************************************************************************)
(* Every step of the conversation keeps MailInv.                           *)
(***************************************************************************)
LEMMA MailStep == ASSUME MailInv, S!Next PROVE MailInv'
<1>1. CASE S!Lose
    <2>1. result' = "failed" /\ trouble' = TRUE /\ UNCHANGED <<conf, at, accepted>>
        BY <1>1 DEF S!Lose
    <2>2. S!Script' = S!Script /\ MailConf'
        BY <2>1, SameScript DEF MailInv
    <2> QED BY <2>1, <2>2 DEF MailInv
<1> QED BY <1>1, ServerAnswers, ArriveStep, ClientReads DEF S!Next

(***************************************************************************)
(* MailInv at the start.                                                   *)
(***************************************************************************)
LEMMA MailInit == ASSUME S!Init PROVE MailInv
<1>1. MailConf
    BY DEF S!Init, MailConf
<1>2. 1 \in 1 .. Len(S!Script)
    BY <1>1, ScriptEnds, LenProperties
<1> QED BY <1>1, <1>2 DEF S!Init, MailInv

(***************************************************************************)
(* A row of the table is right: its switch is as it was last meant, unless *)
(* it strayed, and each of its times is the one typed last, earlier by one *)
(* offset for each save since.                                             *)
(***************************************************************************)
Moments == Int \union {NoTime}
RowTyped(r) ==
    /\ r = [active |-> r.active, starts |-> r.starts, ends |-> r.ends, meant |-> r.meant, strayed |-> r.strayed,
            planned |-> r.planned, moved |-> r.moved]
    /\ r.active \in BOOLEAN /\ r.meant \in BOOLEAN /\ r.strayed \in BOOLEAN
    /\ r.starts \in Moments /\ r.ends \in Moments
    /\ r.planned["starts"] \in Moments /\ r.planned["ends"] \in Moments
    /\ r.moved["starts"] \in Nat /\ r.moved["ends"] \in Nat
Drifted(is, planned, moved) == is = IF planned = NoTime THEN NoTime ELSE planned - Zone * moved
RowRight(r) ==
    /\ RowTyped(r)
    /\ r.active = r.meant \/ r.strayed
    /\ Drifted(r.starts, r.planned["starts"], r.moved["starts"])
    /\ Drifted(r.ends, r.planned["ends"], r.moved["ends"])

(***************************************************************************)
(* What the constants of the announcements are.                            *)
(***************************************************************************)
LEMMA NewsConstants ==
    /\ Zone \in Nat /\ MaxMade \in Nat /\ MaxActs \in Nat /\ MaxTime \in Nat /\ NoTime \notin Int
    /\ \A p \in Plans : p.starts \in Moments /\ p.ends \in Moments
<1>1. T!AnnouncementsAssumption
    BY OfficeAssumption
<1>2. ASSUME NEW p \in Plans PROVE p.starts \in Moments /\ p.ends \in Moments
    <2>1. p \in [{"starts", "ends"} -> Int \union {NoTime}]
        BY <1>1 DEF T!AnnouncementsAssumption, T!Ends
    <2>2. p["starts"] \in Moments /\ p["ends"] \in Moments
        BY <2>1 DEF Moments
    <2> QED BY <2>2
<1> QED BY <1>1, <1>2 DEF T!AnnouncementsAssumption

(***************************************************************************)
(* One more save moves a time by one more offset.                          *)
(***************************************************************************)
LEMMA OneMoreSave ==
    ASSUME NEW is, NEW planned \in Moments, NEW moved \in Nat, Drifted(is, planned, moved)
    PROVE  Drifted(T!Digits(is), planned, moved + 1) /\ T!Digits(is) \in Moments
<1>1. Zone \in Nat /\ NoTime \notin Int
    BY NewsConstants
<1>2. CASE planned = NoTime
    BY <1>2 DEF Drifted, T!Digits, Moments
<1>3. CASE planned # NoTime
    <2>1. planned \in Int /\ is = planned - Zone * moved /\ is \in Int
        BY <1>1, <1>3 DEF Drifted, Moments
    <2>2. is # NoTime
        BY <1>1, <2>1
    <2>3. Zone * (moved + 1) = Zone * moved + Zone
        BY <1>1
    <2>4. T!Digits(is) = is - Zone
        BY <2>2 DEF T!Digits
    <2>5. is - Zone = planned - Zone * (moved + 1)
        BY <1>1, <2>1, <2>3
    <2> QED BY <1>1, <1>3, <2>1, <2>4, <2>5 DEF Drifted, Moments
<1> QED BY <1>2, <1>3

(***************************************************************************)
(* A time just typed is where it was typed.                                *)
(***************************************************************************)
LEMMA JustTyped == ASSUME NEW is \in Moments PROVE Drifted(is, is, 0)
<1>1. Zone \in Nat /\ NoTime \notin Int
    BY NewsConstants
<1>2. Zone * 0 = 0
    BY <1>1
<1>3. CASE is = NoTime
    BY <1>3 DEF Drifted
<1>4. CASE is # NoTime
    BY <1>1, <1>2, <1>4 DEF Drifted, Moments
<1> QED BY <1>3, <1>4

(***************************************************************************)
(* What a save of the edit form stores is right, whatever is typed over.   *)
(***************************************************************************)
LEMMA SavedIsRight ==
    ASSUME NEW r, RowRight(r), NEW p \in Plans, NEW ends \in SUBSET T!Ends, NEW meant \in BOOLEAN
    PROVE  RowRight(T!Stored(T!Typed(T!Filled(r), p, ends), meant))
<1> DEFINE f == T!Typed(T!Filled(r), p, ends)
           stored == T!Stored(f, meant)
<1>1. /\ f.starts = (IF "starts" \in ends THEN p.starts ELSE T!Digits(r.starts))
      /\ f.ends = (IF "ends" \in ends THEN p.ends ELSE T!Digits(r.ends))
      /\ f.typed = ends
    BY DEF T!Typed, T!Filled
<1>2. f.from.planned = r.planned /\ f.from.moved = r.moved
    BY DEF T!Typed, T!Filled
<1>3. f["starts"] = f.starts /\ f["ends"] = f.ends
    OBVIOUS
<1>4. /\ p.starts \in Moments /\ p.ends \in Moments
      /\ Drifted(T!Digits(r.starts), r.planned["starts"], r.moved["starts"] + 1) /\ T!Digits(r.starts) \in Moments
      /\ Drifted(T!Digits(r.ends), r.planned["ends"], r.moved["ends"] + 1) /\ T!Digits(r.ends) \in Moments
      /\ Drifted(p.starts, p.starts, 0) /\ Drifted(p.ends, p.ends, 0)
    BY NewsConstants, OneMoreSave, JustTyped DEF RowRight, RowTyped
<1> HIDE DEF f
<1>5. /\ stored.active = TRUE /\ stored.meant = meant /\ stored.strayed = ~meant
      /\ stored.starts = f.starts /\ stored.ends = f.ends
    BY DEF T!Stored
<1>0. stored = [active |-> stored.active, starts |-> stored.starts, ends |-> stored.ends, meant |-> stored.meant,
                strayed |-> stored.strayed, planned |-> stored.planned, moved |-> stored.moved]
    BY DEF T!Stored
<1>6. /\ stored.planned["starts"] = IF "starts" \in ends THEN f.starts ELSE r.planned["starts"]
      /\ stored.planned["ends"] = IF "ends" \in ends THEN f.ends ELSE r.planned["ends"]
    BY <1>1, <1>2, <1>3 DEF T!Stored, T!Ends
<1>7. /\ stored.moved["starts"] = IF "starts" \in ends THEN 0 ELSE r.moved["starts"] + 1
      /\ stored.moved["ends"] = IF "ends" \in ends THEN 0 ELSE r.moved["ends"] + 1
    BY <1>1, <1>2 DEF T!Stored, T!Ends
<1> HIDE DEF stored
<1>8. /\ stored.starts \in Moments /\ stored.planned["starts"] \in Moments /\ stored.moved["starts"] \in Nat
      /\ Drifted(stored.starts, stored.planned["starts"], stored.moved["starts"])
    <2>1. CASE "starts" \in ends
        BY <1>1, <1>4, <1>5, <1>6, <1>7, <2>1
    <2>2. CASE "starts" \notin ends
        BY <1>1, <1>4, <1>5, <1>6, <1>7, <2>2 DEF RowRight, RowTyped
    <2> QED BY <2>1, <2>2
<1>9. /\ stored.ends \in Moments /\ stored.planned["ends"] \in Moments /\ stored.moved["ends"] \in Nat
      /\ Drifted(stored.ends, stored.planned["ends"], stored.moved["ends"])
    <2>1. CASE "ends" \in ends
        BY <1>1, <1>4, <1>5, <1>6, <1>7, <2>1
    <2>2. CASE "ends" \notin ends
        BY <1>1, <1>4, <1>5, <1>6, <1>7, <2>2 DEF RowRight, RowTyped
    <2> QED BY <2>1, <2>2
<1>10. RowRight(stored)
    BY <1>0, <1>5, <1>8, <1>9 DEF RowRight, RowTyped
<1> QED BY <1>10 DEF stored, f

(***************************************************************************)
(* So is what is stored of a new announcement.                             *)
(***************************************************************************)
LEMMA PublishedIsRight ==
    ASSUME NEW p \in Plans
    PROVE  RowRight(T!Stored(T!Typed(T!Blank, p, T!Ends), TRUE))
<1> DEFINE f == T!Typed(T!Blank, p, T!Ends)
           stored == T!Stored(f, TRUE)
<1>1. f.starts = p.starts /\ f.ends = p.ends /\ f.typed = T!Ends
    BY DEF T!Typed, T!Blank, T!Ends
<1>3. f["starts"] = f.starts /\ f["ends"] = f.ends
    OBVIOUS
<1>4. p.starts \in Moments /\ p.ends \in Moments /\ Drifted(p.starts, p.starts, 0) /\ Drifted(p.ends, p.ends, 0)
    BY NewsConstants, JustTyped
<1> HIDE DEF f
<1>5. /\ stored.active = TRUE /\ stored.meant = TRUE /\ stored.strayed = FALSE
      /\ stored.starts = f.starts /\ stored.ends = f.ends
    BY DEF T!Stored
<1>0. stored = [active |-> stored.active, starts |-> stored.starts, ends |-> stored.ends, meant |-> stored.meant,
                strayed |-> stored.strayed, planned |-> stored.planned, moved |-> stored.moved]
    BY DEF T!Stored
<1>6. /\ stored.planned["starts"] = f.starts /\ stored.planned["ends"] = f.ends
      /\ stored.moved["starts"] = 0 /\ stored.moved["ends"] = 0
    BY <1>1, <1>3 DEF T!Stored, T!Ends
<1> HIDE DEF stored
<1>7. /\ Drifted(stored.starts, stored.planned["starts"], stored.moved["starts"])
      /\ Drifted(stored.ends, stored.planned["ends"], stored.moved["ends"])
    BY <1>1, <1>4, <1>5, <1>6
<1>8. RowTyped(stored)
    <2>1. stored.active \in BOOLEAN /\ stored.meant \in BOOLEAN /\ stored.strayed \in BOOLEAN
        BY <1>5
    <2>2. f.starts \in Moments /\ f.ends \in Moments
        BY <1>1, <1>4
    <2>3. /\ stored.starts \in Moments /\ stored.ends \in Moments
          /\ stored.planned["starts"] \in Moments /\ stored.planned["ends"] \in Moments
        BY <1>5, <1>6, <2>2
    <2>4. stored.moved["starts"] \in Nat /\ stored.moved["ends"] \in Nat
        BY <1>6
    <2> QED BY <1>0, <2>1, <2>3, <2>4 DEF RowTyped
<1>9. RowRight(stored)
    BY <1>5, <1>7, <1>8 DEF RowRight
<1> QED BY <1>9 DEF stored, f

(***************************************************************************)
(* A press of the switch means what the button said, and strays where the  *)
(* row no longer is as the list shows it.                                  *)
(***************************************************************************)
LEMMA TurnedIsRight ==
    ASSUME NEW r, RowRight(r), NEW shown \in BOOLEAN
    PROVE  RowRight(T!Turned(r, shown))
<1> DEFINE turned == T!Turned(r, shown)
<1>1. turned = [active |-> ~r.active, starts |-> r.starts, ends |-> r.ends, meant |-> ~shown,
                strayed |-> (shown # r.active), planned |-> r.planned, moved |-> r.moved]
    <2> DEFINE active == r.active
               starts == r.starts
               ends == r.ends
               meant == r.meant
               strayed == r.strayed
               planned == r.planned
               moved == r.moved
               row == [active |-> active, starts |-> starts, ends |-> ends, meant |-> meant, strayed |-> strayed,
                       planned |-> planned, moved |-> moved]
    <2>1. r = row
        BY DEF RowRight, RowTyped
    <2>2. turned = [r EXCEPT !.active = ~active, !.meant = ~shown, !.strayed = shown # active]
        BY DEF T!Turned
    <2> HIDE DEF active, starts, ends, meant, strayed, planned, moved, turned
    <2>3. turned = [row EXCEPT !.active = ~active, !.meant = ~shown, !.strayed = shown # active]
        BY <2>1, <2>2
    <2>4. turned = [active |-> ~active, starts |-> starts, ends |-> ends, meant |-> ~shown,
                    strayed |-> shown # active, planned |-> planned, moved |-> moved]
        BY <2>3
    <2> QED BY <2>4 DEF active, starts, ends, planned, moved
<1> HIDE DEF turned
<1>2. /\ turned.active = ~r.active /\ turned.meant = ~shown /\ turned.strayed = (shown # r.active)
      /\ turned.starts = r.starts /\ turned.ends = r.ends /\ turned.planned = r.planned /\ turned.moved = r.moved
      /\ turned = [active |-> turned.active, starts |-> turned.starts, ends |-> turned.ends, meant |-> turned.meant,
                   strayed |-> turned.strayed, planned |-> turned.planned, moved |-> turned.moved]
    BY <1>1
<1>3. /\ turned.active \in BOOLEAN /\ turned.meant \in BOOLEAN /\ turned.strayed \in BOOLEAN
      /\ turned.active = turned.meant \/ turned.strayed
    BY <1>2 DEF RowRight, RowTyped
<1>4. RowRight(turned)
    BY <1>2, <1>3 DEF RowRight, RowTyped
<1> QED BY <1>4 DEF turned

(***************************************************************************)
(* The inductive form of AnnouncementsHold: the rows of the table and of   *)
(* the lists loaded from it are right; no id is given twice; a press stays *)
(* among the reads until its row goes; and of a row about to go every      *)
(* press fell between the count and the deletion.                          *)
(***************************************************************************)
NewsTyped ==
    /\ made \in Nat /\ time \in Nat
    /\ DOMAIN board \subseteq 1 .. made
    /\ lists = [w \in Writers |-> lists[w]]
    /\ removing \in [Writers -> Nat]
RowsRight ==
    /\ \A id \in DOMAIN board : RowRight(board[id])
    /\ \A w \in Writers : \A id \in DOMAIN lists[w].rows : RowRight(lists[w].rows[id])
PressesKept ==
    /\ confirmed \subseteq Readers \X (1 .. made)
    /\ reads \subseteq confirmed
    /\ \A p \in confirmed : p \in reads \/ p \in overlapped
    /\ \A p \in confirmed : p[2] \in DOMAIN board => p \in reads
    /\ \A w \in Writers : removing[w] # 0 => \A p \in confirmed : p[2] = removing[w] => p \in overlapped
NewsInv == NewsTyped /\ RowsRight /\ PressesKept

(***************************************************************************)
(* The page of an admin is loaded anew.                                    *)
(***************************************************************************)
LEMMA LoadNews == ASSUME NewsInv, NEW w \in Writers, T!Load(w) PROVE NewsInv'
<1>1. UNCHANGED <<board, made, reads, removing, time, confirmed, overlapped>>
    BY DEF T!Load
<1>2. lists' = [lists EXCEPT ![w] = [rows |-> board, seen |-> {id \in DOMAIN board : T!SeenOf(id) # {}}]]
    BY DEF T!Load
<1>3. \A u \in Writers : lists'[u].rows = IF u = w THEN board ELSE lists[u].rows
    BY <1>2 DEF NewsInv, NewsTyped
<1>4. lists' = [u \in Writers |-> lists'[u]]
    BY <1>2 DEF NewsInv, NewsTyped
<1>5. NewsTyped'
    BY <1>1, <1>4 DEF NewsInv, NewsTyped
<1>6. RowsRight'
    BY <1>1, <1>3 DEF NewsInv, RowsRight
<1>7. PressesKept'
    BY <1>1 DEF NewsInv, PressesKept
<1> QED BY <1>5, <1>6, <1>7 DEF NewsInv

(***************************************************************************)
(* A new announcement has an id nobody has confirmed.                      *)
(***************************************************************************)
LEMMA PublishNews == ASSUME NewsInv, NEW w \in Writers, T!Publish(w) PROVE NewsInv'
<1>1. made' = made + 1 /\ UNCHANGED <<reads, lists, removing, time, confirmed, overlapped>>
    BY DEF T!Publish
<1>2. PICK p \in Plans : board' = [i \in DOMAIN board \cup {made + 1} |->
                               IF i = made + 1 THEN T!Stored(T!Typed(T!Blank, p, T!Ends), TRUE) ELSE board[i]]
    BY DEF T!Publish
<1>3. RowRight(T!Stored(T!Typed(T!Blank, p, T!Ends), TRUE))
    BY PublishedIsRight
<1> DEFINE new == T!Stored(T!Typed(T!Blank, p, T!Ends), TRUE)
<1> HIDE DEF new
<1>4. /\ DOMAIN board' = DOMAIN board \cup {made + 1}
      /\ \A id \in DOMAIN board' : board'[id] = IF id = made + 1 THEN new ELSE board[id]
    BY <1>2 DEF new
<1>5. NewsTyped'
    BY <1>1, <1>4 DEF NewsInv, NewsTyped
<1>6. RowRight(new)
    BY <1>3 DEF new
<1>7. \A id \in DOMAIN board' : RowRight(board'[id])
    BY <1>4, <1>6 DEF NewsInv, RowsRight
<1>8. RowsRight'
    BY <1>1, <1>7 DEF NewsInv, RowsRight
<1>9. \A p1 \in confirmed : p1[2] \in 1 .. made
    BY DEF NewsInv, PressesKept
<1>10. confirmed \subseteq Readers \X (1 .. made + 1)
    BY DEF NewsInv, NewsTyped, PressesKept
<1>11. \A p1 \in confirmed : p1[2] \in DOMAIN board' => p1 \in reads
    BY <1>4, <1>9 DEF NewsInv, NewsTyped, PressesKept
<1>12. PressesKept'
    BY <1>1, <1>10, <1>11 DEF NewsInv, PressesKept
<1> QED BY <1>5, <1>8, <1>12 DEF NewsInv

(***************************************************************************)
(* One row is written anew and stays right.                                *)
(***************************************************************************)
LEMMA NewsWritten ==
    ASSUME NewsInv, NEW id \in DOMAIN board, NEW row, RowRight(row), board' = [board EXCEPT ![id] = row],
           UNCHANGED <<made, reads, lists, removing, time, confirmed, overlapped>>
    PROVE  NewsInv'
<1>1. DOMAIN board' = DOMAIN board /\ \A i \in DOMAIN board : board'[i] = IF i = id THEN row ELSE board[i]
    OBVIOUS
<1>2. NewsTyped'
    BY <1>1 DEF NewsInv, NewsTyped
<1>3. RowsRight'
    BY <1>1 DEF NewsInv, RowsRight
<1>4. PressesKept'
    BY <1>1 DEF NewsInv, PressesKept
<1> QED BY <1>2, <1>3, <1>4 DEF NewsInv

(***************************************************************************)
(* The edit form is sent, filled from the list.                            *)
(***************************************************************************)
LEMMA SaveNews == ASSUME NewsInv, NEW w \in Writers, T!Save(w) PROVE NewsInv'
<1>1. UNCHANGED <<made, reads, lists, removing, time, confirmed, overlapped>>
    BY DEF T!Save
<1>2. PICK id \in DOMAIN lists[w].rows \cap DOMAIN board, p \in Plans, ends \in SUBSET T!Ends :
           board' = [board EXCEPT ![id] = T!Stored(T!Typed(T!Filled(lists[w].rows[id]), p, ends), @.meant)]
    BY DEF T!Save
<1>3. RowRight(board[id]) /\ RowRight(lists[w].rows[id]) /\ board[id].meant \in BOOLEAN
    BY <1>2 DEF NewsInv, RowsRight, RowRight, RowTyped
<1>4. RowRight(T!Stored(T!Typed(T!Filled(lists[w].rows[id]), p, ends), board[id].meant))
    BY <1>2, <1>3, SavedIsRight
<1> DEFINE row == T!Stored(T!Typed(T!Filled(lists[w].rows[id]), p, ends), board[id].meant)
<1>5. board' = [board EXCEPT ![id] = row]
    BY <1>2
<1> HIDE DEF row
<1>6. RowRight(row)
    BY <1>4 DEF row
<1> QED BY <1>1, <1>2, <1>5, <1>6, NewsWritten

(***************************************************************************)
(* The switch is pressed, as the list has it.                              *)
(***************************************************************************)
LEMMA ToggleNews == ASSUME NewsInv, NEW w \in Writers, T!Toggle(w) PROVE NewsInv'
<1>1. UNCHANGED <<made, reads, lists, removing, time, confirmed, overlapped>>
    BY DEF T!Toggle
<1>2. PICK id \in DOMAIN lists[w].rows \cap DOMAIN board :
           board' = [board EXCEPT ![id] = T!Turned(@, lists[w].rows[id].active)]
    BY DEF T!Toggle
<1>3. RowRight(board[id]) /\ lists[w].rows[id].active \in BOOLEAN
    BY <1>2 DEF NewsInv, RowsRight, RowRight, RowTyped
<1> DEFINE row == T!Turned(board[id], lists[w].rows[id].active)
<1>4. RowRight(row)
    BY <1>3, TurnedIsRight
<1>5. board' = [board EXCEPT ![id] = row]
    BY <1>2
<1> HIDE DEF row
<1> QED BY <1>1, <1>2, <1>4, <1>5, NewsWritten

(***************************************************************************)
(* A deletion counts: nobody has confirmed the row but those whose press   *)
(* is already known to have been overlapped.                               *)
(***************************************************************************)
LEMMA CountNews == ASSUME NewsInv, NEW w \in Writers, T!Count(w) PROVE NewsInv'
<1>1. UNCHANGED <<board, made, reads, lists, time, confirmed, overlapped>>
    BY DEF T!Count
<1>2. PICK id \in DOMAIN board : T!SeenOf(id) = {} /\ removing' = [removing EXCEPT ![w] = id]
    BY DEF T!Count, T!Deletable
<1>3. id \in Nat
    BY <1>2 DEF NewsInv, NewsTyped
<1>4. NewsTyped' /\ RowsRight'
    BY <1>1, <1>2, <1>3 DEF NewsInv, NewsTyped, RowsRight
<1>5. ASSUME NEW p \in confirmed, p[2] = id PROVE p \in overlapped
    <2>1. PICK c \in Readers, i \in 1 .. made : p = <<c, i>>
        BY DEF NewsInv, PressesKept
    <2>2. p = <<c, id>>
        BY <1>5, <2>1
    <2>3. p \notin reads
        BY <1>2, <2>2 DEF T!SeenOf
    <2> QED BY <2>3 DEF NewsInv, PressesKept
<1>6. \A u \in Writers : removing'[u] = IF u = w THEN id ELSE removing[u]
    BY <1>2 DEF NewsInv, NewsTyped
<1>7. PressesKept'
    BY <1>1, <1>5, <1>6 DEF NewsInv, PressesKept
<1> QED BY <1>4, <1>7 DEF NewsInv

(***************************************************************************)
(* The row goes, and the reads with it: every press of it was overlapped.  *)
(***************************************************************************)
LEMMA EraseNews == ASSUME NewsInv, NEW w \in Writers, T!Erase(w) PROVE NewsInv'
<1>1. UNCHANGED <<made, lists, time, confirmed, overlapped>> /\ removing[w] # 0
    BY DEF T!Erase
<1>2. /\ board' = [i \in DOMAIN board \ {removing[w]} |-> board[i]]
      /\ reads' = {r \in reads : r[2] # removing[w]}
      /\ removing' = [removing EXCEPT ![w] = 0]
    BY DEF T!Erase
<1>3. /\ DOMAIN board' = DOMAIN board \ {removing[w]}
      /\ \A id \in DOMAIN board' : board'[id] = board[id]
    BY <1>2
<1>4. NewsTyped'
    BY <1>1, <1>2, <1>3 DEF NewsInv, NewsTyped
<1>5. RowsRight'
    BY <1>1, <1>3 DEF NewsInv, RowsRight
<1>6. \A u \in Writers : removing'[u] = IF u = w THEN 0 ELSE removing[u]
    BY <1>2 DEF NewsInv, NewsTyped
<1>7. \A p \in confirmed : p[2] = removing[w] => p \in overlapped
    BY <1>1 DEF NewsInv, PressesKept
<1>8. \A p \in confirmed : p \in reads' \/ p \in overlapped
    BY <1>2, <1>7 DEF NewsInv, PressesKept
<1>9. \A p \in confirmed : p[2] \in DOMAIN board' => p \in reads'
    BY <1>2, <1>3 DEF NewsInv, PressesKept
<1>10. reads' \subseteq confirmed
    BY <1>2 DEF NewsInv, PressesKept
<1>11. PressesKept'
    BY <1>1, <1>6, <1>8, <1>9, <1>10 DEF NewsInv, PressesKept
<1> QED BY <1>4, <1>5, <1>11 DEF NewsInv

(***************************************************************************)
(* A customer presses "understood": the press is recorded, and known as    *)
(* overlapped if a deletion has counted already.                           *)
(***************************************************************************)
LEMMA UnderstoodNews == ASSUME NewsInv, NEW c \in Readers, T!Understood(c) PROVE NewsInv'
<1> DEFINE id == T!Current(c)
<1>1. UNCHANGED <<board, made, lists, removing, time>> /\ id \in DOMAIN board
    BY DEF T!Understood
<1>2. /\ reads' = reads \cup {<<c, id>>} /\ confirmed' = confirmed \cup {<<c, id>>}
      /\ overlapped' = IF \E w \in Writers : removing[w] = id THEN overlapped \cup {<<c, id>>} ELSE overlapped
    BY DEF T!Understood
<1> HIDE DEF id
<1>3. id \in 1 .. made /\ <<c, id>>[2] = id
    BY <1>1 DEF NewsInv, NewsTyped
<1>4. NewsTyped' /\ RowsRight'
    BY <1>1 DEF NewsInv, NewsTyped, RowsRight
<1>5. confirmed' \subseteq Readers \X (1 .. made) /\ reads' \subseteq confirmed' /\ overlapped \subseteq overlapped'
    BY <1>2, <1>3 DEF NewsInv, PressesKept
<1>6. \A p \in confirmed' : p \in reads' \/ p \in overlapped'
    BY <1>2, <1>5 DEF NewsInv, PressesKept
<1>7. \A p \in confirmed' : p[2] \in DOMAIN board => p \in reads'
    BY <1>2 DEF NewsInv, PressesKept
<1>8. ASSUME NEW w \in Writers, removing[w] # 0, NEW p \in confirmed', p[2] = removing[w] PROVE p \in overlapped'
    <2>1. CASE p \in confirmed
        BY <1>5, <1>8, <2>1 DEF NewsInv, PressesKept
    <2>2. CASE p = <<c, id>>
        <3>1. removing[w] = id
            BY <1>3, <1>8, <2>2
        <3> QED BY <1>2, <2>2, <3>1
    <2> QED BY <1>2, <1>8, <2>1, <2>2
<1>9. PressesKept'
    BY <1>1, <1>5, <1>6, <1>7, <1>8 DEF PressesKept
<1> QED BY <1>4, <1>9 DEF NewsInv

(***************************************************************************)
(* Every step of the announcements keeps NewsInv.                          *)
(***************************************************************************)
LEMMA NewsStep == ASSUME NewsInv, T!Next PROVE NewsInv'
<1>1. ASSUME NEW c \in Readers, T!Open(c) PROVE NewsInv'
    BY <1>1 DEF T!Open, NewsInv, NewsTyped, RowsRight, PressesKept
<1>2. CASE T!Tick
    <2>1. time' = time + 1 /\ UNCHANGED <<board, made, reads, lists, removing, confirmed, overlapped>>
        BY <1>2 DEF T!Tick
    <2> QED BY <2>1 DEF NewsInv, NewsTyped, RowsRight, PressesKept
<1> QED BY <1>1, <1>2, LoadNews, PublishNews, SaveNews, ToggleNews, CountNews, EraseNews, UnderstoodNews DEF T!Next

(***************************************************************************)
(* Before anything is published.                                           *)
(***************************************************************************)
LEMMA NewsInit == ASSUME T!Init PROVE NewsInv
<1>1. DOMAIN board = {} /\ made = 0 /\ reads = {} /\ time = 0 /\ confirmed = {} /\ overlapped = {}
    BY DEF T!Init
<1>2. lists = [w \in Writers |-> [rows |-> << >>, seen |-> {}]] /\ removing = [w \in Writers |-> 0]
    BY DEF T!Init
<1>3. \A w \in Writers : lists[w].rows = << >> /\ DOMAIN lists[w].rows = {}
    BY <1>2
<1>4. NewsTyped
    BY <1>1, <1>2 DEF NewsTyped
<1>5. RowsRight
    BY <1>1, <1>3 DEF RowsRight
<1>6. PressesKept
    BY <1>1 DEF PressesKept
<1> QED BY <1>4, <1>5, <1>6 DEF NewsInv

(***************************************************************************)
(* NewsInv says what is promised of announcements.                         *)
(***************************************************************************)
LEMMA NewsFollows == ASSUME NewsInv PROVE T!AnnouncementsHold
<1>1. T!RecordKept
    BY DEF T!RecordKept, NewsInv, PressesKept
<1>2. T!ForEachCustomer
    <2> SUFFICES ASSUME NEW c \in Readers, NEW id \in DOMAIN board
                 PROVE  id \in T!Unread(c) <=> T!Badge(board[id]) = "live" /\ <<c, id>> \notin confirmed
        BY Zenon DEF T!ForEachCustomer
    <2>1. <<c, id>> \in confirmed <=> <<c, id>> \in reads
        <3>1. <<c, id>>[2] = id
            OBVIOUS
        <3> QED BY <3>1 DEF NewsInv, PressesKept
    <2>2. RowRight(board[id]) /\ time \in Nat
        BY DEF NewsInv, NewsTyped, RowsRight
    <2>3. T!Live(board[id]) <=> T!Badge(board[id]) = "live"
        <3> DEFINE r == board[id]
        <3>1. r.active \in BOOLEAN /\ r.starts \in Int \union {NoTime} /\ r.ends \in Int \union {NoTime}
            BY <2>2 DEF RowRight, RowTyped, Moments
        <3> HIDE DEF r
        <3>2. T!Live(r) <=> T!Badge(r) = "live"
            BY <2>2, <3>1 DEF T!Live, T!Badge
        <3> QED BY <3>2 DEF r
    <2> QED BY <2>1, <2>3 DEF T!Unread
<1>3. T!AsMeant
    BY DEF T!AsMeant, NewsInv, RowsRight, RowRight
<1>4. T!DriftsBySaves
    <2> SUFFICES ASSUME NEW id \in DOMAIN board, NEW e \in {"starts", "ends"}
                 PROVE  board[id][e] = IF board[id].planned[e] = NoTime THEN NoTime
                                       ELSE board[id].planned[e] - Zone * board[id].moved[e]
        BY DEF T!DriftsBySaves, T!Ends
    <2>1. RowRight(board[id])
        BY DEF NewsInv, RowsRight
    <2>2. board[id]["starts"] = board[id].starts /\ board[id]["ends"] = board[id].ends
        OBVIOUS
    <2>3. CASE e = "starts"
        BY <2>1, <2>2, <2>3 DEF RowRight, Drifted
    <2>4. CASE e = "ends"
        BY <2>1, <2>2, <2>4 DEF RowRight, Drifted
    <2> QED BY <2>3, <2>4
<1> QED BY <1>1, <1>2, <1>3, <1>4 DEF T!AnnouncementsHold

(***************************************************************************)
(* For every number of customers, restarts, lost answers and retries, all  *)
(* ways of securing and signing in to the mail server, and all writers,    *)
(* readers, zones and ranges of announcements: a broadcast reaches nobody  *)
(* twice but for a restart between message and mark, a lost answer or a    *)
(* retry; an e-mail said to be sent was taken by the server, and one said  *)
(* to have failed met trouble; a press of "understood" stays recorded      *)
(* unless it fell between the count of a deletion and the deletion, each   *)
(* customer is asked for himself, the switch is as it was last meant, and  *)
(* a time drifts by one offset per save (worker/broadcasts.mjs,            *)
(* worker/smtp.mjs, the routes and the portal of announcements).           *)
(***************************************************************************)
THEOREM MessagesHoldAlways == Spec => []MessagesHold
<1>1. Init => BroadcastInv /\ MailInv /\ NewsInv
    BY BroadcastInit, MailInit, NewsInit DEF Init
<1>2. ASSUME BroadcastInv, [Next]_vars PROVE BroadcastInv'
    <2>1. CASE B!Next
        BY <1>2, <2>1, BroadcastStep
    <2>2. CASE UNCHANGED bvars
        <3>1. UNCHANGED <<bc, rows, form, worker, got, again, late, faults>>
            BY <2>2 DEF bvars
        <3> QED BY <1>2, <3>1 DEF BroadcastInv, BroadcastTyped, Exposed
    <2>3. B!Next \/ UNCHANGED bvars
        BY <1>2 DEF Next, vars, desk, talk, OnlyMessages, OnlyMail, OnlyTickets, OnlyAnchor, OnlyBilling, OnlyCalendar,
            OnlyDiff, OnlySignIn, OnlyLimiter, OnlyAnnouncements, OnlySettings, OnlyFleet, OnlyBackfill
    <2> QED BY <2>1, <2>2, <2>3
<1>3. ASSUME MailInv, [Next]_vars PROVE MailInv'
    <2>1. CASE S!Next
        BY <1>3, <2>1, MailStep
    <2>2. CASE UNCHANGED svars
        <3>1. UNCHANGED <<conf, at, server, flight, buffer, accepted, trouble, result>>
            BY <2>2 DEF svars
        <3>2. S!Script' = S!Script /\ MailConf' /\ \A code : Answering(code)' <=> Answering(code)
            BY <1>3, <3>1, SameScript DEF MailInv, Answering
        <3> QED BY <1>3, <3>1, <3>2 DEF MailInv
    <2>3. S!Next \/ UNCHANGED svars
        BY <1>3 DEF Next, vars, desk, talk, OnlyMessages, OnlyMail, OnlyTickets, OnlyAnchor, OnlyBilling, OnlyCalendar,
            OnlyDiff, OnlySignIn, OnlyLimiter, OnlyAnnouncements, OnlySettings, OnlyFleet, OnlyBackfill
    <2> QED BY <2>1, <2>2, <2>3
<1>4. ASSUME NewsInv, [Next]_vars PROVE NewsInv'
    <2>1. CASE T!Next
        BY <1>4, <2>1, NewsStep
    <2>2. CASE UNCHANGED tvars
        <3>1. UNCHANGED <<board, made, reads, lists, removing, time, confirmed, overlapped>>
            BY <2>2 DEF tvars
        <3> QED BY <1>4, <3>1 DEF NewsInv, NewsTyped, RowsRight, PressesKept
    <2>3. T!Next \/ UNCHANGED tvars
        BY <1>4 DEF Next, vars, desk, talk, OnlyMessages, OnlyMail, OnlyTickets, OnlyAnchor, OnlyBilling, OnlyCalendar,
            OnlyDiff, OnlySignIn, OnlyLimiter, OnlyAnnouncements, OnlySettings, OnlyFleet, OnlyBackfill
    <2> QED BY <2>1, <2>2, <2>3
<1>5. MailInv => S!VerdictIsRight
    BY DEF MailInv, S!VerdictIsRight
<1>6. BroadcastInv /\ MailInv /\ NewsInv => MessagesHold
    BY <1>5, BroadcastFollows, NewsFollows DEF MessagesHold
<1> QED BY <1>1, <1>2, <1>3, <1>4, <1>6, PTL DEF Spec
=============================================================================
