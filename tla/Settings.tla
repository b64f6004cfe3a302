------------------------------ MODULE Settings ------------------------------
(* The settings: one table of keys and values, a page that holds a copy of   *)
(* all of it and sends the whole copy back, a route that writes key by key,  *)
(* and a copy in the memory of the panel that lives for TTL.                 *)
(*                                                                          *)
(* The copy on a page is as old as the page.  What keeps an old copy from    *)
(* doing harm is in the route: only keys on a list are written, an empty     *)
(* secret means "leave it" (the page is never given one), and the keys only  *)
(* an admin may change are taken out of what anybody else sends.  What two   *)
(* saves or a restart may still do is that keys which belong together come   *)
(* from two of them.                                                         *)
(*                                                                          *)
(* Values stand for themselves; Empty is the empty text.  Keys are those of  *)
(* the table a behaviour looks at; the sections of the page, the list and    *)
(* the classes of the keys are the code's own, in full.                      *)
EXTENDS Integers, Sequences, FiniteSets

CONSTANTS
    KeySets,      \* the keys a behaviour may look at
    People,       \* who has the page open
    Admins,       \* those of them who are admins
    Values,       \* what may be typed
    Empty,
    TTL,          \* lifetime of the copy in memory
    MaxSaves,     \* bound: saves
    MaxTyped,     \* bound: fields typed for one save
    MaxEvents     \* bound: restarts and writes of the worker

-----------------------------------------------------------------------------
(* The fields of the page, section by section.                              *)

SmsFields == {"sms_enabled", "alert_repeat_min", "sms_recipients"}
TelegramFields == {"telegram_enabled", "telegram_chat_ids"}
EmailFields ==
    {"email_enabled", "smtp_from_name", "panel_url", "smtp_host", "smtp_from", "smtp_security",
     "smtp_port", "smtp_user", "smtp_pass", "email_recipients", "smtp_insecure"}
CustomerFields ==
    {"telegram_customer_enabled", "otp_login_enabled", "sms_dev_mode", "store_public_enabled", "store_intro"}
InvoiceFields ==
    {"invoice_seller_name", "invoice_seller_id", "invoice_seller_phone", "invoice_seller_address",
     "invoice_footer", "tickets_enabled"}
GatewayFields ==
    {"invoices_enabled", "invoice_days_before", "payping_enabled", "payping_token", "payping_version", "payping_unit"}
WatchFields ==
    {"vz_discover_hours", "vz_auto_apply", "down_after_sec", "check_interval_sec", "raw_retention_days",
     "switch_poll_sec", "switch_cpu_threshold", "switch_util_threshold", "switch_err_threshold",
     "switch_flap_threshold", "switch_backup_hours", "switch_5min_days", "traffic_calendar",
     "switch_transfer_host", "switch_sftp_path", "switch_sftp_user", "switch_sftp_pass"}
Fields ==
    SmsFields \cup TelegramFields \cup EmailFields \cup CustomerFields \cup InvoiceFields \cup GatewayFields
        \cup WatchFields

\* The keys the route writes, in the order it writes them.
ALLOWED ==
    <<"sms_enabled", "sms_recipients", "telegram_enabled", "telegram_chat_ids", "vz_discover_hours",
      "vz_auto_apply", "alert_repeat_min", "down_after_sec", "raw_retention_days", "check_interval_sec",
      "switch_poll_sec", "switch_cpu_threshold", "switch_util_threshold", "switch_err_threshold",
      "switch_flap_threshold", "switch_backup_hours", "switch_5min_days", "switch_transfer_host",
      "switch_sftp_user", "switch_sftp_pass", "switch_sftp_path", "traffic_calendar", "panel_title",
      "email_enabled", "email_recipients", "smtp_host", "smtp_port", "smtp_security", "smtp_user",
      "smtp_pass", "smtp_from", "smtp_from_name", "smtp_insecure", "panel_url", "invoice_days_before",
      "invoices_enabled", "payping_enabled", "payping_token", "payping_version", "payping_unit",
      "tickets_enabled", "invoice_seller_name", "invoice_seller_id", "invoice_seller_phone",
      "invoice_seller_address", "invoice_footer", "store_public_enabled", "store_intro",
      "otp_login_enabled", "sms_dev_mode", "telegram_customer_enabled">>
Allowed == {ALLOWED[i] : i \in DOMAIN ALLOWED}
SECRET == {"smtp_pass", "payping_token", "switch_sftp_pass"}
ADMIN_ONLY == {"switch_transfer_host", "switch_sftp_user", "switch_sftp_pass", "switch_sftp_path"}

\* Where the page offers a choice, and what the route takes there.
Offered ==
    [smtp_security |-> {"starttls", "tls", "none"}, payping_version |-> {"v2", "v3"},
     payping_unit |-> {"toman", "rial"}, traffic_calendar |-> {"jalali", "gregorian"}]
Taken ==
    [traffic_calendar |-> {"jalali", "gregorian"}, smtp_security |-> {"none", "starttls", "tls"},
     payping_version |-> {"v2", "v3"}, payping_unit |-> {"toman", "rial"}]

\* The numbers the worker cannot do without.
SWITCH_NUM ==
    {"switch_util_threshold", "switch_err_threshold", "switch_flap_threshold", "switch_backup_hours", "switch_5min_days"}

-----------------------------------------------------------------------------
VARIABLES
    keys,         \* the keys this behaviour looks at
    table,        \* table settings
    pages,        \* per person: the form as it was loaded
    saving,       \* per person: the save under way
    memory,       \* the copy of the panel: its age and data, or none
    reading,      \* a reading of the table that has not been stored yet, or none
    saves, happenings,
    last,         \* history: the save that wrote a key, its person, and whether it was typed
    overlapping,  \* history: two saves have run beside each other, or one was cut off
    stale         \* history: the copy in memory comes from a reading a save ran beside

settings == <<table, last>>
svars == <<keys, table, pages, saving, memory, reading, saves, happenings, last, overlapping, stale>>

Unsent == [step |-> "none"]
NoCopy == [age |-> 0 - 1]
NoReading == [saves |-> 0 - 1]
UnderWay(u) == saving[u].step # "none"
WorkersKey == "telegram_updates_offset"

\* A behaviour looks at keys of the list, and at the one of the worker.
SettingsAssumption ==
    /\ Empty \in Values /\ Values # {Empty} /\ Admins \subseteq People
    /\ {TTL, MaxSaves, MaxTyped, MaxEvents} \subseteq Nat
    /\ \A some \in KeySets : some \subseteq Allowed \union {WorkersKey}

\* Of the secrets a page learns only whether they are set.
Shown(t) == [k \in keys \ SECRET |-> t[k]]

Init ==
    /\ keys \in KeySets
    /\ table = [k \in keys |-> IF k \in SWITCH_NUM THEN CHOOSE v \in Values : v # Empty ELSE Empty]
    /\ pages = [u \in People |-> Shown(table)]
    /\ saving = [u \in People |-> Unsent]
    /\ memory = NoCopy /\ reading = NoReading
    /\ saves = 0 /\ happenings = 0
    /\ last = [k \in keys |-> [save |-> 0, by |-> "nobody", typed |-> TRUE]]
    /\ overlapping = FALSE /\ stale = FALSE

-----------------------------------------------------------------------------
(* The page.                                                                *)

\* Opening it, and the reload after a save, a test message or an e-mail address of
\* a user: the form is replaced by what the table holds.
Reload(u) ==
    /\ ~UnderWay(u)
    /\ pages' = [pages EXCEPT ![u] = Shown(table)]
    /\ UNCHANGED <<keys, settings, saving, memory, reading, saves, happenings, overlapping, stale>>

\* What is typed over the form before it is sent.
Over(form, typed) == [k \in DOMAIN form \union DOMAIN typed |-> IF k \in DOMAIN typed THEN typed[k] ELSE form[k]]

-----------------------------------------------------------------------------
(* The route.                                                               *)

\* Mutant: every key the page was given is written.
PatchAll(form) == [k \in {q \in DOMAIN form : q \in SECRET => form[q] # Empty} |-> form[k]]

\* What is left of the form: keys of the list, and of the secrets those not empty.
Patch(form) ==
    [k \in {q \in DOMAIN form : q \in Allowed /\ (q \in SECRET => form[q] # Empty)} |-> form[k]]

\* What is typed and sent is one step: what matters is the age of the rest of the
\* form.  The button is off while a save is under way.
Send(u) ==
    /\ ~UnderWay(u) /\ saves < MaxSaves
    /\ \E typed \in UNION {[some -> Values] : some \in {q \in SUBSET (keys \cap Fields) : Cardinality(q) <= MaxTyped}} :
         LET p == Patch(Over(pages[u], typed)) IN
         /\ DOMAIN p # {}
         /\ saving' = [saving EXCEPT ![u] = [step |-> "check", id |-> saves + 1, patch |-> p, typed |-> DOMAIN typed]]
    /\ saves' = saves + 1
    /\ UNCHANGED <<keys, settings, pages, memory, reading, happenings, overlapping, stale>>

\* Mutant: what an admin alone may change is compared, and then written.
PermittedAll(u, p) == p

\* What a person who is no admin may not change, and sends unchanged, is taken out.
Permitted(u, p) == IF u \in Admins THEN p ELSE [k \in DOMAIN p \ ADMIN_ONLY |-> p[k]]

\* One value refused stops the whole save, with nothing written.
Valid(p) == \A k \in SWITCH_NUM \cap DOMAIN p : p[k] # Empty

Check(u) ==
    /\ saving[u].step = "check"
    /\ LET p == saving[u].patch IN
       IF ~Valid(p) \/ DOMAIN Permitted(u, p) = {} \/ (u \notin Admins /\ \E k \in ADMIN_ONLY \cap DOMAIN p : p[k] # table[k])
       THEN saving' = [saving EXCEPT ![u] = Unsent]
       ELSE saving' = [saving EXCEPT ![u] = [@ EXCEPT !.step = "write", !.patch = Permitted(u, p)]]
    /\ UNCHANGED <<keys, settings, pages, memory, reading, saves, happenings, overlapping, stale>>

\* The next key of what is left, in the order of the list.
Listed(p) == {i \in DOMAIN ALLOWED : ALLOWED[i] \in DOMAIN p}
NextKey(p) ==
    IF Listed(p) = {} THEN CHOOSE k \in DOMAIN p : TRUE
    ELSE ALLOWED[CHOOSE i \in Listed(p) : \A j \in Listed(p) : i <= j]

Write(u) ==
    /\ saving[u].step = "write" /\ DOMAIN saving[u].patch # {}
    /\ LET p == saving[u].patch
           k == NextKey(p) IN
       /\ table' = [table EXCEPT ![k] = p[k]]
       /\ last' = [last EXCEPT ![k] = [save |-> saving[u].id, by |-> u, typed |-> k \in saving[u].typed]]
       /\ saving' = [saving EXCEPT ![u].patch = [q \in DOMAIN p \ {k} |-> p[q]]]
    /\ overlapping' = (overlapping \/ \E w \in People \ {u} : saving[w].step = "write")
    /\ UNCHANGED <<keys, pages, memory, reading, saves, happenings, stale>>

\* Mutant: the copy in memory is left to run out.
Kept == memory

\* The copy in memory is dropped when all is written.
Dropped == NoCopy

Answer(u) ==
    /\ saving[u].step = "write" /\ DOMAIN saving[u].patch = {}
    /\ saving' = [saving EXCEPT ![u] = Unsent]
    /\ memory' = Dropped
    /\ UNCHANGED <<keys, settings, pages, reading, saves, happenings, overlapping, stale>>

-----------------------------------------------------------------------------
(* The copy in memory.                                                      *)

\* Whoever needs a setting reads the table when there is no copy young enough; the
\* page and the comparison above read it in any case.  Between the reading and the
\* keeping of it others go on.
Read ==
    /\ reading = NoReading
    /\ reading' = [data |-> table, saves |-> saves, beside |-> \E u \in People : UnderWay(u)]
    /\ UNCHANGED <<keys, settings, pages, saving, memory, saves, happenings, overlapping, stale>>

Store ==
    /\ reading # NoReading
    /\ memory' = [age |-> 0, data |-> reading.data]
    /\ stale' = (reading.beside \/ reading.saves # saves)
    /\ reading' = NoReading
    /\ UNCHANGED <<keys, settings, pages, saving, saves, happenings, overlapping>>

Age ==
    /\ memory # NoCopy
    /\ memory' = IF memory.age + 1 < TTL THEN [memory EXCEPT !.age = @ + 1] ELSE NoCopy
    /\ stale' = (stale /\ memory' # NoCopy)
    /\ UNCHANGED <<keys, settings, pages, saving, reading, saves, happenings, overlapping>>

-----------------------------------------------------------------------------
(* What happens beside it.                                                  *)

\* The worker moves its own place in the messages of the bot on.
WorkerWrites ==
    /\ happenings < MaxEvents /\ WorkersKey \in keys
    /\ \E v \in Values \ {table[WorkersKey]} : table' = [table EXCEPT ![WorkersKey] = v]
    /\ happenings' = happenings + 1
    /\ UNCHANGED <<keys, pages, saving, memory, reading, saves, last, overlapping, stale>>

\* A restart of the panel cuts every save off and empties the memory; the pages stay open.
Restart ==
    /\ happenings < MaxEvents /\ \E u \in People : UnderWay(u)
    /\ happenings' = happenings + 1
    /\ saving' = [u \in People |-> Unsent]
    /\ memory' = NoCopy /\ reading' = NoReading /\ stale' = FALSE /\ overlapping' = TRUE
    /\ UNCHANGED <<keys, settings, pages, saves>>

Next ==
    \/ \E u \in People : Reload(u) \/ Send(u) \/ Check(u) \/ Write(u) \/ Answer(u)
    \/ Read \/ Store \/ Age \/ WorkerWrites \/ Restart

-----------------------------------------------------------------------------
(* Page and route fit: every field of the page is one the route writes, so   *)
(* nothing typed is dropped behind the message that it was saved, every      *)
(* choice the page offers is taken, and a number is never written empty.     *)
PageFitsRoute ==
    /\ Fields \cup SECRET \cup ADMIN_ONLY \subseteq Allowed
    /\ \A k \in DOMAIN Offered : k \in Fields /\ Offered[k] \subseteq Taken[k]
    /\ \A k \in keys \cap SWITCH_NUM : table[k] # Empty

(* An old page does no harm to what it does not own: a secret is written     *)
(* only by who typed it, what only an admin may change is written only by    *)
(* one (also when an admin saves between the comparison and the writing), and *)
(* the worker's place in the messages of the bot never goes back.            *)
OldPagesHarmless ==
    \A k \in keys :
        /\ k \in SECRET => last[k].typed
        /\ k \in ADMIN_ONLY /\ last[k].save # 0 => last[k].by \in Admins
        /\ k = WorkersKey => last[k].save = 0

(* Keys that belong together come from one page, unless two saves ran beside *)
(* each other or a restart cut one off.                                      *)
FromOnePage ==
    \A k, q \in keys \ (SECRET \cup ADMIN_ONLY \cup {WorkersKey}) :
        (\A u \in People : ~UnderWay(u)) /\ ~overlapping => last[k].save = last[q].save

(* What has been saved is what the panel goes by: when no save is under way, *)
(* the copy in memory is the table, unless its reading ran beside a save.    *)
SavedIsUsed ==
    (\A u \in People : ~UnderWay(u)) /\ memory # NoCopy /\ ~stale /\ ~overlapping
        => \A k \in keys \ {WorkersKey} : memory.data[k] = table[k]

(* What the four say together of the settings.                              *)
SettingsHold == PageFitsRoute /\ OldPagesHarmless /\ FromOnePage /\ SavedIsUsed
=============================================================================
