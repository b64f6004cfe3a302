------------------------------ MODULE RateLimit ------------------------------
(***************************************************************************)
(* The limit of the requests that need no session: for each route and      *)
(* address a list of times in the memory of the web process, cleaned only  *)
(* when there are too many of them.                                        *)
(***************************************************************************)
EXTENDS Integers, FiniteSets

CONSTANTS
    Keys,              \* a route and an address
    Limit, Window,     \* what the route of a key gives to rateLimit
    MAX_KEYS, MaxNow

RateLimitAssumption ==
    /\ Limit \in [Keys -> Nat \ {0}] /\ Window \in [Keys -> Nat \ {0}] /\ IsFiniteSet(Keys)
    /\ {MAX_KEYS, MaxNow} \subseteq Nat

VARIABLES
    clock,
    buckets,     \* the Map: for each key its place in the order they were put there, or 0, and its times
    admitted,    \* history: when each key was let in, within its window
    forgotten    \* history: the keys that were dropped since, although they counted

vars == <<clock, buckets, admitted, forgotten>>

\* A time is numbered, for a key may be let in twice at once.
NoBucket == [place |-> 0, hits |-> {}]
Pushed(hits) == hits \cup {[at |-> clock, nr |-> Cardinality({h \in hits : h.at = clock})]}

Init ==
    /\ clock = 0 /\ buckets = [k \in Keys |-> NoBucket]
    /\ admitted = [k \in Keys |-> {}]
    /\ forgotten = [k \in Keys |-> FALSE]

\* Mutant: the window is one step shorter.
ShorterWindow(t, window) == clock - t < window - 1

\* "now - t < windowMs".
Counts(t, window) == clock - t < window

\* The newest time is no older than the window of the one who asks.
Alive(b, window) == \E h \in b.hits : clock - h.at <= window

\* Above the cap the keys go that are dead by the window of the one who asks, and
\* then the first ones, until there are no more than the cap.
Held == {k \in Keys : buckets[k].place > 0}
NotBefore(k, set) == {j \in set : buckets[j].place >= buckets[k].place}
Kept(window) ==
    LET live == {k \in Held : Alive(buckets[k], window)}
    IN  IF Cardinality(Held) <= MAX_KEYS THEN Held ELSE {k \in live : Cardinality(NotBefore(k, live)) <= MAX_KEYS}

Recent(k, kept) == {h \in IF k \in kept THEN buckets[k].hits ELSE {} : Counts(h.at, Window[k])}

\* The key's times are put back, in its place or after all others.
Put(k, kept, hits) ==
    LET place(j) == IF j \in kept THEN Cardinality(kept \ NotBefore(j, kept)) + 1 ELSE Cardinality(kept) + 1
    IN  [j \in Keys |-> IF j = k THEN [place |-> place(k), hits |-> hits]
                        ELSE IF j \in kept THEN [place |-> place(j), hits |-> buckets[j].hits] ELSE NoBucket]

\* rateLimit.  Bound: a key that has been let in too often asks no more in its window.
Ask(k) ==
    LET kept == Kept(Window[k])
        hits == Recent(k, kept)
        free == Cardinality(hits) < Limit[k]
    IN  /\ Cardinality(admitted[k]) <= Limit[k]
        /\ buckets' = Put(k, kept, IF free THEN Pushed(hits) ELSE hits)
        /\ admitted' = IF free THEN [admitted EXCEPT ![k] = Pushed(@)] ELSE admitted
        /\ forgotten' = [j \in Keys |-> forgotten[j] \/ (j \in Held \ kept /\ admitted[j] # {})]
        /\ UNCHANGED clock

Tick ==
    /\ clock < MaxNow /\ clock' = clock + 1
    /\ admitted' = [k \in Keys |-> {h \in admitted[k] : clock' - h.at < Window[k]}]
    /\ forgotten' = [k \in Keys |-> forgotten[k] /\ admitted'[k] # {}]
    /\ UNCHANGED buckets

\* The process starts again with nothing counted.
Restart ==
    /\ buckets' = [k \in Keys |-> NoBucket]
    /\ forgotten' = [k \in Keys |-> admitted[k] # {}]
    /\ UNCHANGED <<clock, admitted>>

Next == (\E k \in Keys : Ask(k)) \/ Tick \/ Restart

Spec == Init /\ [][Next]_vars

-----------------------------------------------------------------------------
\* In no window more requests of a key are let in than its limit, unless the key was
\* dropped meanwhile: by a restart, by the cap, or by a cleaning for a route with a
\* shorter window, which takes keys for dead that are not (lib/rate-limit.ts:52).
WindowKept ==
    \A k \in Keys : Cardinality(admitted[k]) > Limit[k] => forgotten[k]

\* The Map never holds more than one key above the cap.
FewAreKept == Cardinality(Held) <= MAX_KEYS + 1

LimiterHolds == WindowKept /\ FewAreKept
=============================================================================
