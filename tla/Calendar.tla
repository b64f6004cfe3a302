------------------------------ MODULE Calendar ------------------------------
(***************************************************************************)
(* The Jalali calendar and the periods of the reports (lib/jalali.ts,      *)
(* lib/period.ts).  Traffic is stored by Gregorian day and reported by     *)
(* Jalali month, so that a wrong boundary moves a day of a bill.  The      *)
(* arithmetic of the code is stated as it stands, and followed day by day  *)
(* beside both calendars, which here are only counted forward.             *)
(***************************************************************************)
EXTENDS Integers, Sequences, FiniteSets, Functions

CONSTANTS
    Starts,   \* Jalali years followed, each from its first day, to the first of the next
    Count     \* how many months a page lists

VARIABLES
    jdn,        \* the number of the day
    jalali,     \* its Jalali date, counted forward
    gregorian   \* its Gregorian date, counted forward

vars == <<jdn, jalali, gregorian>>

-----------------------------------------------------------------------------
(* lib/jalali.ts                                                           *)

\* Division of the code: towards zero, and what it leaves.
Div(a, b) == IF a >= 0 THEN a \div b ELSE -((-a) \div b)
Mod(a, b) == a - Div(a, b) * b

Breaks == <<-61, 9, 38, 199, 426, 686, 756, 818, 1111, 1181, 1210, 1635, 2060, 2097, 2192, 2262, 2324, 2394, 2456, 3178>>

\* The cycle a year falls in: the place of its end among the breaks.
Cycle(jy) == CHOOSE i \in 2 .. Len(Breaks) : Breaks[i - 1] <= jy /\ jy < Breaks[i]

\* Leap years in the cycles before.
LeapsBefore(i) ==
    FoldFunction(+, -14, [b \in 1 .. i - 2 |->
        LET jump == Breaks[b + 1] - Breaks[b] IN Div(jump, 33) * 8 + Div(Mod(jump, 33), 4)])

\* Mutant: the last years of a cycle are counted from its beginning.
FromBeginning(n, jump) == n

\* The last years of a cycle are counted from its end.
CountedFrom(n, jump) == IF jump - n < 6 THEN n - jump + Div(jump + 4, 33) * 33 ELSE n

\* Years since the last leap year, and the day of March the year begins on.
JalCal(jy) ==
    LET i == Cycle(jy)
        jump == Breaks[i] - Breaks[i - 1]
        n == jy - Breaks[i - 1]
        gy == jy + 621
        leapJ == LeapsBefore(i) + Div(n, 33) * 8 + Div(Mod(n, 33) + 3, 4)
                     + (IF Mod(jump, 33) = 4 /\ jump - n = 4 THEN 1 ELSE 0)
        leapG == Div(gy, 4) - Div((Div(gy, 100) + 1) * 3, 4) - 150
        leap == Mod(Mod(CountedFrom(n, jump) + 1, 33) - 1, 4)
    IN [leap |-> IF leap = -1 THEN 4 ELSE leap, gy |-> gy, march |-> 20 + leapJ - leapG]

\* Gregorian date to the number of the day, and back.
G2d(gy, gm, gd) ==
    Div((gy + Div(gm - 8, 6) + 100100) * 1461, 4) + Div(153 * Mod(gm + 9, 12) + 2, 5) + gd - 34840408
        - Div(Div(gy + 100100 + Div(gm - 8, 6), 100) * 3, 4) + 752

D2g(n) ==
    LET j == 4 * n + 139361631 + Div(Div(4 * n + 183187720, 146097) * 3, 4) * 4 - 3908
        i == Div(Mod(j, 1461), 4) * 5 + 308
        gm == Mod(Div(i, 153), 12) + 1
    IN [gy |-> Div(j, 1461) - 100100 + Div(8 - gm, 6), gm |-> gm, gd |-> Div(Mod(i, 153), 5) + 1]

J2d(jy, jm, jd) ==
    LET r == JalCal(jy) IN G2d(r.gy, 3, r.march) + (jm - 1) * 31 - Div(jm, 7) * (jm - 7) + jd - 1

D2j(n) ==
    LET gy == D2g(n).gy
        r == JalCal(gy - 621)
        k == n - G2d(gy, 3, r.march)
        rest == IF k >= 0 THEN k - 186 ELSE k + 179 + (IF r.leap = 1 THEN 1 ELSE 0)
    IN IF k \in 0 .. 185
       THEN [jy |-> gy - 621, jm |-> 1 + Div(k, 31), jd |-> Mod(k, 31) + 1]
       ELSE [jy |-> IF k >= 0 THEN gy - 621 ELSE gy - 622, jm |-> 7 + Div(rest, 30), jd |-> Mod(rest, 30) + 1]

IsJalaliLeap(jy) == JalCal(jy).leap = 0

JalaliMonthLength(jy, jm) == IF jm <= 6 THEN 31 ELSE IF jm <= 11 \/ IsJalaliLeap(jy) THEN 30 ELSE 29

\* The first and the last day, Gregorian dates in the code.
JalaliMonthRange(jy, jm) ==
    [from |-> D2g(J2d(jy, jm, 1)), to |-> D2g(J2d(jy, jm, JalaliMonthLength(jy, jm)))]

JalaliYearRange(jy) ==
    [from |-> D2g(J2d(jy, 1, 1)), to |-> D2g(J2d(jy, 12, IF IsJalaliLeap(jy) THEN 30 ELSE 29))]

(* JalaliDatePicker: the column of a month's first day, Saturday being 0,  *)
(* and the month some months away.                                         *)

FirstColumn(jy, jm) == LET sunday0 == (J2d(jy, jm, 1) + 1) % 7 IN (sunday0 + 1) % 7

Shift(y, m, months) == LET n == y * 12 + m - 1 + months IN [y |-> n \div 12, m |-> (n % 12) + 1]

-----------------------------------------------------------------------------
(* lib/period.ts, and Date of the runtime where the code asks it.          *)

GregorianLeap(gy) == (gy % 4 = 0 /\ gy % 100 # 0) \/ gy % 400 = 0
GregorianMonthLength(gy, gm) ==
    IF gm = 2 THEN (IF GregorianLeap(gy) THEN 29 ELSE 28) ELSE IF gm \in {4, 6, 9, 11} THEN 30 ELSE 31

GregorianMonthRange(gy, gm) ==
    [from |-> [gy |-> gy, gm |-> gm, gd |-> 1], to |-> [gy |-> gy, gm |-> gm, gd |-> GregorianMonthLength(gy, gm)]]

\* The Count months up to that of today, the oldest first.
LastMonths(calendar) ==
    [i \in 1 .. Count |->
        IF calendar = "jalali"
        THEN LET j == D2j(G2d(gregorian.gy, gregorian.gm, gregorian.gd))
                 b == Shift(j.jy, j.jm, i - Count)
             IN JalaliMonthRange(b.y, b.m)
        ELSE LET b == Shift(gregorian.gy, gregorian.gm, i - Count) IN GregorianMonthRange(b.y, b.m)]

\* This year and the one before it.
LastYears ==
    LET base == D2j(G2d(gregorian.gy, gregorian.gm, gregorian.gd)).jy
    IN <<JalaliYearRange(base - 1), JalaliYearRange(base)>>

-----------------------------------------------------------------------------
(* The calendars themselves, counted forward.                              *)

\* 1 Farvardin 1400; leap years follow a cycle of 33 from 1178 to 1633.
Known == 2459295
TrueLeap(jy) == jy % 33 \in {1, 5, 9, 13, 17, 22, 26, 30}
LeapsBetween(a, b) == Cardinality({y \in a .. b - 1 : TrueLeap(y)})
FirstDay(jy) ==
    IF jy >= 1400 THEN Known + 365 * (jy - 1400) + LeapsBetween(1400, jy)
    ELSE Known - 365 * (1400 - jy) - LeapsBetween(jy, 1400)

\* The day before 1 January of the year 1 is number 1721425.
March(gy, d) ==
    1721425 + 365 * (gy - 1) + (gy - 1) \div 4 - (gy - 1) \div 100 + (gy - 1) \div 400
        + 59 + (IF GregorianLeap(gy) THEN 1 ELSE 0) + d

Init ==
    \E jy \in Starts :
        /\ jdn = FirstDay(jy)
        /\ jalali = [jy |-> jy, jm |-> 1, jd |-> 1]
        /\ gregorian = [gy |-> jy + 621, gm |-> 3, gd |-> jdn - March(jy + 621, 0)]

TrueLength(jy, jm) == IF jm <= 6 THEN 31 ELSE IF jm <= 11 \/ TrueLeap(jy) THEN 30 ELSE 29

Midnight ==
    /\ jalali.jy \in Starts
    /\ jdn' = jdn + 1
    /\ jalali' = IF jalali.jd < TrueLength(jalali.jy, jalali.jm) THEN [jalali EXCEPT !.jd = @ + 1]
                 ELSE IF jalali.jm < 12 THEN [jalali EXCEPT !.jm = @ + 1, !.jd = 1]
                 ELSE [jy |-> jalali.jy + 1, jm |-> 1, jd |-> 1]
    /\ gregorian' = IF gregorian.gd < GregorianMonthLength(gregorian.gy, gregorian.gm) THEN [gregorian EXCEPT !.gd = @ + 1]
                    ELSE IF gregorian.gm < 12 THEN [gregorian EXCEPT !.gm = @ + 1, !.gd = 1]
                    ELSE [gy |-> gregorian.gy + 1, gm |-> 1, gd |-> 1]

Next == Midnight

Spec == Init /\ [][Next]_vars

-----------------------------------------------------------------------------
Number(g) == G2d(g.gy, g.gm, g.gd)
Adjoin(ranges) == \A i \in 2 .. Len(ranges) : Number(ranges[i].from) = Number(ranges[i - 1].to) + 1
Holds(range) == Number(range.from) <= jdn /\ jdn <= Number(range.to)

\* The arithmetic agrees with both calendars on every day, and the months and years of
\* the reports follow each other without a gap or an overlap, today being in the last:
\* no day of traffic is billed twice or never.  The picker puts each day in its column.
EveryDayOnce ==
    /\ D2j(Number(gregorian)) = jalali
    /\ Number(gregorian) = jdn /\ D2g(J2d(jalali.jy, jalali.jm, jalali.jd)) = gregorian
    /\ \A months \in {LastMonths("jalali"), LastMonths("gregorian"), LastYears} : Adjoin(months) /\ Holds(months[Len(months)])
    /\ (FirstColumn(jalali.jy, jalali.jm) + jalali.jd - 1) % 7 = (jdn + 2) % 7

=============================================================================
