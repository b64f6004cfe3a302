--------------------------- MODULE MeteringProofs ---------------------------
(***************************************************************************)
(* Proofs about Metering: what an admin entered by hand, and the hours     *)
(* before a port was linked, are safe from the roll-up, for every window,  *)
(* retention and order of the statements; and of the traffic nothing is    *)
(* counted twice, nothing is lost and nothing is taken back, because the   *)
(* rows of the meter that counts never exceed its samples, have caught up  *)
(* with them once a roll-up began two hours later, and are what the days   *)
(* are made from.  About Billing, which charges those days, with the same  *)
(* lemmas about sums: the days of a bill come to its month.  And about     *)
(* Backfill, the form in which days are typed in: it keeps its word.       *)
(***************************************************************************)
EXTENDS Metering, FiniteSetTheorems, WellFoundedInduction, TLAPS

-----------------------------------------------------------------------------
(* Sums over finite sets, as the community modules define them:             *)
(* SumFunctionOnSet adds up values of a function, one index of the set      *)
(* after the other.  Induction over the indices is a minimal                *)
(* counterexample: a non-empty set of finite sets has a smallest member.    *)

(* The index that is added first.                                          *)
Pick(S) == CHOOSE x \in S : TRUE

(* Induction over the subsets of a finite set: what holds of a set when it   *)
(* holds of its proper subsets holds of all.                               *)
LEMMA Induction ==
    ASSUME NEW S, IsFiniteSet(S), NEW G,
           \A T \in SUBSET S : (\A U \in SUBSET T : U # T => U \in G) => T \in G
    PROVE  \A T \in SUBSET S : T \in G
<1> DEFINE B == (SUBSET S) \ G
<1>1. SUFFICES ASSUME B # {} PROVE FALSE
    OBVIOUS
<1>2. IsWellFoundedOn(StrictSubsetOrdering(S), SUBSET S)
    BY FS_StrictSubsetOrderingWellFounded, FS_FiniteSubsetsOfFinite
<1>3. B \subseteq SUBSET S
    OBVIOUS
<1>4. PICK T \in B : \A U \in B : <<U, T>> \notin StrictSubsetOrdering(S)
    <2> HIDE DEF B
    <2> QED BY <1>1, <1>2, <1>3, WFMin
<1>5. \A U \in B : U \subseteq T => U = T
    BY <1>3, <1>4 DEF StrictSubsetOrdering
<1>6. \A U \in SUBSET T : U # T => U \in G
    BY <1>5
<1> QED BY <1>6

(* A non-empty set of numbers has a smallest.                               *)
LEMMA Least ==
    ASSUME NEW B \in SUBSET Nat, B # {}
    PROVE  \E n \in B : \A m \in B : n <= m
<1>1. PICK n \in B : \A m \in B : <<m, n>> \notin OpToRel(<, Nat)
    BY NatLessThanWellFounded, WFMin
<1>2. \A m \in B : ~ m < n
    BY <1>1 DEF OpToRel
<1> QED BY <1>2
-----------------------------------------------------------------------------
(* The equation by which the sum is defined, on a collection C of sets of   *)
(* indices.                                                                *)
AddsUp(it, f, C) == it = [T \in C |-> IF T = {} THEN 0 ELSE f[Pick(T)] + it[T \ {Pick(T)}]]

(* The subsets of S with at most n members.                                *)
UpTo(S, n) == {T \in SUBSET S : Cardinality(T) <= n}

(* The first index is one of the set, and without it the set is smaller.    *)
LEMMA PickIs ==
    ASSUME NEW T, T # {}, IsFiniteSet(T)
    PROVE  /\ Pick(T) \in T
           /\ IsFiniteSet(T \ {Pick(T)})
           /\ Cardinality(T) \in Nat /\ Cardinality(T \ {Pick(T)}) = Cardinality(T) - 1
<1>1. Pick(T) \in T
    BY DEF Pick
<1> QED BY <1>1, FS_RemoveElement, FS_CardinalityType

(* The equation has a solution on the sets of every size.                   *)
LEMMA SolvedUpTo ==
    ASSUME NEW S, IsFiniteSet(S), NEW f
    PROVE  \A n \in Nat : \E it : AddsUp(it, f, UpTo(S, n))
<1> DEFINE B == {n \in Nat : ~ \E it : AddsUp(it, f, UpTo(S, n))}
<1> SUFFICES ASSUME B # {} PROVE FALSE
    OBVIOUS
<1>1. PICK n \in B : \A m \in B : n <= m
    BY Least
<1>2. \A T \in SUBSET S : IsFiniteSet(T) /\ Cardinality(T) \in Nat
    BY FS_Subset, FS_CardinalityType
<1>3. CASE n = 0
    <2> DEFINE it == [T \in UpTo(S, 0) |-> 0]
    <2>1. \A T \in UpTo(S, 0) : T = {}
        BY <1>2, FS_EmptySet DEF UpTo
    <2>2. AddsUp(it, f, UpTo(S, 0))
        BY <2>1 DEF AddsUp
    <2> QED BY <1>3, <2>2
<1>4. CASE n # 0
    <2>1. n - 1 \in Nat /\ n - 1 \notin B
        BY <1>1, <1>4
    <2>2. PICK lower : AddsUp(lower, f, UpTo(S, n - 1))
        BY <2>1
    <2> DEFINE it == [T \in UpTo(S, n) |->
                         IF T = {} THEN 0 ELSE f[Pick(T)] + lower[T \ {Pick(T)}]]
    <2>3. \A T \in UpTo(S, n - 1) : T \in UpTo(S, n) /\ it[T] = lower[T]
        <3> SUFFICES ASSUME NEW T \in UpTo(S, n - 1) PROVE T \in UpTo(S, n) /\ it[T] = lower[T]
            OBVIOUS
        <3>1. T \in UpTo(S, n)
            BY <1>1, <1>2 DEF UpTo
        <3>2. lower[T] = IF T = {} THEN 0 ELSE f[Pick(T)] + lower[T \ {Pick(T)}]
            BY <2>2 DEF AddsUp
        <3> QED BY <3>1, <3>2
    <2>4. \A T \in UpTo(S, n) : T # {} => T \ {Pick(T)} \in UpTo(S, n - 1)
        BY <1>1, <1>2, PickIs DEF UpTo
    <2>5. AddsUp(it, f, UpTo(S, n))
        BY <2>3, <2>4 DEF AddsUp
    <2> QED BY <2>5
<1> QED BY <1>3, <1>4

(* And on all subsets of a finite set.                                     *)
LEMMA Solved ==
    ASSUME NEW S, IsFiniteSet(S), NEW f
    PROVE  \E it : AddsUp(it, f, SUBSET S)
<1>1. Cardinality(S) \in Nat
    BY FS_CardinalityType
<1>2. UpTo(S, Cardinality(S)) = SUBSET S
    BY FS_Subset DEF UpTo
<1>3. \E it : AddsUp(it, f, UpTo(S, Cardinality(S)))
    BY <1>1, SolvedUpTo
<1> QED BY <1>2, <1>3

(* Two solutions agree where both are defined.                             *)
LEMMA SolvedOnce ==
    ASSUME NEW S, IsFiniteSet(S), NEW f, NEW T \in SUBSET S, NEW it, NEW other,
           AddsUp(it, f, SUBSET S), AddsUp(other, f, SUBSET T)
    PROVE  it[T] = other[T]
<1> DEFINE G == {U \in SUBSET T : it[U] = other[U]}
<1>1. IsFiniteSet(T)
    BY FS_Subset
<1>2. ASSUME NEW U \in SUBSET T, \A V \in SUBSET U : V # U => V \in G
      PROVE  U \in G
    <2>1. CASE U = {}
        BY <2>1 DEF AddsUp
    <2>2. CASE U # {}
        <3>1. Pick(U) \in U
            BY <2>2 DEF Pick
        <3>2. it[U \ {Pick(U)}] = other[U \ {Pick(U)}]
            BY <1>2, <3>1
        <3>3. /\ it[U] = f[Pick(U)] + it[U \ {Pick(U)}]
              /\ other[U] = f[Pick(U)] + other[U \ {Pick(U)}]
            BY <2>2 DEF AddsUp
        <3> QED BY <3>2, <3>3
    <2> QED BY <2>1, <2>2
<1>3. \A U \in SUBSET T : U \in G
    <2> HIDE DEF G
    <2> QED BY <1>1, <1>2, Induction
<1> QED BY <1>3

(* The sum over a set is what the equation says.                            *)
LEMMA Unfold ==
    ASSUME NEW f, NEW S, IsFiniteSet(S)
    PROVE  \E it : AddsUp(it, f, SUBSET S) /\ SumFunctionOnSet(f, S) = it[S]
<1>1. SumFunctionOnSet(f, S) = (CHOOSE it : AddsUp(it, f, SUBSET S))[S]
    BY DEF SumFunctionOnSet, FoldFunctionOnSet, MapThenFoldSet, AddsUp, Pick
<1> QED BY <1>1, Solved

(* An empty sum is zero.                                                    *)
LEMMA SumEmpty == ASSUME NEW f PROVE SumFunctionOnSet(f, {}) = 0
<1>1. PICK it : AddsUp(it, f, SUBSET {}) /\ SumFunctionOnSet(f, {}) = it[{}]
    BY Unfold, FS_EmptySet
<1> QED BY <1>1 DEF AddsUp

(* Every other one is its first value and the rest.                         *)
LEMMA SumFirst ==
    ASSUME NEW f, NEW S, IsFiniteSet(S), S # {}
    PROVE  SumFunctionOnSet(f, S) = f[Pick(S)] + SumFunctionOnSet(f, S \ {Pick(S)})
<1> DEFINE R == S \ {Pick(S)}
<1>1. PICK it : AddsUp(it, f, SUBSET S) /\ SumFunctionOnSet(f, S) = it[S]
    BY Unfold
<1>2. R \in SUBSET S /\ IsFiniteSet(R)
    BY FS_Subset
<1>3. PICK rest : AddsUp(rest, f, SUBSET R) /\ SumFunctionOnSet(f, R) = rest[R]
    BY <1>2, Unfold
<1>4. it[R] = rest[R]
    <2> HIDE DEF R
    <2> QED BY <1>1, <1>2, <1>3, SolvedOnce
<1>5. it[S] = f[Pick(S)] + it[R]
    BY <1>1 DEF AddsUp
<1> QED BY <1>1, <1>3, <1>4, <1>5
-----------------------------------------------------------------------------
(* A sum of numbers is a number.                                            *)
LEMMA SumType ==
    ASSUME NEW S, IsFiniteSet(S), NEW f, \A x \in S : f[x] \in Nat
    PROVE  SumFunctionOnSet(f, S) \in Nat
<1> DEFINE G == {T \in SUBSET S : SumFunctionOnSet(f, T) \in Nat}
<1>1. ASSUME NEW T \in SUBSET S, \A U \in SUBSET T : U # T => U \in G
      PROVE  T \in G
    <2>1. IsFiniteSet(T)
        BY FS_Subset
    <2>2. CASE T = {}
        BY <2>2, SumEmpty
    <2>3. CASE T # {}
        <3>1. Pick(T) \in T
            BY <2>3 DEF Pick
        <3>2. SumFunctionOnSet(f, T \ {Pick(T)}) \in Nat
            BY <1>1, <3>1
        <3>3. SumFunctionOnSet(f, T) = f[Pick(T)] + SumFunctionOnSet(f, T \ {Pick(T)})
            BY <2>1, <2>3, SumFirst
        <3> QED BY <3>1, <3>2, <3>3
    <2> QED BY <2>2, <2>3
<1>2. \A T \in SUBSET S : T \in G
    <2> HIDE DEF G
    <2> QED BY <1>1, Induction
<1> QED BY <1>2

(* Every order gives the same sum: any index can be added first.            *)
LEMMA SumAny ==
    ASSUME NEW S, IsFiniteSet(S), NEW f, \A x \in S : f[x] \in Nat
    PROVE  \A x \in S : SumFunctionOnSet(f, S) = f[x] + SumFunctionOnSet(f, S \ {x})
<1> DEFINE Right(T) == \A x \in T : SumFunctionOnSet(f, T) = f[x] + SumFunctionOnSet(f, T \ {x})
           G == {T \in SUBSET S : Right(T)}
<1>1. ASSUME NEW T \in SUBSET S, \A U \in SUBSET T : U # T => U \in G, NEW x \in T
      PROVE  SumFunctionOnSet(f, T) = f[x] + SumFunctionOnSet(f, T \ {x})
    <2> DEFINE p == Pick(T)
    <2>1. p \in T /\ f[x] \in Nat /\ f[p] \in Nat
        BY DEF Pick
    <2>2. \A U \in SUBSET S : IsFiniteSet(U) /\ SumFunctionOnSet(f, U) \in Nat
        BY FS_Subset, SumType
    <2>3. SumFunctionOnSet(f, T) = f[p] + SumFunctionOnSet(f, T \ {p})
        BY <2>2, SumFirst
    <2>4. CASE x = p
        <3>1. T \ {x} = T \ {p} /\ f[x] = f[p]
            BY <2>4
        <3> QED BY <2>3, <3>1
    <2>5. CASE x # p
        <3>1. Right(T \ {p}) /\ Right(T \ {x})
            BY <1>1, <2>1
        <3>2. /\ SumFunctionOnSet(f, T \ {p}) = f[x] + SumFunctionOnSet(f, (T \ {p}) \ {x})
              /\ SumFunctionOnSet(f, T \ {x}) = f[p] + SumFunctionOnSet(f, (T \ {x}) \ {p})
            BY <2>1, <2>5, <3>1
        <3>3. SumFunctionOnSet(f, (T \ {p}) \ {x}) = SumFunctionOnSet(f, (T \ {x}) \ {p})
            <4>1. (T \ {p}) \ {x} = (T \ {x}) \ {p}
                OBVIOUS
            <4> HIDE DEF p
            <4> QED BY <4>1
        <3>4. SumFunctionOnSet(f, (T \ {p}) \ {x}) \in Nat
            BY <2>2
        <3> HIDE DEF p
        <3> QED BY <2>1, <2>3, <3>2, <3>3, <3>4
    <2> QED BY <2>4, <2>5
<1>2. \A T \in SUBSET S : T \in G
    <2>1. \A T \in SUBSET S : (\A U \in SUBSET T : U # T => U \in G) => T \in G
        BY <1>1
    <2> HIDE DEF G
    <2> QED BY <2>1, Induction
<1> QED BY <1>2

(* A larger function has a larger sum.                                      *)
LEMMA SumMonotone ==
    ASSUME NEW S, IsFiniteSet(S), NEW f, NEW g,
           \A x \in S : f[x] \in Nat /\ g[x] \in Nat /\ f[x] <= g[x]
    PROVE  SumFunctionOnSet(f, S) <= SumFunctionOnSet(g, S)
<1> DEFINE G == {T \in SUBSET S : SumFunctionOnSet(f, T) <= SumFunctionOnSet(g, T)}
<1>1. ASSUME NEW T \in SUBSET S, \A U \in SUBSET T : U # T => U \in G
      PROVE  T \in G
    <2> DEFINE p == Pick(T)
               R == T \ {p}
    <2>1. \A U \in SUBSET S : /\ IsFiniteSet(U)
                              /\ SumFunctionOnSet(f, U) \in Nat /\ SumFunctionOnSet(g, U) \in Nat
        BY FS_Subset, SumType
    <2>2. CASE T = {}
        BY <2>2, SumEmpty
    <2>3. CASE T # {}
        <3>1. p \in T /\ f[p] \in Nat /\ g[p] \in Nat /\ f[p] <= g[p]
            BY <2>3 DEF Pick
        <3>2. /\ SumFunctionOnSet(f, T) = f[p] + SumFunctionOnSet(f, R)
              /\ SumFunctionOnSet(g, T) = g[p] + SumFunctionOnSet(g, R)
            BY <2>1, <2>3, SumFirst
        <3>3. SumFunctionOnSet(f, R) <= SumFunctionOnSet(g, R)
            BY <1>1, <3>1
        <3>4. SumFunctionOnSet(f, R) \in Nat /\ SumFunctionOnSet(g, R) \in Nat
            BY <2>1
        <3>5. SumFunctionOnSet(f, T) <= SumFunctionOnSet(g, T)
            <4> HIDE DEF p, R
            <4> QED BY <3>1, <3>2, <3>3, <3>4
        <3> QED BY <3>5
    <2> QED BY <2>2, <2>3
<1>2. \A T \in SUBSET S : T \in G
    <2> HIDE DEF G
    <2> QED BY <1>1, Induction
<1> QED BY <1>2

(* Functions that agree on the indices have the same sum.                   *)
LEMMA SumEqual ==
    ASSUME NEW S, IsFiniteSet(S), NEW f, NEW g, \A x \in S : f[x] \in Nat /\ f[x] = g[x]
    PROVE  SumFunctionOnSet(f, S) = SumFunctionOnSet(g, S)
<1>1. SumFunctionOnSet(f, S) \in Nat /\ SumFunctionOnSet(g, S) \in Nat
    BY SumType
<1>2. SumFunctionOnSet(f, S) <= SumFunctionOnSet(g, S) /\ SumFunctionOnSet(g, S) <= SumFunctionOnSet(f, S)
    BY SumMonotone
<1> QED BY <1>1, <1>2

(* What is added at one index is added to the sum.                          *)
LEMMA SumGrows ==
    ASSUME NEW S, IsFiniteSet(S), NEW f, NEW g, NEW x \in S, NEW n \in Nat,
           \A y \in S : f[y] \in Nat, g[x] = f[x] + n, \A y \in S : y # x => g[y] = f[y]
    PROVE  SumFunctionOnSet(g, S) = SumFunctionOnSet(f, S) + n
<1>1. \A y \in S : g[y] \in Nat
    OBVIOUS
<1>2. IsFiniteSet(S \ {x})
    BY FS_Subset
<1>3. /\ SumFunctionOnSet(f, S) = f[x] + SumFunctionOnSet(f, S \ {x})
      /\ SumFunctionOnSet(g, S) = g[x] + SumFunctionOnSet(g, S \ {x})
    BY <1>1, SumAny
<1>4. SumFunctionOnSet(f, S \ {x}) = SumFunctionOnSet(g, S \ {x})
    BY <1>2, SumEqual
<1>5. SumFunctionOnSet(f, S \ {x}) \in Nat
    BY <1>2, SumType
<1> QED BY <1>3, <1>4, <1>5

(* A part has no larger sum than the whole.                                 *)
LEMMA SumPart ==
    ASSUME NEW S, IsFiniteSet(S), NEW f, \A x \in S : f[x] \in Nat, NEW T \in SUBSET S
    PROVE  SumFunctionOnSet(f, T) <= SumFunctionOnSet(f, S)
<1> DEFINE G == {U \in SUBSET S : T \subseteq U => SumFunctionOnSet(f, T) <= SumFunctionOnSet(f, U)}
<1>1. ASSUME NEW U \in SUBSET S, \A V \in SUBSET U : V # U => V \in G
      PROVE  U \in G
    <2>1. \A V \in SUBSET S : IsFiniteSet(V) /\ SumFunctionOnSet(f, V) \in Nat
        BY FS_Subset, SumType
    <2>2. CASE ~ T \subseteq U \/ T = U
        BY <2>1, <2>2
    <2>3. CASE T \subseteq U /\ T # U
        <3>1. PICK x \in U : x \notin T
            BY <2>3
        <3>2. SumFunctionOnSet(f, T) <= SumFunctionOnSet(f, U \ {x})
            BY <1>1, <2>3, <3>1
        <3>3. SumFunctionOnSet(f, U) = f[x] + SumFunctionOnSet(f, U \ {x})
            BY <2>1, SumAny
        <3>4. f[x] \in Nat /\ SumFunctionOnSet(f, U \ {x}) \in Nat /\ SumFunctionOnSet(f, T) \in Nat
            BY <2>1
        <3>5. SumFunctionOnSet(f, T) <= SumFunctionOnSet(f, U)
            BY <3>2, <3>3, <3>4
        <3> QED BY <3>5
    <2> QED BY <2>2, <2>3
<1>2. \A U \in SUBSET S : U \in G
    <2> HIDE DEF G
    <2> QED BY <1>1, Induction
<1> QED BY <1>2

(* A sum of zeros is zero.                                                  *)
LEMMA SumZero ==
    ASSUME NEW S, IsFiniteSet(S), NEW f, \A x \in S : f[x] = 0
    PROVE  SumFunctionOnSet(f, S) = 0
<1> DEFINE G == {T \in SUBSET S : SumFunctionOnSet(f, T) = 0}
<1>1. ASSUME NEW T \in SUBSET S, \A U \in SUBSET T : U # T => U \in G
      PROVE  T \in G
    <2>1. CASE T = {}
        BY <2>1, SumEmpty
    <2>2. CASE T # {}
        <3>1. IsFiniteSet(T)
            BY FS_Subset
        <3>2. Pick(T) \in T
            BY <2>2, <3>1, PickIs
        <3>3. SumFunctionOnSet(f, T \ {Pick(T)}) = 0
            BY <1>1, <3>2
        <3>4. SumFunctionOnSet(f, T) = f[Pick(T)] + SumFunctionOnSet(f, T \ {Pick(T)})
            BY <2>2, <3>1, SumFirst
        <3>5. f[Pick(T)] = 0
            BY <3>2
        <3> QED BY <3>3, <3>4, <3>5
    <2> QED BY <2>1, <2>2
<1> HIDE DEF G
<1>2. S \in G
    BY <1>1, Induction
<1> QED BY <1>2 DEF G

-----------------------------------------------------------------------------

(* The steps of Metering that leave the daily rows and the hourly rows as   *)
(* they are.                                                               *)
Aside ==
    \/ Traffic \/ Report \/ AnswerLost
    \/ StoreCounters \/ StoreDelta \/ ClearCounters
    \/ RollPort
    \/ \E cut \in 0 .. MaxFlow : Purge(cut)
    \/ Link
    \/ \E d \in Days, overwrite \in BOOLEAN : BackfillRead(d, overwrite)
    \/ NewHour \/ Crash
    \/ UNCHANGED vars

(* The other actions leave the rows of the hours and of the days alone.     *)
LEMMA AsideKeepsRows == Aside => UNCHANGED <<hourly, daily>>
BY DEF Aside, Traffic, Report, AnswerLost, Sample, StoreCounters, StoreDelta,
       ClearCounters, RollPort, Purge, Link, BackfillRead, NewHour, Crash, vars

(* Every step is one of those, a statement of the roll-up or an entry.      *)
LEMMA Steps ==
    [Next]_vars => Aside \/ RollAgent \/ Replace \/ Zero \/ RollDaily \/ BackfillWrite
BY DEF Next, Cycle, Aside

-----------------------------------------------------------------------------
(* What ManualStays says of one step. *)
ManualKept ==
    \A d \in Days : daily[d].source = "manual" /\ daily'[d] # daily[d] => form.at = "write"

(* The roll-up computes a row anew only if it came from the agent or is new. *)
LEMMA RollUpKeepsManual ==
    ASSUME NEW d \in Days, RollDaily, daily[d].source = "manual"
    PROVE  daily'[d] = daily[d]
<1>1. DayRow(d) = daily[d]
    BY DEF DayRow
<1> QED
    BY <1>1 DEF RollDaily

(* No step of the monitor or of the agents replaces a day entered by hand.  *)
LEMMA ManualStep == [Next]_vars => ManualKept
<1> SUFFICES ASSUME [Next]_vars PROVE ManualKept
    OBVIOUS
<1>1. CASE Aside
    BY <1>1, AsideKeepsRows DEF ManualKept
<1>2. CASE RollAgent \/ Replace \/ Zero
    BY <1>2 DEF RollAgent, Replace, Zero, ManualKept
<1>3. CASE RollDaily
    BY <1>3, RollUpKeepsManual DEF ManualKept
<1>4. CASE BackfillWrite
    BY <1>4 DEF BackfillWrite, ManualKept
<1> QED
    BY <1>1, <1>2, <1>3, <1>4, Steps

(* A day entered by hand changes only by hand.                             *)
THEOREM ManualIsSafe == Spec => ManualStays
<1>1. [Next]_vars => [ManualKept]_vars
    BY ManualStep
<1> QED
    BY <1>1, PTL DEF Spec, ManualStays, ManualKept

-----------------------------------------------------------------------------
(* The hour a port counts from is a number, so that an hour is before it or *)
(* counted by it.                                                          *)
SinceOK == hour \in Nat /\ since \in Nat

(* The two hours are numbers in every reachable state.                      *)
LEMMA SinceInvariant == Spec => []SinceOK
<1>1. Init => SinceOK
    BY HoursAssumption DEF Init, SinceOK, Never, HoursAssumption
<1>2. SinceOK /\ [Next]_vars => SinceOK'
    <2> SUFFICES ASSUME SinceOK, [Next]_vars PROVE SinceOK'
        OBVIOUS
    <2>1. CASE Link
        BY <2>1, HoursAssumption DEF Link, SinceOK, Never, HoursAssumption
    <2>2. CASE NewHour
        BY <2>2 DEF NewHour, SinceOK, linkVars
    <2>3. CASE Traffic \/ Report \/ AnswerLost \/ StoreCounters \/ StoreDelta \/ ClearCounters
        BY <2>3 DEF Traffic, Report, AnswerLost, Sample, StoreCounters, StoreDelta,
                    ClearCounters, SinceOK, linkVars
    <2>4. CASE Cycle
        BY <2>4 DEF Cycle, RollPort, RollAgent, Replace, Zero, RollDaily, SinceOK, linkVars
    <2>5. ASSUME NEW cut \in 0 .. MaxFlow, Purge(cut) PROVE SinceOK'
        BY <2>5 DEF Purge, SinceOK, linkVars
    <2>6. ASSUME NEW d \in Days, NEW overwrite \in BOOLEAN, BackfillRead(d, overwrite)
          PROVE  SinceOK'
        BY <2>6 DEF BackfillRead, SinceOK, linkVars
    <2>7. CASE BackfillWrite \/ Crash \/ UNCHANGED vars
        BY <2>7 DEF BackfillWrite, Crash, vars, SinceOK, linkVars
    <2> QED
        BY <2>1, <2>2, <2>3, <2>4, <2>5, <2>6, <2>7 DEF Next
<1> QED
    BY <1>1, <1>2, PTL DEF Spec

(* What PastIsTheAgents says of one step. *)
PastKept ==
    \A h \in Hours : h < since /\ hourly'[h] # hourly[h] => hourly'[h] = agentRaw[h]

(* Of an hour before the port counts, a step only keeps what the agent sent. *)
LEMMA PastStep == SinceOK /\ [Next]_vars => PastKept
<1> SUFFICES ASSUME SinceOK, [Next]_vars PROVE PastKept
    OBVIOUS
<1>1. CASE Aside
    BY <1>1, AsideKeepsRows DEF PastKept
<1>2. CASE RollAgent
    BY <1>2 DEF RollAgent, PastKept
<1>3. CASE Replace \/ Zero
    <2>1. \A h \in Hours : h < since => ~Counted(h)
        BY DEF Counted, SinceOK, Hours
    <2> QED
        BY <1>3, <2>1 DEF Replace, Zero, PastKept
<1>4. CASE RollDaily \/ BackfillWrite
    BY <1>4 DEF RollDaily, BackfillWrite, PastKept
<1> QED
    BY <1>1, <1>2, <1>3, <1>4, Steps

(* Linking a port leaves the hours before it to the agent.                 *)
THEOREM PastIsSafe == Spec => PastIsTheAgents
<1>1. SinceOK /\ [Next]_vars => [PastKept]_vars
    BY PastStep
<1> QED
    BY <1>1, SinceInvariant, PTL DEF Spec, PastIsTheAgents, PastKept

(* No statement of a roll-up touches what was settled before it.            *)
THEOREM SettledIsSafe == Spec => SettledStays
    BY ManualIsSafe, PastIsSafe DEF SettledStays

-----------------------------------------------------------------------------
(* The hourly rows of the meter that counts.                               *)
Rows == IF since = Never THEN hourly ELSE portHourly

(* The clock: a roll-up ended not long ago, the one under way began later,  *)
(* and a reading is stored at the latest in the next hour.                  *)
ClockKept ==
    /\ lastDone <= began /\ began <= hour /\ hour <= lastDone + MaxSleep
    /\ poll.at = "sample" => poll.hour <= hour /\ hour <= poll.hour + 1
    /\ poll.at = "idle" => poll.bytes = 0

(* The purge has not reached the hours that are still recomputed.          *)
RawKept ==
    \A h \in Hours : ~Expired(h) => agentRaw[h] = agentSeen[h] /\ portRaw[h] = portSeen[h]

(* Where the hourly statements stand.                                      *)
StagesKept ==
    /\ stage \in {"agent", "replace", "zero"} => half
    /\ stage = "daily" => ~half
    /\ half /\ ~torn => began = hour
    /\ ~touched => since \in {0, Never}

(* The sum of all hours, day by day.                                       *)
DaySums(f) == [d \in Days |-> SumFunctionOnSet(f, HoursOf(d))]
Total(f) == SumFunctionOnSet(DaySums(f), Days)

(* Neither meter has seen more than there was, but for what the agent       *)
(* reported twice.                                                         *)
SeenIsFlow ==
    /\ Total(agentSeen) + unsent <= flow + resent
    /\ Total(portSeen) + poll.bytes + unread <= flow

(* Of a port that counts: between the roll-up of the port and the zeros the *)
(* hours in the window may hold the agent's number, and no other hours.    *)
Replaced ==
    ~touched /\ ~torn /\ since # Never =>
        \A h \in Hours :
            /\ ~half \/ ~InWindow(h) => hourly[h] = portHourly[h]
            /\ stage = "zero" /\ portHourly[h] > 0 => hourly[h] = portHourly[h]

(* A roll-up that began two hours after h, when all its samples were there, *)
(* has passed the rows of the meter that counts.                           *)
Rolled(h) ==
    \/ h + 2 <= lastDone
    \/ /\ h + 2 <= began
       /\ stage # "idle" /\ (stage = "agent" => since # Never)

(* The rows never exceed the samples, and have caught up when rolled.       *)
RowsFollow ==
    ~touched /\ ~torn =>
        \A h \in Hours : Rows[h] <= Seen[h] /\ (Rolled(h) => Rows[h] = Seen[h])

(* The days never exceed the rows, and have caught up when all is rolled.   *)
DaysFollow ==
    ~touched /\ ~torn =>
        \A d \in Measured :
            /\ daily[d].bytes <= SumFunctionOnSet(Rows, HoursOf(d))
            /\ (\A h \in HoursOf(d) : h + 2 <= lastDone) =>
                   daily[d].bytes = SumFunctionOnSet(Seen, HoursOf(d))

(* The inductive invariant of the metering.                                 *)
MInv ==
    /\ TypeOK /\ ClockKept /\ RawKept /\ StagesKept
    /\ SeenIsFlow /\ Replaced /\ RowsFollow /\ DaysFollow

-----------------------------------------------------------------------------
(* What the constants are.                                                 *)
LEMMA ConstantsAre ==
    /\ LastHour \in Nat /\ HoursPerDay \in Nat \ {0} /\ DaysBack \in Nat \ {0}
    /\ MaxFlow \in Nat /\ MaxEvents \in Nat
    /\ Window \in Nat /\ MaxSleep \in Nat /\ Retention \in Nat
    /\ MaxSleep < Window /\ Window < Retention
BY HoursAssumption, WindowAssumption DEF HoursAssumption, WindowAssumption

(* A quotient is between its bounds, and a larger number has no smaller one. *)
LEMMA Quotient ==
    ASSUME NEW a \in Nat, NEW n \in Nat \ {0}
    PROVE  (a \div n) \in Nat /\ n * (a \div n) <= a /\ a < n * ((a \div n) + 1)
OBVIOUS

(* Multiples keep the order.                                               *)
LEMMA Multiples ==
    ASSUME NEW n \in Nat, NEW a \in Nat, NEW b \in Nat, a <= b
    PROVE  n * a <= n * b
OBVIOUS

(* Larger numbers have no smaller quotients.                               *)
LEMMA QuotientGrows ==
    ASSUME NEW n \in Nat \ {0}, NEW a \in Nat, NEW b \in Nat, a <= b
    PROVE  (a \div n) <= (b \div n)
<1>1. SUFFICES ASSUME (b \div n) + 1 <= (a \div n) PROVE FALSE
    BY Quotient
<1> DEFINE u == n * ((b \div n) + 1)
           v == n * (a \div n)
<1>2. u <= v
    BY <1>1, Quotient, Multiples
<1>3. v <= a /\ b < u /\ u \in Nat /\ v \in Nat
    BY Quotient
<1> HIDE DEF u, v
<1> QED BY <1>2, <1>3

(* An hour belongs to one of the days.                                      *)
LEMMA DayOfHour ==
    ASSUME NEW h \in Hours
    PROVE  DayOf(h) \in Days /\ h \in HoursOf(DayOf(h))
<1>1. h \in Nat /\ h <= LastHour /\ LastHour \in Nat /\ HoursPerDay \in Nat \ {0}
    BY ConstantsAre DEF Hours
<1>2. (h \div HoursPerDay) \in Nat /\ (LastHour \div HoursPerDay) \in Nat
    BY <1>1, Quotient
<1>3. (h \div HoursPerDay) <= (LastHour \div HoursPerDay)
    BY <1>1, QuotientGrows
<1> QED BY <1>2, <1>3 DEF DayOf, Days, HoursOf

(* A day that is not recomputed any more is beyond the window.              *)
LEMMA DayPast ==
    ASSUME NEW d \in Days, NEW h \in HoursOf(d), NEW k \in Hours, ~ DayOf(k) <= d + DaysBack
    PROVE  h + Window < k
<1>1. h \in Nat /\ k \in Nat /\ d \in Nat /\ HoursPerDay \in Nat \ {0} /\ DaysBack \in Nat
    BY ConstantsAre DEF Hours, HoursOf, Days
<1> DEFINE n == HoursPerDay
           q == k \div n
<1>2. q \in Nat /\ n * q <= k
    BY <1>1, Quotient
<1>3. h < n * (d + 1)
    BY <1>1, Quotient DEF HoursOf, DayOf
<1>4. d + 1 + DaysBack <= q
    BY <1>1, <1>2 DEF DayOf
<1>5. n * (d + 1 + DaysBack) <= n * q
    BY <1>1, <1>2, <1>4, Multiples
<1>6. n * (d + 1 + DaysBack) = n * (d + 1) + n * DaysBack
    BY <1>1
<1>7. Window <= n * DaysBack /\ Window \in Nat
    BY WindowAssumption DEF WindowAssumption
<1> DEFINE a == n * (d + 1)
           b == n * DaysBack
           c == n * q
<1>8. a \in Nat /\ b \in Nat /\ c \in Nat
    BY <1>1, <1>2
<1>9. h < a /\ a + b <= c /\ c <= k /\ Window <= b
    BY <1>2, <1>3, <1>5, <1>6, <1>7
<1> HIDE DEF a, b, c
<1> QED BY <1>1, <1>7, <1>8, <1>9

(* There are finitely many hours and days.                                  *)
LEMMA FinitelyMany ==
    /\ IsFiniteSet(Hours) /\ IsFiniteSet(Days)
    /\ \A d : IsFiniteSet(HoursOf(d)) /\ HoursOf(d) \subseteq Hours
<1>1. LastHour \in Nat /\ DayOf(LastHour) \in Nat
    BY ConstantsAre, Quotient DEF DayOf
<1>2. IsFiniteSet(Hours) /\ IsFiniteSet(Days)
    BY <1>1, FS_Interval DEF Hours, Days
<1>3. \A d : HoursOf(d) \in SUBSET Hours
    BY DEF HoursOf
<1> QED BY <1>2, <1>3, FS_Subset

(* The sum of a day's hours is a number.                                    *)
LEMMA DaySumIs ==
    ASSUME NEW f \in [Hours -> Nat], NEW d
    PROVE  SumFunctionOnSet(f, HoursOf(d)) \in Nat
<1>1. \A h \in HoursOf(d) : f[h] \in Nat
    BY DEF HoursOf
<1> QED BY <1>1, FinitelyMany, SumType

(* So is that of all days.                                                  *)
LEMMA TotalIs ==
    ASSUME NEW f \in [Hours -> Nat]
    PROVE  Total(f) \in Nat /\ \A d \in Days : DaySums(f)[d] \in Nat
<1>1. \A d \in Days : DaySums(f)[d] \in Nat
    BY DaySumIs DEF DaySums
<1> QED BY <1>1, FinitelyMany, SumType DEF Total

(* A sample changes the sum of its day, and the total, by its volume.       *)
LEMMA SampleCounts ==
    ASSUME NEW f \in [Hours -> Nat], NEW g \in [Hours -> Nat], NEW k \in Hours, NEW n \in Nat,
           g[k] = f[k] + n, \A h \in Hours : h # k => g[h] = f[h]
    PROVE  /\ Total(g) = Total(f) + n
           /\ \A d \in Days : d # DayOf(k) =>
                 SumFunctionOnSet(g, HoursOf(d)) = SumFunctionOnSet(f, HoursOf(d))
<1>1. g[k] = f[k] + n /\ \A h \in Hours \ {k} : g[h] = f[h]
    OBVIOUS
<1>2. ASSUME NEW d \in Days, d # DayOf(k)
      PROVE  SumFunctionOnSet(g, HoursOf(d)) = SumFunctionOnSet(f, HoursOf(d))
    <2>1. \A h \in HoursOf(d) : g[h] \in Nat /\ g[h] = f[h]
        BY <1>1, <1>2 DEF HoursOf
    <2> QED BY <2>1, FinitelyMany, SumEqual
<1>3. SumFunctionOnSet(g, HoursOf(DayOf(k))) = SumFunctionOnSet(f, HoursOf(DayOf(k))) + n
    <2>1. k \in HoursOf(DayOf(k)) /\ \A h \in HoursOf(DayOf(k)) : f[h] \in Nat
        BY DayOfHour DEF HoursOf
    <2>2. \A h \in HoursOf(DayOf(k)) \ {k} : g[h] = f[h]
        BY <1>1 DEF HoursOf
    <2> DEFINE D == HoursOf(DayOf(k))
    <2>3. IsFiniteSet(D) /\ k \in D /\ (\A h \in D : f[h] \in Nat)
          /\ (\A h \in D : h # k => g[h] = f[h]) /\ g[k] = f[k] + n
        BY <1>1, <2>1, <2>2, FinitelyMany
    <2> HIDE DEF D
    <2>4. SumFunctionOnSet(g, D) = SumFunctionOnSet(f, D) + n
        BY <2>3, SumGrows
    <2> QED BY <2>4 DEF D
<1>4. Total(g) = Total(f) + n
    <2>1. DayOf(k) \in Days
        BY DayOfHour
    <2>2. DaySums(g)[DayOf(k)] = DaySums(f)[DayOf(k)] + n
        BY <1>3, <2>1 DEF DaySums
    <2>3. \A d \in Days \ {DayOf(k)} : DaySums(g)[d] = DaySums(f)[d]
        BY <1>2 DEF DaySums
    <2>4. \A d \in Days : DaySums(f)[d] \in Nat
        BY TotalIs
    <2> DEFINE F == DaySums(f)
               G == DaySums(g)
               d == DayOf(k)
    <2>5. IsFiniteSet(Days) /\ d \in Days /\ (\A e \in Days : F[e] \in Nat)
          /\ (\A e \in Days : e # d => G[e] = F[e]) /\ G[d] = F[d] + n
        BY <2>1, <2>2, <2>3, <2>4, FinitelyMany
    <2> HIDE DEF F, G, d
    <2>6. SumFunctionOnSet(G, Days) = SumFunctionOnSet(F, Days) + n
        BY <2>5, SumGrows
    <2> QED BY <2>6 DEF Total, F, G
<1> QED BY <1>2, <1>4

-----------------------------------------------------------------------------
(* The steps by what they may change.                                      *)
Meters == Traffic \/ Report \/ AnswerLost \/ StoreCounters \/ StoreDelta \/ ClearCounters
Panel == Link \/ BackfillWrite \/ \E d \in Days, overwrite \in BOOLEAN : BackfillRead(d, overwrite)

(* The initial states have the right types.                                 *)
LEMMA TypeInit == Init => TypeOK
<1> SUFFICES ASSUME Init PROVE TypeOK
    OBVIOUS
<1>1. 0 \in Hours /\ 0 \in Days /\ Never \in Nat /\ 0 \in 0 .. Never
    <2>1. 0 \in Hours
        BY ConstantsAre DEF Hours
    <2>2. DayOf(LastHour) \in Nat
        BY ConstantsAre, Quotient DEF DayOf
    <2> QED BY <2>1, <2>2, ConstantsAre DEF Days, Never
<1>2. hour \in Hours /\ flow \in 0 .. MaxFlow /\ events \in 0 .. MaxEvents
    BY <1>1, ConstantsAre DEF Init
<1>3. unsent \in Nat /\ resent \in Nat /\ unread \in Nat /\ began \in Hours /\ lastDone \in Hours
    BY <1>1 DEF Init
<1>4. cleared \in BOOLEAN /\ touched \in BOOLEAN /\ half \in BOOLEAN /\ torn \in BOOLEAN
    BY DEF Init
<1>5. poll \in [at : {"idle", "sample"}, hour : Hours, bytes : Nat]
    BY <1>1 DEF Init, NoPoll
<1>6. /\ agentRaw \in [Hours -> Nat] /\ portRaw \in [Hours -> Nat]
      /\ agentSeen \in [Hours -> Nat] /\ portSeen \in [Hours -> Nat]
      /\ portHourly \in [Hours -> Nat] /\ hourly \in [Hours -> Nat]
    BY DEF Init
<1>7. since \in 0 .. Never
    BY <1>1 DEF Init
<1>8. daily \in [Days -> [bytes : Nat, source : {"none", "agent", "manual"}]]
    BY DEF Init, NoDay
<1>9. stage \in {"idle", "agent", "replace", "zero", "daily"} /\ form \in [at : {"idle", "write"}, day : Days]
    BY <1>1 DEF Init, NoForm
<1> QED BY <1>2, <1>3, <1>4, <1>5, <1>6, <1>7, <1>8, <1>9 DEF TypeOK

(* A step of the meters keeps the types.                                    *)
LEMMA MetersType == TypeOK /\ Meters => TypeOK'
<1> USE DEF TypeOK, rawVars, linkVars, cycleVars, sourceVars
<1>0. 0 \in Hours /\ Hours \subseteq Nat /\ MaxFlow \in Nat /\ MaxEvents \in Nat
    BY ConstantsAre DEF Hours
<1>1. TypeOK /\ Traffic => TypeOK'
    BY <1>0 DEF Traffic
<1>2. TypeOK /\ Report => TypeOK'
    BY <1>0 DEF Report, Sample
<1>3. TypeOK /\ AnswerLost => TypeOK'
    BY <1>0 DEF AnswerLost, Sample, Event
<1>4. TypeOK /\ StoreCounters => TypeOK'
    <2> SUFFICES ASSUME TypeOK, StoreCounters PROVE TypeOK'
        OBVIOUS
    <2>1. poll' \in [at : {"idle", "sample"}, hour : Hours, bytes : Nat]
        BY <1>0 DEF StoreCounters
    <2>2. unread' \in Nat /\ cleared' \in BOOLEAN
        BY DEF StoreCounters
    <2> QED BY <2>1, <2>2 DEF StoreCounters
<1>5. TypeOK /\ StoreDelta => TypeOK'
    <2> SUFFICES ASSUME TypeOK, StoreDelta PROVE TypeOK'
        OBVIOUS
    <2>1. poll' \in [at : {"idle", "sample"}, hour : Hours, bytes : Nat]
        BY <1>0 DEF StoreDelta, NoPoll
    <2>2. poll.bytes \in Nat
        OBVIOUS
    <2>3. portRaw' \in [Hours -> Nat] /\ portSeen' \in [Hours -> Nat]
        BY <2>2 DEF StoreDelta
    <2> QED BY <2>1, <2>3 DEF StoreDelta
<1>6. TypeOK /\ ClearCounters => TypeOK'
    BY <1>0 DEF ClearCounters, Event
<1> QED BY <1>1, <1>2, <1>3, <1>4, <1>5, <1>6 DEF Meters

(* The row of a day that is computed anew is a row.                         *)
LEMMA DayRowIs ==
    ASSUME TypeOK, NEW d \in Days
    PROVE  DayRow(d) \in [bytes : Nat, source : {"none", "agent", "manual"}]
<1>1. SumFunctionOnSet(hourly, HoursOf(d)) \in Nat
    BY DaySumIs DEF TypeOK
<1>2. daily[d] \in [bytes : Nat, source : {"none", "agent", "manual"}]
    BY DEF TypeOK
<1> QED BY <1>1, <1>2 DEF DayRow

(* A statement of the roll-up keeps the types.                              *)
LEMMA CycleType == TypeOK /\ Cycle => TypeOK'
<1> USE DEF rawVars, linkVars, sourceVars
<1>1. TypeOK /\ RollPort => TypeOK'
    <2> SUFFICES ASSUME TypeOK, RollPort PROVE TypeOK'
        OBVIOUS
    <2>1. portHourly' \in [Hours -> Nat]
        BY DEF RollPort, TypeOK
    <2> QED BY <2>1 DEF RollPort, TypeOK
<1>2. TypeOK /\ RollAgent => TypeOK'
    <2> SUFFICES ASSUME TypeOK, RollAgent PROVE TypeOK'
        OBVIOUS
    <2>1. hourly' \in [Hours -> Nat]
        BY DEF RollAgent, TypeOK
    <2> QED BY <2>1 DEF RollAgent, TypeOK
<1>3. TypeOK /\ Replace => TypeOK'
    <2> SUFFICES ASSUME TypeOK, Replace PROVE TypeOK'
        OBVIOUS
    <2>1. hourly' \in [Hours -> Nat]
        BY DEF Replace, TypeOK
    <2> QED BY <2>1 DEF Replace, TypeOK
<1>4. TypeOK /\ Zero => TypeOK'
    <2> SUFFICES ASSUME TypeOK, Zero PROVE TypeOK'
        OBVIOUS
    <2>1. hourly' \in [Hours -> Nat]
        BY DEF Zero, TypeOK
    <2> QED BY <2>1 DEF Zero, TypeOK
<1>5. TypeOK /\ RollDaily => TypeOK'
    <2> SUFFICES ASSUME TypeOK, RollDaily PROVE TypeOK'
        OBVIOUS
    <2>1. daily' \in [Days -> [bytes : Nat, source : {"none", "agent", "manual"}]]
        BY DayRowIs DEF RollDaily, TypeOK
    <2> QED BY <2>1 DEF RollDaily, TypeOK
<1> QED BY <1>1, <1>2, <1>3, <1>4, <1>5 DEF Cycle

(* What a purge leaves of an hour is a number.                              *)
LEMMA RemainsNat ==
    ASSUME NEW raw \in [Hours -> Nat], NEW h \in Hours, NEW cut \in Nat
    PROVE  Remains(raw, h, cut) \in Nat
BY DEF Remains

(* So does every other step.                                                *)
LEMMA TypeStep == TypeOK /\ [Next]_vars => TypeOK'
<1> SUFFICES ASSUME TypeOK, [Next]_vars PROVE TypeOK'
    OBVIOUS
<1> USE DEF rawVars, linkVars, sourceVars, cycleVars
<1>1. CASE Meters
    BY <1>1, MetersType
<1>2. CASE Cycle
    BY <1>2, CycleType
<1>3. ASSUME NEW cut \in 0 .. MaxFlow, Purge(cut) PROVE TypeOK'
    <2>1. cut \in Nat
        BY ConstantsAre
    <2>2. agentRaw' \in [Hours -> Nat] /\ portRaw' \in [Hours -> Nat]
        BY <1>3, <2>1, RemainsNat DEF Purge, TypeOK
    <2> QED BY <1>3, <2>2 DEF Purge, TypeOK
<1>4. CASE Link
    <2>1. hour \in 0 .. Never /\ Never \in 0 .. Never
        BY ConstantsAre DEF TypeOK, Hours, Never
    <2> QED BY <1>4, <2>1, ConstantsAre DEF Link, Event, TypeOK
<1>5. ASSUME NEW d \in Days, NEW overwrite \in BOOLEAN, BackfillRead(d, overwrite) PROVE TypeOK'
    BY <1>5, ConstantsAre DEF BackfillRead, Event, TypeOK
<1>6. CASE BackfillWrite
    <2>1. 0 \in Days /\ MaxFlow + 1 \in Nat
        BY DayOfHour, ConstantsAre, Quotient DEF Days, DayOf
    <2> QED BY <1>6, <2>1 DEF BackfillWrite, NoForm, TypeOK
<1>7. CASE NewHour
    <2>1. hour' \in Hours
        BY <1>7, ConstantsAre DEF NewHour, TypeOK, Hours
    <2>2. torn' \in BOOLEAN
        BY <1>7 DEF NewHour, TypeOK
    <2> QED BY <1>7, <2>1, <2>2 DEF NewHour, TypeOK
<1>8. CASE Crash
    <2>1. poll' \in [at : {"idle", "sample"}, hour : Hours, bytes : Nat]
        BY <1>8, ConstantsAre DEF Crash, NoPoll, Hours
    <2>2. events' \in 0 .. MaxEvents
        BY <1>8, ConstantsAre DEF Crash, Event, TypeOK
    <2> QED BY <1>8, <2>1, <2>2 DEF Crash, TypeOK
<1>9. CASE UNCHANGED vars
    BY <1>9 DEF vars, TypeOK
<1> QED BY <1>1, <1>2, <1>3, <1>4, <1>5, <1>6, <1>7, <1>8, <1>9 DEF Next, Meters

-----------------------------------------------------------------------------
(* Every step keeps the clock: time waits for a roll-up and for a reading.  *)
LEMMA ClockStep == TypeOK /\ ClockKept /\ [Next]_vars => ClockKept'
<1> SUFFICES ASSUME TypeOK, ClockKept, [Next]_vars PROVE ClockKept'
    OBVIOUS
<1> USE DEF ClockKept, rawVars, linkVars, sourceVars, cycleVars
<1>0. /\ hour \in Nat /\ began \in Nat /\ lastDone \in Nat /\ MaxSleep \in Nat
      /\ poll.at = "sample" => poll.hour \in Nat
    BY ConstantsAre DEF TypeOK, Hours
<1>1. CASE StoreCounters
    BY <1>0, <1>1 DEF StoreCounters
<1>2. CASE StoreDelta \/ Crash
    BY <1>0, <1>2 DEF StoreDelta, Crash, NoPoll
<1>3. CASE RollPort
    BY <1>0, <1>3 DEF RollPort
<1>4. CASE RollDaily
    BY <1>0, <1>4 DEF RollDaily
<1>5. CASE NewHour
    BY <1>0, <1>5 DEF NewHour
<1>6. ASSUME UNCHANGED <<hour, poll, began, lastDone>> PROVE ClockKept'
    BY <1>6
<1>7. CASE Traffic \/ Report \/ AnswerLost \/ ClearCounters
    BY <1>6, <1>7 DEF Traffic, Report, AnswerLost, Sample, ClearCounters
<1>8. CASE RollAgent \/ Replace \/ Zero
    BY <1>6, <1>8 DEF RollAgent, Replace, Zero
<1>9. ASSUME NEW cut \in 0 .. MaxFlow, Purge(cut) PROVE ClockKept'
    BY <1>6, <1>9 DEF Purge
<1>10. CASE Link \/ BackfillWrite \/ UNCHANGED vars
    BY <1>6, <1>10 DEF Link, BackfillWrite, vars
<1>11. ASSUME NEW d \in Days, NEW overwrite \in BOOLEAN, BackfillRead(d, overwrite) PROVE ClockKept'
    BY <1>6, <1>11 DEF BackfillRead
<1> QED BY <1>1, <1>2, <1>3, <1>4, <1>5, <1>7, <1>8, <1>9, <1>10, <1>11 DEF Next, Cycle

(* Every step keeps the hourly statements in their order.                   *)
LEMMA StagesStep == TypeOK /\ ClockKept /\ StagesKept /\ [Next]_vars => StagesKept'
<1> SUFFICES ASSUME TypeOK, ClockKept, StagesKept, [Next]_vars PROVE StagesKept'
    OBVIOUS
<1> USE DEF StagesKept, rawVars, linkVars, sourceVars, cycleVars
<1>0. half \in BOOLEAN /\ torn \in BOOLEAN /\ touched \in BOOLEAN
    BY DEF TypeOK
<1>1. CASE RollPort \/ RollAgent \/ Replace \/ Zero \/ RollDaily
    BY <1>0, <1>1 DEF RollPort, RollAgent, Replace, Zero, RollDaily
<1>2. CASE NewHour
    BY <1>0, <1>2 DEF NewHour
<1>3. CASE Crash
    BY <1>0, <1>3 DEF Crash
<1>4. CASE Link
    BY <1>0, <1>4 DEF Link
<1>5. ASSUME UNCHANGED <<hour, linkVars, cycleVars>> PROVE StagesKept'
    BY <1>5
<1>6. CASE Meters
    BY <1>5, <1>6 DEF Meters, Traffic, Report, AnswerLost, Sample, StoreCounters, StoreDelta, ClearCounters
<1>7. ASSUME NEW cut \in 0 .. MaxFlow, Purge(cut) PROVE StagesKept'
    BY <1>5, <1>7 DEF Purge
<1>8. CASE BackfillWrite \/ UNCHANGED vars
    BY <1>5, <1>8 DEF BackfillWrite, vars
<1>9. ASSUME NEW d \in Days, NEW overwrite \in BOOLEAN, BackfillRead(d, overwrite) PROVE StagesKept'
    BY <1>5, <1>9 DEF BackfillRead
<1> QED BY <1>1, <1>2, <1>3, <1>4, <1>6, <1>7, <1>8, <1>9 DEF Next, Cycle, Meters

(* The samples come to hours that no purge has reached.                     *)
LEMMA RawStep == TypeOK /\ ClockKept /\ RawKept /\ [Next]_vars => RawKept'
<1> SUFFICES ASSUME TypeOK, ClockKept, RawKept, [Next]_vars PROVE RawKept'
    OBVIOUS
<1> USE DEF RawKept, rawVars, linkVars, sourceVars, cycleVars
<1>a. Hours \subseteq Nat /\ Retention \in Nat
    BY ConstantsAre DEF Hours
<1>0. /\ hour \in Nat /\ Hours \subseteq Nat /\ Retention \in Nat
      /\ agentRaw \in [Hours -> Nat] /\ portRaw \in [Hours -> Nat]
      /\ agentSeen \in [Hours -> Nat] /\ portSeen \in [Hours -> Nat]
    BY <1>a DEF TypeOK
<1>1. CASE Report \/ AnswerLost
    BY <1>0, <1>1 DEF Report, AnswerLost, Sample, Expired
<1>2. CASE StoreDelta
    BY <1>0, <1>2 DEF StoreDelta, Expired
<1>3. ASSUME NEW cut \in 0 .. MaxFlow, Purge(cut) PROVE RawKept'
    BY <1>0, <1>3 DEF Purge, Remains, Expired
<1>4. CASE NewHour
    BY <1>0, <1>4 DEF NewHour, Expired
<1>5. ASSUME UNCHANGED <<hour, rawVars>> PROVE RawKept'
    BY <1>5 DEF Expired
<1>6. CASE Traffic \/ StoreCounters \/ ClearCounters
    BY <1>5, <1>6 DEF Traffic, StoreCounters, ClearCounters
<1>7. CASE Cycle
    BY <1>5, <1>7 DEF Cycle, RollPort, RollAgent, Replace, Zero, RollDaily
<1>8. CASE Link \/ BackfillWrite \/ Crash \/ UNCHANGED vars
    BY <1>5, <1>8 DEF Link, BackfillWrite, Crash, vars
<1>9. ASSUME NEW d \in Days, NEW overwrite \in BOOLEAN, BackfillRead(d, overwrite) PROVE RawKept'
    BY <1>5, <1>9 DEF BackfillRead
<1> QED BY <1>1, <1>2, <1>3, <1>4, <1>6, <1>7, <1>8, <1>9 DEF Next

(* What a sample holds was traffic before it was a sample.                  *)
LEMMA FlowStep == TypeOK /\ TypeOK' /\ ClockKept /\ SeenIsFlow /\ [Next]_vars => SeenIsFlow'
<1> SUFFICES ASSUME TypeOK, TypeOK', ClockKept, SeenIsFlow, [Next]_vars PROVE SeenIsFlow'
    OBVIOUS
<1> USE DEF SeenIsFlow, rawVars, linkVars, sourceVars, cycleVars
<1>0. /\ agentSeen \in [Hours -> Nat] /\ portSeen \in [Hours -> Nat]
      /\ agentSeen' \in [Hours -> Nat] /\ portSeen' \in [Hours -> Nat]
      /\ hour \in Hours /\ poll.hour \in Hours /\ poll.bytes \in Nat
      /\ flow \in Nat /\ unsent \in Nat /\ resent \in Nat /\ unread \in Nat
    BY ConstantsAre DEF TypeOK
<1>1. Total(agentSeen) \in Nat /\ Total(portSeen) \in Nat
    BY <1>0, TotalIs
<1>2. CASE Report \/ AnswerLost
    <2>1. /\ agentSeen'[hour] = agentSeen[hour] + unsent
          /\ \A h \in Hours : h # hour => agentSeen'[h] = agentSeen[h]
        BY <1>0, <1>2 DEF Report, AnswerLost, Sample
    <2>2. Total(agentSeen') = Total(agentSeen) + unsent
        BY <1>0, <2>1, SampleCounts
    <2>3. /\ UNCHANGED <<flow, portSeen, poll, unread>>
          /\ \/ unsent' = 0 /\ resent' = resent
             \/ unsent' = unsent /\ resent' = resent + unsent
        BY <1>2 DEF Report, AnswerLost, Sample
    <2> QED BY <1>0, <1>1, <2>2, <2>3 DEF Total, DaySums
<1>3. CASE StoreDelta
    <2>1. /\ portSeen'[poll.hour] = portSeen[poll.hour] + poll.bytes
          /\ \A h \in Hours : h # poll.hour => portSeen'[h] = portSeen[h]
        BY <1>0, <1>3 DEF StoreDelta
    <2>2. Total(portSeen') = Total(portSeen) + poll.bytes
        BY <1>0, <2>1, SampleCounts
    <2>3. /\ UNCHANGED <<flow, agentSeen, unsent, resent, unread>>
          /\ poll'.bytes = 0
        BY <1>3 DEF StoreDelta, NoPoll
    <2> QED BY <1>0, <1>1, <2>2, <2>3 DEF Total, DaySums
<1>4. CASE Traffic
    <2>1. UNCHANGED <<agentSeen, portSeen, poll, resent>> /\ flow' = flow + 1
          /\ unsent' = unsent + 1 /\ unread' = unread + 1
        BY <1>4 DEF Traffic
    <2>2. Total(agentSeen)' = Total(agentSeen) /\ Total(portSeen)' = Total(portSeen)
        BY <2>1 DEF Total, DaySums
    <2> QED BY <1>0, <1>1, <2>1, <2>2
<1>5. CASE StoreCounters
    <2>1. UNCHANGED <<agentSeen, portSeen, unsent, resent, flow>> /\ unread' = 0
          /\ poll'.bytes \in {0, unread} /\ poll.bytes = 0
        BY <1>5 DEF StoreCounters, ClockKept
    <2>2. Total(agentSeen)' = Total(agentSeen) /\ Total(portSeen)' = Total(portSeen)
        BY <2>1 DEF Total, DaySums
    <2> QED BY <1>0, <1>1, <2>1, <2>2
<1>6. CASE Crash
    <2>1. UNCHANGED <<agentSeen, portSeen, unsent, resent, flow, unread>> /\ poll'.bytes = 0
        BY <1>6 DEF Crash, NoPoll
    <2>2. Total(agentSeen)' = Total(agentSeen) /\ Total(portSeen)' = Total(portSeen)
        BY <2>1 DEF Total, DaySums
    <2> QED BY <1>0, <1>1, <2>1, <2>2
<1>7. ASSUME UNCHANGED <<flow, unsent, resent, unread, poll, agentSeen, portSeen>> PROVE SeenIsFlow'
    BY <1>7 DEF Total, DaySums
<1>8. CASE ClearCounters \/ Link \/ BackfillWrite \/ NewHour \/ UNCHANGED vars
    BY <1>7, <1>8 DEF ClearCounters, Link, BackfillWrite, NewHour, vars
<1>9. CASE Cycle
    BY <1>7, <1>9 DEF Cycle, RollPort, RollAgent, Replace, Zero, RollDaily
<1>10. ASSUME NEW cut \in 0 .. MaxFlow, Purge(cut) PROVE SeenIsFlow'
    BY <1>7, <1>10 DEF Purge
<1>11. ASSUME NEW d \in Days, NEW overwrite \in BOOLEAN, BackfillRead(d, overwrite) PROVE SeenIsFlow'
    BY <1>7, <1>11 DEF BackfillRead
<1> QED BY <1>2, <1>3, <1>4, <1>5, <1>6, <1>8, <1>9, <1>10, <1>11 DEF Next

-----------------------------------------------------------------------------
(* Of a link that was never touched, a step changes nothing, and it counts   *)
(* from the first hour or never.                                            *)
LEMMA LinkKept ==
    ASSUME TypeOK, StagesKept, [Next]_vars, ~touched', ~torn'
    PROVE  ~touched /\ ~torn /\ since' = since /\ since \in {0, Never}
<1> USE DEF rawVars, linkVars, sourceVars, cycleVars
<1>1. CASE Meters
    BY <1>1 DEF Meters, Traffic, Report, AnswerLost, Sample, StoreCounters, StoreDelta,
                ClearCounters, StagesKept
<1>2. CASE Cycle
    BY <1>2 DEF Cycle, RollPort, RollAgent, Replace, Zero, RollDaily, StagesKept
<1>3. CASE Crash \/ BackfillWrite \/ UNCHANGED vars
    BY <1>3 DEF Crash, BackfillWrite, vars, StagesKept
<1>4. CASE NewHour
    <2>1. torn' = (torn \/ half) /\ UNCHANGED linkVars
        BY <1>4 DEF NewHour
    <2>2. ~torn
        BY <2>1
    <2> QED BY <2>1, <2>2 DEF StagesKept
<1>5. CASE Link
    BY <1>5 DEF Link
<1>6. ASSUME NEW cut \in 0 .. MaxFlow, Purge(cut)
      PROVE  ~touched /\ ~torn /\ since' = since /\ since \in {0, Never}
    BY <1>6 DEF Purge, StagesKept
<1>7. ASSUME NEW d \in Days, NEW overwrite \in BOOLEAN, BackfillRead(d, overwrite)
      PROVE  ~touched /\ ~torn /\ since' = since /\ since \in {0, Never}
    BY <1>7 DEF BackfillRead, StagesKept
<1> QED BY <1>1, <1>2, <1>3, <1>4, <1>5, <1>6, <1>7 DEF Next, Meters

(* A port that counts counts every hour; one that does not counts none.     *)
LEMMA CountedIs ==
    ASSUME NEW h \in Hours
    PROVE  /\ since = 0 => (Counted(h) <=> InWindow(h))
           /\ since = Never => ~Counted(h)
<1>1. h \in Nat /\ h <= LastHour /\ LastHour \in Nat
    BY ConstantsAre DEF Hours
<1> QED BY <1>1 DEF Counted, Never

(* Every step leaves the hours of a port that counts to the port, once the  *)
(* hourly statements are through.                                           *)
LEMMA ReplacedStep == TypeOK /\ StagesKept /\ Replaced /\ [Next]_vars => Replaced'
<1> SUFFICES ASSUME TypeOK, StagesKept, Replaced, [Next]_vars, ~touched', ~torn', since' # Never, NEW h \in Hours
             PROVE  /\ ~half' \/ ~InWindow(h)' => hourly'[h] = portHourly'[h]
                    /\ stage' = "zero" /\ portHourly'[h] > 0 => hourly'[h] = portHourly'[h]
    BY DEF Replaced
<1> USE DEF rawVars, linkVars, sourceVars, cycleVars
<1>0. /\ ~torn /\ since = 0 /\ since' = since
      /\ ~half \/ ~InWindow(h) => hourly[h] = portHourly[h]
      /\ stage = "zero" /\ portHourly[h] > 0 => hourly[h] = portHourly[h]
      /\ Counted(h) <=> InWindow(h)
      /\ half \in BOOLEAN
    BY LinkKept, CountedIs DEF Replaced, TypeOK
<1>1. portHourly[h] \in Nat
    BY DEF TypeOK
<1>2. CASE RollPort
    BY <1>0, <1>2 DEF RollPort, InWindow
<1>3. CASE RollAgent
    BY <1>0, <1>3 DEF RollAgent, InWindow, StagesKept
<1>4. CASE Replace
    BY <1>0, <1>4 DEF Replace, InWindow, StagesKept
<1>5. CASE Zero
    BY <1>0, <1>1, <1>5 DEF Zero, InWindow
<1>6. CASE RollDaily
    BY <1>0, <1>6 DEF RollDaily, InWindow
<1>7. CASE NewHour
    BY <1>0, <1>7 DEF NewHour, StagesKept
<1>8. CASE Crash
    BY <1>0, <1>8 DEF Crash, InWindow
<1>9. ASSUME UNCHANGED <<hour, half, stage, hourly, portHourly>>
      PROVE  /\ ~half' \/ ~InWindow(h)' => hourly'[h] = portHourly'[h]
             /\ stage' = "zero" /\ portHourly'[h] > 0 => hourly'[h] = portHourly'[h]
    BY <1>0, <1>9 DEF InWindow
<1>10. CASE Meters
    BY <1>9, <1>10 DEF Meters, Traffic, Report, AnswerLost, Sample, StoreCounters, StoreDelta, ClearCounters
<1>11. CASE Link \/ BackfillWrite \/ UNCHANGED vars
    BY <1>9, <1>11 DEF Link, BackfillWrite, vars
<1>12. ASSUME NEW cut \in 0 .. MaxFlow, Purge(cut) PROVE UNCHANGED <<hour, half, stage, hourly, portHourly>>
    BY <1>12 DEF Purge
<1>13. ASSUME NEW d \in Days, NEW overwrite \in BOOLEAN, BackfillRead(d, overwrite)
       PROVE UNCHANGED <<hour, half, stage, hourly, portHourly>>
    BY <1>13 DEF BackfillRead
<1> QED BY <1>2, <1>3, <1>4, <1>5, <1>6, <1>7, <1>8, <1>9, <1>10, <1>11, <1>12, <1>13 DEF Next, Cycle, Meters

(* In the window the samples are all there.                                 *)
LEMMA WindowIsKept ==
    ASSUME TypeOK, RawKept, NEW h \in Hours, InWindow(h)
    PROVE  agentRaw[h] = agentSeen[h] /\ portRaw[h] = portSeen[h]
<1>1. ~Expired(h)
    BY ConstantsAre DEF InWindow, Expired, TypeOK, Hours
<1> QED BY <1>1 DEF RawKept

(* What has left the window was rolled up after its samples had come.       *)
LEMMA LeftIsRolled ==
    ASSUME TypeOK, ClockKept, NEW h \in Hours, h + Window < hour
    PROVE  h + 2 <= lastDone
BY ConstantsAre DEF ClockKept, TypeOK, Hours

(* The statement that rolls up the meter that counts.                       *)
RollsUp == (RollPort /\ since # Never) \/ (RollAgent /\ since = Never)

(* It brings the rows up to the samples, and takes nothing from them.       *)
LEMMA RollUpFollows ==
    ASSUME TypeOK, ClockKept, RawKept, StagesKept, RowsFollow, RollsUp,
           ~touched, ~torn, NEW h \in Hours
    PROVE  /\ Rows[h] <= Rows'[h] /\ Rows'[h] <= Seen[h]
           /\ h + 2 <= hour => Rows'[h] = Seen[h]
<1>1. Rows[h] <= Seen[h] /\ (Rolled(h) => Rows[h] = Seen[h])
    BY DEF RowsFollow
<1>2. Rows[h] \in Nat /\ Seen[h] \in Nat
    BY DEF Rows, Seen, TypeOK
<1>3. since' = since /\ hour \in Nat /\ h \in Nat
    BY DEF RollsUp, RollPort, RollAgent, linkVars, TypeOK, Hours
<1>4. CASE InWindow(h)
    <2>1. Rows'[h] = IF Seen[h] > 0 THEN Seen[h] ELSE Rows[h]
        BY <1>3, <1>4, WindowIsKept DEF RollsUp, RollPort, RollAgent, Rows, Seen
    <2> QED BY <1>1, <1>2, <2>1
<1>5. CASE ~InWindow(h)
    <2>1. Rows'[h] = Rows[h]
        BY <1>3, <1>5 DEF RollsUp, RollPort, RollAgent, Rows
    <2>2. h + 2 <= hour => Rolled(h)
        BY <1>3, <1>5, LeftIsRolled, ConstantsAre DEF InWindow, Rolled
    <2> QED BY <1>1, <1>2, <2>1, <2>2
<1> QED BY <1>4, <1>5

(* A sample of the meter that counts: its hour and its volume.              *)
Sampled(k, n) ==
    \/ (Report \/ AnswerLost) /\ since = Never /\ k = hour /\ n = unsent
    \/ StoreDelta /\ since # Never /\ k = poll.hour /\ n = poll.bytes

(* It comes to an hour that no roll-up has caught up with.                  *)
LEMMA SampleComes ==
    ASSUME TypeOK, TypeOK', ClockKept, NEW k, NEW n, Sampled(k, n)
    PROVE  /\ k \in Hours /\ n \in Nat /\ hour < k + 2
           /\ Seen'[k] = Seen[k] + n /\ \A h \in Hours : h # k => Seen'[h] = Seen[h]
           /\ UNCHANGED <<linkVars, portHourly, hourly, daily, cycleVars, hour>>
<1>1. CASE (Report \/ AnswerLost) /\ since = Never /\ k = hour /\ n = unsent
    <2>1. UNCHANGED <<linkVars, portHourly, hourly, daily, cycleVars, hour>>
        BY <1>1 DEF Report, AnswerLost, Sample
    <2>2. k \in Hours /\ n \in Nat /\ hour < k + 2
        BY <1>1 DEF TypeOK, Hours
    <2>3. agentSeen' = [agentSeen EXCEPT ![k] = @ + n] /\ agentSeen \in [Hours -> Nat]
        BY <1>1 DEF Report, AnswerLost, Sample, TypeOK
    <2>4. Seen = agentSeen /\ Seen' = agentSeen'
        BY <1>1, <2>1 DEF Seen, linkVars
    <2> QED BY <2>1, <2>2, <2>3, <2>4
<1>2. CASE StoreDelta /\ since # Never /\ k = poll.hour /\ n = poll.bytes
    <2>1. UNCHANGED <<linkVars, portHourly, hourly, daily, cycleVars, hour>>
        BY <1>2 DEF StoreDelta
    <2>2. k \in Hours /\ n \in Nat /\ hour < k + 2
        <3>1. k \in Hours /\ n \in Nat /\ hour \in Hours /\ hour <= k + 1
            BY <1>2 DEF StoreDelta, ClockKept, TypeOK
        <3>2. k \in Nat /\ hour \in Nat
            BY <3>1 DEF Hours
        <3> QED BY <3>1, <3>2
    <2>3. portSeen' = [portSeen EXCEPT ![k] = @ + n] /\ portSeen \in [Hours -> Nat]
        BY <1>2 DEF StoreDelta, TypeOK
    <2>4. Seen = portSeen /\ Seen' = portSeen'
        BY <1>2, <2>1 DEF Seen, linkVars
    <2> QED BY <2>1, <2>2, <2>3, <2>4
<1> QED BY <1>1, <1>2 DEF Sampled

(* Every other step leaves rows and samples alone.                          *)
LEMMA OthersLeave ==
    ASSUME TypeOK, StagesKept, [Next]_vars, ~touched', ~torn',
           ~RollsUp, \A k, n : ~Sampled(k, n)
    PROVE  UNCHANGED <<Rows, Seen>>
<1> USE DEF rawVars, linkVars, sourceVars, cycleVars
<1>0. since' = since /\ since \in {0, Never}
    BY LinkKept
<1>1. CASE Report \/ AnswerLost
    BY <1>0, <1>1 DEF Sampled, Report, AnswerLost, Sample, Rows, Seen
<1>2. CASE StoreDelta
    BY <1>0, <1>2 DEF Sampled, StoreDelta, Rows, Seen
<1>3. CASE RollPort \/ RollAgent
    BY <1>0, <1>3 DEF RollsUp, RollPort, RollAgent, Rows, Seen
<1>4. CASE Replace \/ Zero
    <2>1. since = Never => hourly' = hourly
        BY <1>4, CountedIs DEF Replace, Zero, TypeOK
    <2> QED BY <1>0, <1>4, <2>1 DEF Replace, Zero, Rows, Seen
<1>5. ASSUME UNCHANGED <<hourly, portHourly, agentSeen, portSeen>> PROVE UNCHANGED <<Rows, Seen>>
    BY <1>0, <1>5 DEF Rows, Seen
<1>6. CASE Traffic \/ StoreCounters \/ ClearCounters \/ RollDaily
    BY <1>5, <1>6 DEF Traffic, StoreCounters, ClearCounters, RollDaily
<1>7. CASE Link \/ BackfillWrite \/ NewHour \/ Crash \/ UNCHANGED vars
    BY <1>5, <1>7 DEF Link, BackfillWrite, NewHour, Crash, vars
<1>8. ASSUME NEW cut \in 0 .. MaxFlow, Purge(cut) PROVE UNCHANGED <<Rows, Seen>>
    BY <1>5, <1>8 DEF Purge
<1>9. ASSUME NEW d \in Days, NEW overwrite \in BOOLEAN, BackfillRead(d, overwrite)
      PROVE  UNCHANGED <<Rows, Seen>>
    BY <1>5, <1>9 DEF BackfillRead
<1> QED BY <1>1, <1>2, <1>3, <1>4, <1>6, <1>7, <1>8, <1>9 DEF Next, Cycle

(* An hour is rolled only by the statement that does it.                    *)
LEMMA RolledOnly ==
    ASSUME TypeOK, ClockKept, StagesKept, [Next]_vars, ~touched', ~torn', ~RollsUp,
           NEW h \in Hours, Rolled(h)'
    PROVE  Rolled(h)
<1> USE DEF Rolled, rawVars, linkVars, sourceVars, cycleVars
<1>0. since' = since
    BY LinkKept
<1>1. CASE RollPort \/ RollAgent
    BY <1>0, <1>1 DEF RollsUp, RollPort, RollAgent
<1>2. CASE Replace \/ Zero \/ RollDaily
    BY <1>0, <1>2 DEF Replace, Zero, RollDaily
<1>3. CASE Crash
    BY <1>0, <1>3 DEF Crash
<1>4. ASSUME UNCHANGED <<stage, began, lastDone>> PROVE Rolled(h)
    BY <1>0, <1>4
<1>5. CASE Meters
    BY <1>4, <1>5 DEF Meters, Traffic, Report, AnswerLost, Sample, StoreCounters, StoreDelta, ClearCounters
<1>6. CASE Link \/ BackfillWrite \/ NewHour \/ UNCHANGED vars
    BY <1>4, <1>6 DEF Link, BackfillWrite, NewHour, vars
<1>7. ASSUME NEW cut \in 0 .. MaxFlow, Purge(cut) PROVE Rolled(h)
    BY <1>4, <1>7 DEF Purge
<1>8. ASSUME NEW d \in Days, NEW overwrite \in BOOLEAN, BackfillRead(d, overwrite) PROVE Rolled(h)
    BY <1>4, <1>8 DEF BackfillRead
<1> QED BY <1>1, <1>2, <1>3, <1>5, <1>6, <1>7, <1>8 DEF Next, Cycle, Meters

(* An hour that was rolled has all its samples.                             *)
LEMMA RolledIsPast ==
    ASSUME TypeOK, ClockKept, NEW h \in Hours, Rolled(h)
    PROVE  h + 2 <= hour
BY DEF Rolled, ClockKept, TypeOK, Hours

(* Every step keeps the rows at or below the samples, and level with them   *)
(* once they are rolled.                                                    *)
LEMMA RowsStep ==
    ASSUME TypeOK, TypeOK', ClockKept, ClockKept', RawKept, StagesKept, RowsFollow, [Next]_vars
    PROVE  RowsFollow'
<1> SUFFICES ASSUME ~touched', ~torn', NEW h \in Hours
             PROVE  Rows'[h] <= Seen'[h] /\ (Rolled(h)' => Rows'[h] = Seen'[h])
    BY DEF RowsFollow
<1>0. ~touched /\ ~torn /\ since' = since
    BY LinkKept
<1>1. Rows[h] <= Seen[h] /\ (Rolled(h) => Rows[h] = Seen[h])
    BY <1>0 DEF RowsFollow
<1>2. Rows[h] \in Nat /\ Seen[h] \in Nat /\ hour \in Nat
    <2>1. Rows[h] \in Nat /\ Seen[h] \in Nat
        BY DEF Rows, Seen, TypeOK
    <2> QED BY <2>1 DEF TypeOK, Hours
<1>3. CASE RollsUp
    <2>1. Seen' = Seen /\ hour' = hour
        BY <1>0, <1>3 DEF RollsUp, RollPort, RollAgent, Seen, rawVars
    <2>2. Rolled(h)' => h + 2 <= hour
        <3>1. hour' \in Hours /\ began' \in Hours /\ lastDone' \in Hours
            BY DEF TypeOK
        <3>2. lastDone' <= began' /\ began' <= hour'
            BY DEF ClockKept
        <3>3. Rolled(h)' => h + 2 <= lastDone' \/ h + 2 <= began'
            BY DEF Rolled
        <3>4. h \in Nat /\ hour' \in Nat /\ began' \in Nat /\ lastDone' \in Nat
            BY <3>1 DEF Hours
        <3> QED BY <2>1, <3>2, <3>3, <3>4
    <2>3. Rows'[h] <= Seen[h] /\ (h + 2 <= hour => Rows'[h] = Seen[h])
        BY <1>0, <1>3, RollUpFollows
    <2> QED BY <2>1, <2>2, <2>3
<1>4. ASSUME NEW k, NEW n, Sampled(k, n)
      PROVE  Rows'[h] <= Seen'[h] /\ (Rolled(h)' => Rows'[h] = Seen'[h])
    <2>1. /\ k \in Hours /\ n \in Nat /\ hour < k + 2 /\ Rows' = Rows
          /\ Seen'[k] = Seen[k] + n /\ \A i \in Hours : i # k => Seen'[i] = Seen[i]
        BY <1>4, SampleComes DEF Rows, linkVars
    <2>2. ~RollsUp
        BY <1>4 DEF Sampled, RollsUp, Report, AnswerLost, Sample, StoreDelta, RollPort, RollAgent, cycleVars
    <2>3. Rolled(h)' => Rolled(h) /\ h # k
        <3>1. Rolled(h)' => Rolled(h)
            BY <2>2, RolledOnly
        <3>2. Rolled(h) => h + 2 <= hour
            BY RolledIsPast
        <3>3. k \in Nat
            BY <2>1 DEF Hours
        <3> QED BY <1>2, <2>1, <3>1, <3>2, <3>3
    <2>4. CASE h = k
        BY <1>1, <1>2, <2>1, <2>3, <2>4
    <2>5. CASE h # k
        BY <1>1, <2>1, <2>3, <2>5
    <2> QED BY <2>4, <2>5
<1>5. CASE ~RollsUp /\ \A k, n : ~Sampled(k, n)
    <2>1. Rows' = Rows /\ Seen' = Seen
        BY <1>5, OthersLeave
    <2> QED BY <1>1, <1>5, <2>1, RolledOnly
<1> QED BY <1>3, <1>4, <1>5

-----------------------------------------------------------------------------
(* What DaysFollow says of one day. *)
DayFollows(d) ==
    /\ daily[d].bytes <= SumFunctionOnSet(Rows, HoursOf(d))
    /\ (\A h \in HoursOf(d) : h + 2 <= lastDone) =>
           daily[d].bytes = SumFunctionOnSet(Seen, HoursOf(d))

(* The rows and the samples are numbers.                                    *)
LEMMA RowsType ==
    ASSUME TypeOK
    PROVE  Rows \in [Hours -> Nat] /\ Seen \in [Hours -> Nat]
BY DEF Rows, Seen, TypeOK

(* Rows that grow make the day grow.                                        *)
LEMMA DayGrows ==
    ASSUME NEW d, NEW f \in [Hours -> Nat], NEW g \in [Hours -> Nat],
           \A h \in HoursOf(d) : f[h] <= g[h]
    PROVE  SumFunctionOnSet(f, HoursOf(d)) <= SumFunctionOnSet(g, HoursOf(d))
<1>1. \A h \in HoursOf(d) : f[h] \in Nat /\ g[h] \in Nat /\ f[h] <= g[h]
    BY DEF HoursOf
<1> QED BY <1>1, FinitelyMany, SumMonotone

(* Equal rows make equal days.                                              *)
LEMMA DayEqual ==
    ASSUME NEW d, NEW f \in [Hours -> Nat], NEW g,
           \A h \in HoursOf(d) : f[h] = g[h]
    PROVE  SumFunctionOnSet(f, HoursOf(d)) = SumFunctionOnSet(g, HoursOf(d))
<1>1. \A h \in HoursOf(d) : f[h] \in Nat /\ f[h] = g[h]
    BY DEF HoursOf
<1> QED BY <1>1, FinitelyMany, SumEqual

(* When the days are made, the hourly rows are those of the meter that      *)
(* counts.                                                                  *)
LEMMA HourlyIsRows ==
    ASSUME TypeOK, StagesKept, Replaced, ~touched, ~torn, stage = "daily", NEW d
    PROVE  SumFunctionOnSet(hourly, HoursOf(d)) = SumFunctionOnSet(Rows, HoursOf(d))
<1>1. \A h \in HoursOf(d) : hourly[h] = Rows[h]
    BY DEF Rows, Replaced, StagesKept, HoursOf
<1>2. hourly \in [Hours -> Nat]
    BY DEF TypeOK
<1> QED BY <1>1, <1>2, DayEqual

(* The statement that makes the days makes them of the rows.                *)
LEMMA DailyFollows ==
    ASSUME TypeOK, ClockKept, StagesKept, Replaced, RowsFollow, DaysFollow, RollDaily,
           ~touched, ~torn, NEW d \in Days, daily'[d].source = "agent"
    PROVE  /\ daily'[d].bytes <= SumFunctionOnSet(Rows, HoursOf(d))
           /\ (\A h \in HoursOf(d) : h + 2 <= began) =>
                  daily'[d].bytes = SumFunctionOnSet(Seen, HoursOf(d))
<1>0. /\ Rows \in [Hours -> Nat] /\ Seen \in [Hours -> Nat]
      /\ SumFunctionOnSet(Rows, HoursOf(d)) \in Nat
    BY RowsType, DaySumIs
<1>1. CASE DayOf(hour) <= d + DaysBack
    <2>1. daily'[d] = DayRow(d)
        BY <1>1 DEF RollDaily
    <2>2. daily[d].source \in {"none", "agent", "manual"}
        BY DEF TypeOK
    <2>3. daily'[d].bytes = SumFunctionOnSet(hourly, HoursOf(d))
        BY <2>1, <2>2 DEF DayRow
    <2>4. daily'[d].bytes = SumFunctionOnSet(Rows, HoursOf(d))
        BY <2>3, HourlyIsRows DEF RollDaily
    <2>5. ASSUME \A h \in HoursOf(d) : h + 2 <= began
          PROVE  SumFunctionOnSet(Rows, HoursOf(d)) = SumFunctionOnSet(Seen, HoursOf(d))
        <3>1. \A h \in HoursOf(d) : h \in Hours /\ Rolled(h)
            BY <2>5 DEF Rolled, RollDaily, HoursOf
        <3>2. \A h \in HoursOf(d) : Rows[h] = Seen[h]
            BY <3>1 DEF RowsFollow
        <3> QED BY <1>0, <3>2, DayEqual
    <2> QED BY <1>0, <2>4, <2>5
<1>2. CASE ~ DayOf(hour) <= d + DaysBack
    <2>1. daily'[d] = daily[d]
        BY <1>2 DEF RollDaily
    <2>2. DayFollows(d)
        BY <2>1 DEF DaysFollow, DayFollows, Measured
    <2>3. \A h \in HoursOf(d) : h + Window < hour
        BY <1>2, DayPast DEF TypeOK
    <2>4. \A h \in HoursOf(d) : h + 2 <= lastDone
        BY <2>3, LeftIsRolled DEF HoursOf
    <2> QED BY <2>1, <2>2, <2>4 DEF DayFollows
<1> QED BY <1>1, <1>2

(* Only that statement and an entry by hand write the rows of the days.     *)
LEMMA DailyOnly ==
    ASSUME [Next]_vars, ~RollDaily
    PROVE  lastDone' = lastDone /\ (daily' = daily \/ BackfillWrite)
<1> USE DEF rawVars, linkVars, sourceVars, cycleVars
<1>1. CASE Meters
    BY <1>1 DEF Meters, Traffic, Report, AnswerLost, Sample, StoreCounters, StoreDelta, ClearCounters
<1>2. CASE RollPort \/ RollAgent \/ Replace \/ Zero
    BY <1>2 DEF RollPort, RollAgent, Replace, Zero
<1>3. CASE Link \/ BackfillWrite \/ NewHour \/ Crash \/ UNCHANGED vars
    BY <1>3 DEF Link, BackfillWrite, NewHour, Crash, vars
<1>4. ASSUME NEW cut \in 0 .. MaxFlow, Purge(cut) PROVE UNCHANGED <<daily, lastDone>>
    BY <1>4 DEF Purge
<1>5. ASSUME NEW d \in Days, NEW overwrite \in BOOLEAN, BackfillRead(d, overwrite)
      PROVE  UNCHANGED <<daily, lastDone>>
    BY <1>5 DEF BackfillRead
<1> QED BY <1>1, <1>2, <1>3, <1>4, <1>5 DEF Next, Cycle, Meters

(* A day that is measured after the step was measured before it, and its    *)
(* row is the same.                                                         *)
LEMMA MeasuredBefore ==
    ASSUME TypeOK, [Next]_vars, ~RollDaily, NEW d \in Days, daily'[d].source = "agent"
    PROVE  daily'[d] = daily[d]
<1>1. CASE daily' = daily
    BY <1>1
<1>2. CASE BackfillWrite
    BY <1>2 DEF BackfillWrite, TypeOK
<1> QED BY <1>1, <1>2, DailyOnly

(* Every step keeps the days at or below the rows, and level with the       *)
(* samples once all their hours are rolled.                                 *)
LEMMA DaysStep ==
    ASSUME TypeOK, TypeOK', ClockKept, RawKept, StagesKept, Replaced, RowsFollow,
           DaysFollow, [Next]_vars
    PROVE  DaysFollow'
<1> SUFFICES ASSUME ~touched', ~torn', NEW d \in Days, daily'[d].source = "agent"
             PROVE  /\ daily'[d].bytes <= SumFunctionOnSet(Rows', HoursOf(d))
                    /\ (\A h \in HoursOf(d) : h + 2 <= lastDone') =>
                           daily'[d].bytes = SumFunctionOnSet(Seen', HoursOf(d))
    BY DEF DaysFollow, Measured
<1>0. ~touched /\ ~torn /\ since' = since
    BY LinkKept
<1>1. /\ Rows \in [Hours -> Nat] /\ Seen \in [Hours -> Nat]
      /\ SumFunctionOnSet(Rows, HoursOf(d)) \in Nat
    BY RowsType, DaySumIs
<1>2. CASE RollDaily
    <2>1. Rows' = Rows /\ Seen' = Seen /\ lastDone' = began
        BY <1>0, <1>2 DEF RollDaily, Rows, Seen, rawVars
    <2> QED BY <1>0, <1>2, <2>1, DailyFollows
<1>3. CASE ~RollDaily
    <2>1. daily'[d] = daily[d] /\ lastDone' = lastDone
        BY <1>3, MeasuredBefore, DailyOnly
    <2>2. DayFollows(d)
        BY <1>0, <2>1 DEF DaysFollow, DayFollows, Measured
    <2>3. daily[d].bytes \in Nat
        BY DEF TypeOK
    <2>4. CASE RollsUp
        <3>1. Seen' = Seen
            BY <1>0, <2>4 DEF RollsUp, RollPort, RollAgent, Seen, rawVars
        <3>2. \A h \in HoursOf(d) : Rows[h] <= Rows'[h]
            BY <1>0, <2>4, RollUpFollows DEF HoursOf
        <3>3. Rows' \in [Hours -> Nat]
            BY DEF Rows, TypeOK
        <3>4. SumFunctionOnSet(Rows, HoursOf(d)) <= SumFunctionOnSet(Rows', HoursOf(d))
            BY <1>1, <3>2, <3>3, DayGrows
        <3>5. SumFunctionOnSet(Rows', HoursOf(d)) \in Nat
            BY <3>3, DaySumIs
        <3> QED BY <1>1, <2>1, <2>2, <2>3, <3>1, <3>4, <3>5 DEF DayFollows
    <2>5. ASSUME NEW k, NEW n, Sampled(k, n)
          PROVE  /\ daily'[d].bytes <= SumFunctionOnSet(Rows', HoursOf(d))
                 /\ (\A h \in HoursOf(d) : h + 2 <= lastDone') =>
                        daily'[d].bytes = SumFunctionOnSet(Seen', HoursOf(d))
        <3>1. /\ k \in Hours /\ n \in Nat /\ hour < k + 2 /\ Rows' = Rows
              /\ \A i \in Hours : i # k => Seen'[i] = Seen[i]
            BY <2>5, SampleComes DEF Rows, linkVars
        <3>2. ~ k + 2 <= lastDone
            <4>1. k \in Nat /\ hour \in Nat /\ began \in Nat /\ lastDone \in Nat
                BY <3>1 DEF TypeOK, Hours
            <4> QED BY <3>1, <4>1 DEF ClockKept
        <3>3. ASSUME \A h \in HoursOf(d) : h + 2 <= lastDone
              PROVE  SumFunctionOnSet(Seen, HoursOf(d)) = SumFunctionOnSet(Seen', HoursOf(d))
            <4>1. \A h \in HoursOf(d) : Seen[h] = Seen'[h]
                BY <3>1, <3>2, <3>3 DEF HoursOf
            <4> QED BY <1>1, <4>1, DayEqual
        <3> QED BY <2>1, <2>2, <3>1, <3>3 DEF DayFollows
    <2>6. CASE ~RollsUp /\ \A k, n : ~Sampled(k, n)
        <3>1. Rows' = Rows /\ Seen' = Seen
            BY <1>0, <2>6, OthersLeave
        <3> QED BY <2>1, <2>2, <3>1 DEF DayFollows
    <2> QED BY <2>4, <2>5, <2>6
<1> QED BY <1>2, <1>3

-----------------------------------------------------------------------------
(* A day without samples has the sum zero.                                  *)
LEMMA ZeroDay ==
    ASSUME NEW f, \A h \in Hours : f[h] = 0, NEW d
    PROVE  SumFunctionOnSet(f, HoursOf(d)) = 0
<1>1. \A h \in HoursOf(d) : f[h] = 0
    BY DEF HoursOf
<1> QED BY <1>1, FinitelyMany, SumZero

(* What is measured adds up to a number.                                    *)
LEMMA CountsIs ==
    ASSUME TypeOK
    PROVE  Counts \in Nat
<1> DEFINE M == Measured
           B == Bytes
<1>1. M \in SUBSET Days /\ IsFiniteSet(Days) /\ IsFiniteSet(M)
    BY FinitelyMany, FS_Subset DEF Measured
<1>2. \A d \in M : B[d] \in Nat
    BY DEF Measured, Bytes, TypeOK
<1>3. Counts = SumFunctionOnSet(B, M)
    BY DEF Counts
<1> HIDE DEF M, B
<1> QED BY <1>1, <1>2, <1>3, SumType

(* In the initial states there is nothing to sum up.                        *)
LEMMA NothingYet ==
    ASSUME Init
    PROVE  Total(agentSeen) = 0 /\ Total(portSeen) = 0
<1> DEFINE zero == [h \in Hours |-> 0]
<1>1. agentSeen = zero /\ portSeen = zero /\ zero \in [Hours -> Nat]
    BY DEF Init
<1>2. zero \in [Hours -> Nat] /\ \A h \in Hours : zero[h] = 0
    BY <1>1
<1> HIDE DEF zero
<1>3. \A d \in Days : SumFunctionOnSet(zero, HoursOf(d)) = 0
    BY <1>2, ZeroDay
<1>4. \A d \in Days : DaySums(zero)[d] = 0
    BY <1>3 DEF DaySums
<1>5. Total(zero) = 0
    BY <1>4, FinitelyMany, SumZero DEF Total
<1> QED BY <1>1, <1>5

(* So the invariant holds at first.                                         *)
LEMMA MInvInit == Init => MInv
<1> SUFFICES ASSUME Init PROVE MInv
    OBVIOUS
<1>1. TypeOK
    BY TypeInit
<1>2. ClockKept /\ RawKept /\ StagesKept
    BY ConstantsAre DEF Init, ClockKept, RawKept, StagesKept, NoPoll
<1>3. SeenIsFlow
    <2>1. Total(agentSeen) = 0 /\ Total(portSeen) = 0
        BY NothingYet
    <2>2. flow = 0 /\ resent = 0 /\ unsent = 0 /\ unread = 0 /\ poll.bytes = 0
        BY DEF Init, NoPoll
    <2> QED BY <2>1, <2>2 DEF SeenIsFlow
<1>4. Replaced /\ RowsFollow
    BY DEF Init, Replaced, RowsFollow, Rows, Seen
<1>5. DaysFollow
    BY DEF Init, DaysFollow, Measured, NoDay
<1> QED BY <1>1, <1>2, <1>3, <1>4, <1>5 DEF MInv

(* And every step keeps it.                                                 *)
LEMMA MInvStep == MInv /\ [Next]_vars => MInv'
<1> SUFFICES ASSUME MInv, [Next]_vars PROVE MInv'
    OBVIOUS
<1>0. TypeOK /\ ClockKept /\ RawKept /\ StagesKept /\ SeenIsFlow /\ Replaced /\ RowsFollow /\ DaysFollow
    BY DEF MInv
<1>1. TypeOK'
    BY <1>0, TypeStep
<1>2. ClockKept' /\ StagesKept' /\ RawKept' /\ Replaced'
    BY <1>0, ClockStep, StagesStep, RawStep, ReplacedStep
<1>3. SeenIsFlow'
    BY <1>0, <1>1, FlowStep
<1>4. RowsFollow'
    BY <1>0, <1>1, <1>2, RowsStep
<1>5. DaysFollow'
    BY <1>0, <1>1, DaysStep
<1> QED BY <1>1, <1>2, <1>3, <1>4, <1>5 DEF MInv

(* The inductive invariant holds in every reachable state.                  *)
THEOREM MeteringInvariance == Spec => []MInv
    BY MInvInit, MInvStep, PTL DEF Spec

-----------------------------------------------------------------------------
(* What is measured is no more than what the meter that counts has seen.    *)
LEMMA CountsAreSeen ==
    ASSUME MInv, ~touched, ~torn
    PROVE  Counts <= Total(Seen)
<1> DEFINE B == Bytes
           G == DaySums(Seen)
           M == Measured
<1>0. TypeOK /\ RowsFollow /\ DaysFollow
    BY DEF MInv
<1>1. Rows \in [Hours -> Nat] /\ Seen \in [Hours -> Nat]
    BY <1>0, RowsType
<1>2. ASSUME NEW d \in M
      PROVE  B[d] \in Nat /\ G[d] \in Nat /\ B[d] <= G[d]
    <2>1. d \in Days /\ B[d] = daily[d].bytes /\ daily[d].bytes \in Nat
        BY <1>0, <1>2 DEF Bytes, Measured, TypeOK
    <2>2. B[d] <= SumFunctionOnSet(Rows, HoursOf(d))
        BY <1>0, <1>2, <2>1 DEF DaysFollow
    <2>3. \A h \in HoursOf(d) : Rows[h] <= Seen[h]
        BY <1>0 DEF RowsFollow, HoursOf
    <2>4. SumFunctionOnSet(Rows, HoursOf(d)) <= SumFunctionOnSet(Seen, HoursOf(d))
        BY <1>1, <2>3, DayGrows
    <2>5. /\ SumFunctionOnSet(Rows, HoursOf(d)) \in Nat
          /\ SumFunctionOnSet(Seen, HoursOf(d)) \in Nat
        BY <1>1, DaySumIs
    <2>6. G[d] = SumFunctionOnSet(Seen, HoursOf(d))
        BY <2>1 DEF DaySums
    <2> QED BY <2>1, <2>2, <2>4, <2>5, <2>6
<1>3. M \in SUBSET Days /\ IsFiniteSet(Days) /\ IsFiniteSet(M)
    BY FinitelyMany, FS_Subset DEF Measured
<1>4. \A d \in Days : G[d] \in Nat
    BY <1>1, TotalIs
<1>5. Counts = SumFunctionOnSet(B, M) /\ Total(Seen) = SumFunctionOnSet(G, Days)
    BY DEF Counts, Total
<1> HIDE DEF B, G, M
<1>6. SumFunctionOnSet(B, M) <= SumFunctionOnSet(G, M)
    BY <1>2, <1>3, SumMonotone
<1>7. SumFunctionOnSet(G, M) <= SumFunctionOnSet(G, Days)
    BY <1>3, <1>4, SumPart
<1>8. /\ SumFunctionOnSet(B, M) \in Nat /\ SumFunctionOnSet(G, M) \in Nat
      /\ SumFunctionOnSet(G, Days) \in Nat
    BY <1>2, <1>3, <1>4, SumType
<1> QED BY <1>5, <1>6, <1>7, <1>8

(* Two meters, and still nothing is counted twice.                          *)
LEMMA TwiceNever == MInv => NothingTwice
<1> SUFFICES ASSUME MInv, ~touched, ~torn
             PROVE  Counts <= flow + IF since = Never THEN resent ELSE 0
    BY DEF NothingTwice
<1>1. TypeOK /\ SeenIsFlow
    BY DEF MInv
<1>2. Counts <= Total(Seen)
    BY CountsAreSeen
<1>3. Counts \in Nat
    BY <1>1, CountsIs
<1>4. Total(agentSeen) \in Nat /\ Total(portSeen) \in Nat
    BY <1>1, TotalIs DEF TypeOK
<1>5. flow \in Nat /\ resent \in Nat /\ unsent \in Nat /\ unread \in Nat /\ poll.bytes \in Nat
    BY <1>1, ConstantsAre DEF TypeOK
<1>6. CASE since = Never
    <2>1. Counts <= Total(agentSeen)
        BY <1>2, <1>6 DEF Seen
    <2> QED BY <1>1, <1>3, <1>4, <1>5, <1>6, <2>1 DEF SeenIsFlow
<1>7. CASE since # Never
    <2>1. Counts <= Total(portSeen)
        BY <1>2, <1>7 DEF Seen
    <2> QED BY <1>1, <1>3, <1>4, <1>5, <1>7, <2>1 DEF SeenIsFlow
<1> QED BY <1>6, <1>7

(* A day that has left the window is complete.                              *)
LEMMA LostNever == MInv => NothingLost
<1> SUFFICES ASSUME MInv, ~touched, ~torn, NEW d \in Measured,
                    \A h \in HoursOf(d) : h + Window < hour
             PROVE  daily[d].bytes = SumFunctionOnSet(Seen, HoursOf(d))
    BY DEF NothingLost
<1>1. TypeOK /\ ClockKept /\ DaysFollow
    BY DEF MInv
<1>2. \A h \in HoursOf(d) : h + 2 <= lastDone
    BY <1>1, LeftIsRolled DEF HoursOf
<1> QED BY <1>1, <1>2 DEF DaysFollow

(* What the two meters saw is counted once, whatever the order of samples,  *)
(* statements, purges, restarts and entries by hand.                        *)
THEOREM CountedOnceHolds == Spec => []CountedOnce
<1>1. MInv => CountedOnce
    BY TwiceNever, LostNever DEF CountedOnce, MInv
<1> QED BY <1>1, MeteringInvariance, PTL

-----------------------------------------------------------------------------
(* What UsageNeverFalls says of one step. *)
UsageKept ==
    \A d \in Measured : ~touched' /\ ~torn' /\ daily'[d].source = "agent" =>
        daily[d].bytes <= daily'[d].bytes

(* A day is only made anew of rows that have not shrunk.                    *)
LEMMA UsageStep == MInv /\ [Next]_vars => UsageKept
<1> SUFFICES ASSUME MInv, [Next]_vars, NEW d \in Measured, ~touched', ~torn',
                    daily'[d].source = "agent"
             PROVE  daily[d].bytes <= daily'[d].bytes
    BY DEF UsageKept
<1>0. TypeOK /\ StagesKept /\ Replaced /\ DaysFollow /\ d \in Days
    BY DEF MInv, Measured
<1>1. ~touched /\ ~torn
    BY <1>0, LinkKept
<1>2. daily[d].bytes \in Nat
    BY <1>0 DEF TypeOK
<1>3. CASE ~RollDaily
    BY <1>0, <1>2, <1>3, MeasuredBefore
<1>4. CASE RollDaily /\ ~ DayOf(hour) <= d + DaysBack
    BY <1>0, <1>2, <1>4 DEF RollDaily
<1>5. CASE RollDaily /\ DayOf(hour) <= d + DaysBack
    <2>1. daily'[d].bytes = SumFunctionOnSet(hourly, HoursOf(d))
        BY <1>0, <1>5 DEF RollDaily, DayRow, Measured
    <2>2. daily'[d].bytes = SumFunctionOnSet(Rows, HoursOf(d))
        BY <1>0, <1>1, <1>5, <2>1, HourlyIsRows DEF RollDaily
    <2> QED BY <1>0, <1>1, <2>2 DEF DaysFollow
<1> QED BY <1>3, <1>4, <1>5

(* What the customer has seen as used is not taken back.                    *)
THEOREM UsageIsSafe == Spec => UsageNeverFalls
<1>1. MInv /\ [Next]_vars => [UsageKept]_vars
    BY UsageStep
<1> QED
    BY <1>1, MeteringInvariance, PTL DEF Spec, UsageNeverFalls, UsageKept
-----------------------------------------------------------------------------
(* The bill of a month: it has days, rates and rows of its own.            *)

CONSTANTS MonthDays, DatacenterRates, ServerRates, NoRate, DayTraffic, RangeTotals, MaxRanges
VARIABLES billday, rates, usage, range, ranges

M == INSTANCE Billing WITH today <- billday, form <- range, Days <- MonthDays, Datacenters <- DatacenterRates,
        Overrides <- ServerRates, None <- NoRate, Traffic <- DayTraffic, Totals <- RangeTotals

(* The rates that are amounts.  That none is negative is checked when a    *)
(* datacenter or a server is edited, not when it is added.                 *)
MoneyAndQuota == {"price_per_tb", "included_tb", "price_per_ip", "included_ips", "rent", "ips"}
NoneNegative ==
    \A dc \in DatacenterRates, server \in ServerRates, f \in MoneyAndQuota : M!EffectiveRates(server, dc)[f] \in Nat

(* Every variable of the bill has the right type; days to come have no     *)
(* traffic.                                                                *)
Sources == {"none", "agent", "manual_range"}
BillTyped ==
    /\ billday \in M!Month
    /\ rates \in [datacenter : DatacenterRates, server : ServerRates]
    /\ usage \in [M!Month -> [rx : Nat, tx : Nat, source : Sources]]
    /\ range \in [left : SUBSET M!Month, targets : SUBSET M!Month, total : RangeTotals \cup {M!Idle.total}]
    /\ \A d \in M!Month : d > billday => usage[d].rx = 0 /\ usage[d].tx = 0

(* The days of a range that are stored have their part of the total.       *)
RangeStored ==
    /\ range.left \subseteq range.targets
    /\ \A d \in range.targets : d <= billday
    /\ range = M!Idle \/ range.targets # {}
    /\ \A d \in range.targets \ range.left :
          usage[d] = [rx |-> M!Split(range.total.rx, range.targets, d),
                      tx |-> M!Split(range.total.tx, range.targets, d), source |-> "manual_range"]

BillInv == BillTyped /\ RangeStored
-----------------------------------------------------------------------------
(* More about sums: of equal values, of two functions, of a multiple, and  *)
(* over the days up to some day.                                           *)

(* Products of natural numbers.                                            *)
LEMMA Products ==
    ASSUME NEW a \in Nat, NEW b \in Nat, NEW c \in Nat
    PROVE  /\ a * b \in Nat /\ (a + b) * c = a * c + b * c
           /\ a <= b => a * c <= b * c
<1>1. a * b \in Nat /\ a * c \in Nat /\ b * c \in Nat /\ (a + b) * c = a * c + b * c
    OBVIOUS
<1>2. ASSUME a <= b PROVE a * c <= b * c
    <2> DEFINE x == b - a
    <2>1. x \in Nat /\ b = a + x
        BY <1>2
    <2>2. (a + x) * c = a * c + x * c /\ x * c \in Nat
        BY <2>1
    <2> HIDE DEF x
    <2> QED BY <1>1, <2>1, <2>2
<1> QED BY <1>1, <1>2

(* A sum of equal numbers.                                                 *)
LEMMA SumConstant ==
    ASSUME NEW S, IsFiniteSet(S), NEW n \in Nat, NEW f, \A x \in S : f[x] = n
    PROVE  SumFunctionOnSet(f, S) = Cardinality(S) * n
<1> DEFINE G == {T \in SUBSET S : SumFunctionOnSet(f, T) = Cardinality(T) * n}
<1>1. ASSUME NEW T \in SUBSET S, \A U \in SUBSET T : U # T => U \in G PROVE T \in G
    <2>1. CASE T = {}
        BY <2>1, SumEmpty, FS_EmptySet
    <2>2. CASE T # {}
        <3> DEFINE R == T \ {Pick(T)}
        <3>1. IsFiniteSet(T)
            BY FS_Subset
        <3>2. Pick(T) \in T /\ Cardinality(T) \in Nat /\ IsFiniteSet(R) /\ Cardinality(R) = Cardinality(T) - 1
            BY <2>2, <3>1, PickIs
        <3>3. Cardinality(R) \in Nat
            BY <3>2, FS_CardinalityType
        <3>4. SumFunctionOnSet(f, R) = Cardinality(R) * n
            BY <1>1, <3>2
        <3>5. SumFunctionOnSet(f, T) = n + SumFunctionOnSet(f, R)
            BY <2>2, <3>1, <3>2, SumFirst
        <3>6. (Cardinality(R) + 1) * n = Cardinality(R) * n + 1 * n /\ Cardinality(R) * n \in Nat
            BY <3>3, Products
        <3>7. Cardinality(R) + 1 = Cardinality(T)
            BY <3>2, <3>3
        <3> QED BY <3>4, <3>5, <3>6, <3>7
    <2> QED BY <2>1, <2>2
<1>2. \A T \in SUBSET S : T \in G
    <2> HIDE DEF G
    <2> QED BY <1>1, Induction
<1> QED BY <1>2

(* A sum of sums.                                                          *)
LEMMA SumTwo ==
    ASSUME NEW S, IsFiniteSet(S), NEW f, NEW g, NEW h,
           \A x \in S : f[x] \in Nat /\ g[x] \in Nat /\ h[x] = f[x] + g[x]
    PROVE  SumFunctionOnSet(h, S) = SumFunctionOnSet(f, S) + SumFunctionOnSet(g, S)
<1> DEFINE G == {T \in SUBSET S : SumFunctionOnSet(h, T) = SumFunctionOnSet(f, T) + SumFunctionOnSet(g, T)}
<1>1. ASSUME NEW T \in SUBSET S, \A U \in SUBSET T : U # T => U \in G PROVE T \in G
    <2>1. CASE T = {}
        <3>1. SumFunctionOnSet(h, {}) = 0 /\ SumFunctionOnSet(f, {}) = 0 /\ SumFunctionOnSet(g, {}) = 0
            BY SumEmpty
        <3> QED BY <2>1, <3>1
    <2>2. CASE T # {}
        <3> DEFINE p == Pick(T)
                   R == T \ {p}
        <3>1. IsFiniteSet(T)
            BY FS_Subset
        <3>2. p \in T /\ IsFiniteSet(R)
            BY <2>2, <3>1, PickIs
        <3>3. SumFunctionOnSet(h, R) = SumFunctionOnSet(f, R) + SumFunctionOnSet(g, R)
            BY <1>1, <3>2
        <3>4. /\ SumFunctionOnSet(h, T) = h[p] + SumFunctionOnSet(h, R)
              /\ SumFunctionOnSet(f, T) = f[p] + SumFunctionOnSet(f, R)
              /\ SumFunctionOnSet(g, T) = g[p] + SumFunctionOnSet(g, R)
            BY <2>2, <3>1, SumFirst
        <3>5. SumFunctionOnSet(f, R) \in Nat /\ SumFunctionOnSet(g, R) \in Nat
            BY <3>2, SumType
        <3>6. f[p] \in Nat /\ g[p] \in Nat /\ h[p] = f[p] + g[p]
            BY <3>2
        <3> HIDE DEF p, R
        <3>7. SumFunctionOnSet(h, T) = SumFunctionOnSet(f, T) + SumFunctionOnSet(g, T)
            BY <3>3, <3>4, <3>5, <3>6
        <3> QED BY <3>7
    <2> QED BY <2>1, <2>2
<1>2. \A T \in SUBSET S : T \in G
    <2> HIDE DEF G
    <2> QED BY <1>1, Induction
<1> QED BY <1>2

(* A sum of multiples.                                                     *)
LEMMA SumScaled ==
    ASSUME NEW S, IsFiniteSet(S), NEW n \in Nat, NEW f, NEW g, \A x \in S : f[x] \in Nat /\ g[x] = f[x] * n
    PROVE  SumFunctionOnSet(g, S) = SumFunctionOnSet(f, S) * n
<1> DEFINE G == {T \in SUBSET S : SumFunctionOnSet(g, T) = SumFunctionOnSet(f, T) * n}
<1>1. ASSUME NEW T \in SUBSET S, \A U \in SUBSET T : U # T => U \in G PROVE T \in G
    <2>1. CASE T = {}
        <3>1. SumFunctionOnSet(g, {}) = 0 /\ SumFunctionOnSet(f, {}) = 0
            BY SumEmpty
        <3> QED BY <2>1, <3>1
    <2>2. CASE T # {}
        <3> DEFINE p == Pick(T)
                   R == T \ {p}
        <3>1. IsFiniteSet(T)
            BY FS_Subset
        <3>2. p \in T /\ IsFiniteSet(R)
            BY <2>2, <3>1, PickIs
        <3>3. SumFunctionOnSet(g, R) = SumFunctionOnSet(f, R) * n
            BY <1>1, <3>2
        <3>4. /\ SumFunctionOnSet(f, T) = f[p] + SumFunctionOnSet(f, R)
              /\ SumFunctionOnSet(g, T) = g[p] + SumFunctionOnSet(g, R)
            BY <2>2, <3>1, SumFirst
        <3>5. SumFunctionOnSet(f, R) \in Nat
            BY <3>2, SumType
        <3>6. f[p] \in Nat /\ g[p] = f[p] * n
            BY <3>2
        <3>7. (f[p] + SumFunctionOnSet(f, R)) * n = f[p] * n + SumFunctionOnSet(f, R) * n
            BY <3>5, <3>6, Products
        <3> HIDE DEF p, R
        <3>8. SumFunctionOnSet(g, T) = SumFunctionOnSet(f, T) * n
            BY <3>3, <3>4, <3>6, <3>7
        <3> QED BY <3>8
    <2> QED BY <2>1, <2>2
<1>2. \A T \in SUBSET S : T \in G
    <2> HIDE DEF G
    <2> QED BY <1>1, Induction
<1> QED BY <1>2

(* The sum up to a day is that up to the day before and its own.           *)
LEMMA SumNext ==
    ASSUME NEW n \in Nat, NEW f, \A x \in 1 .. n + 1 : f[x] \in Nat
    PROVE  /\ SumFunctionOnSet(f, 1 .. n) \in Nat
           /\ SumFunctionOnSet(f, 1 .. n + 1) = SumFunctionOnSet(f, 1 .. n) + f[n + 1]
<1>1. IsFiniteSet(1 .. n) /\ IsFiniteSet(1 .. n + 1) /\ (1 .. n + 1) \ {n + 1} = 1 .. n
    BY FS_Interval
<1>2. SumFunctionOnSet(f, 1 .. n) \in Nat
    BY <1>1, SumType
<1>3. SumFunctionOnSet(f, 1 .. n + 1) = f[n + 1] + SumFunctionOnSet(f, (1 .. n + 1) \ {n + 1})
    BY <1>1, SumAny
<1>4. f[n + 1] \in Nat
    OBVIOUS
<1>5. SumFunctionOnSet(f, 1 .. n + 1) = f[n + 1] + SumFunctionOnSet(f, 1 .. n)
    BY ONLY <1>1, <1>3, Zenon
<1> DEFINE s == SumFunctionOnSet(f, 1 .. n)
           t == SumFunctionOnSet(f, 1 .. n + 1)
           l == f[n + 1]
<1>6. s \in Nat /\ l \in Nat /\ t = l + s
    BY <1>2, <1>4, <1>5
<1> HIDE DEF s, t, l
<1>7. s \in Nat /\ t = s + l
    BY <1>6
<1> QED BY <1>7 DEF s, t, l

(* Days without traffic add nothing.                                       *)
LEMMA SumBeyond ==
    ASSUME NEW m \in Nat, NEW k \in Nat, k <= m, NEW f, \A x \in 1 .. m : f[x] \in Nat,
           \A x \in 1 .. m : x > k => f[x] = 0
    PROVE  SumFunctionOnSet(f, 1 .. m) = SumFunctionOnSet(f, 1 .. k)
<1> DEFINE B == {n \in Nat : k <= n /\ n <= m /\ SumFunctionOnSet(f, 1 .. n) # SumFunctionOnSet(f, 1 .. k)}
<1> SUFFICES ASSUME B # {} PROVE FALSE
    OBVIOUS
<1>1. PICK n \in B : \A i \in B : n <= i
    <2> B \subseteq Nat
        OBVIOUS
    <2> HIDE DEF B
    <2> QED BY Least
<1>2. n \in Nat /\ k < n /\ n <= m
    BY <1>1
<1> DEFINE i == n - 1
<1>3. i \in Nat /\ n = i + 1 /\ i \notin B /\ k <= i /\ i <= m
    BY <1>1, <1>2
<1>4. SumFunctionOnSet(f, 1 .. i) = SumFunctionOnSet(f, 1 .. k)
    BY <1>3
<1> HIDE DEF i
<1>5. \A x \in 1 .. i + 1 : f[x] \in Nat
    BY <1>2, <1>3
<1>6. SumFunctionOnSet(f, 1 .. i) \in Nat /\ SumFunctionOnSet(f, 1 .. i + 1) = SumFunctionOnSet(f, 1 .. i) + f[i + 1]
    BY <1>3, <1>5, SumNext
<1>7. f[i + 1] = 0
    BY <1>2, <1>3
<1> QED BY <1>1, <1>3, <1>4, <1>6, <1>7

-----------------------------------------------------------------------------
(* The arithmetic of the month.                                            *)

(* A number of equal shares comes to the whole again.                      *)
LEMMA SharesAddUp ==
    ASSUME NEW n \in Nat \ {0}, NEW c \in Nat
    PROVE  (n * c) \div n = c
<1> DEFINE q == (n * c) \div n
           r == (n * c) % n
<1>1. n * c \in Nat /\ n \in Nat /\ n > 0
    OBVIOUS
<1>2. q \in Nat /\ r \in Nat /\ r < n /\ n * c = n * q + r
    BY <1>1
<1> HIDE DEF q, r
<1>3. CASE q < c
    <2> DEFINE x == c - q
    <2>1. x \in Nat /\ x >= 1 /\ c = q + x
        BY <1>2, <1>3
    <2>2. n * (q + x) = n * q + n * x /\ n * x \in Nat /\ n * q \in Nat
        BY <1>1, <1>2, <2>1
    <2>3. 1 * n <= x * n /\ x * n = n * x
        BY <1>1, <2>1, Products
    <2> HIDE DEF x
    <2> QED BY <1>1, <1>2, <2>1, <2>2, <2>3
<1>4. CASE c < q
    <2> DEFINE x == q - c
    <2>1. x \in Nat /\ x >= 1 /\ q = c + x
        BY <1>2, <1>4
    <2>2. n * (c + x) = n * c + n * x /\ n * x \in Nat /\ n * c \in Nat
        BY <1>1, <1>2, <2>1
    <2>3. 1 * n <= x * n /\ x * n = n * x
        BY <1>1, <2>1, Products
    <2> HIDE DEF x
    <2> QED BY <1>1, <1>2, <2>1, <2>2, <2>3
<1>5. CASE q = c
    BY <1>5 DEF q
<1> QED BY <1>2, <1>3, <1>4, <1>5

(* The bill adds up as everyone does.                                      *)
LEMMA SameSum == ASSUME NEW f PROVE M!Total(f) = SumFunctionOnSet(f, DOMAIN f)
BY Zenon DEF M!Total, M!FoldFunction, M!FoldFunctionOnSet, M!MapThenFoldSet,
             SumFunctionOnSet, FoldFunctionOnSet, MapThenFoldSet

(* The bill counts as everyone does.                                       *)
LEMMA SameSize == ASSUME NEW S PROVE M!Cardinality(S) = Cardinality(S)
BY DEF M!Cardinality, Cardinality

(* The parts of a range come to its total.                                 *)
LEMMA PartsAddUp ==
    ASSUME NEW T \in SUBSET Nat, IsFiniteSet(T), T # {}, NEW total \in Nat, NEW part,
           \A d \in T : part[d] = M!Split(total, T, d)
    PROVE  SumFunctionOnSet(part, T) = total
<1> DEFINE size == Cardinality(T)
           q == total \div size
           rest == total % size
<1>1. size \in Nat /\ size > 0
    BY FS_CardinalityType, FS_EmptySet
<1>2. q \in Nat /\ rest \in Nat /\ size * q + rest = total
    BY <1>1
<1>3. PICK last \in T : \A e \in T : e <= last
    <2> DEFINE G == {U \in SUBSET T : U # {} => \E l \in U : \A e \in U : e <= l}
    <2>1. ASSUME NEW U \in SUBSET T, \A V \in SUBSET U : V # U => V \in G PROVE U \in G
        <3> SUFFICES ASSUME U # {} PROVE \E l \in U : \A e \in U : e <= l
            OBVIOUS
        <3>1. PICK x \in U : TRUE
            OBVIOUS
        <3>2. CASE U = {x}
            BY <3>2
        <3>3. CASE U # {x}
            <4>1. U \ {x} \in G /\ U \ {x} # {}
                BY <2>1, <3>1, <3>3
            <4>2. PICK l \in U \ {x} : \A e \in U \ {x} : e <= l
                BY <4>1
            <4>3. CASE x <= l
                BY <4>2, <4>3
            <4>4. CASE ~ x <= l
                <5>1. \A e \in U : e <= x
                    BY <4>2, <4>4
                <5> QED BY <3>1, <5>1
            <4> QED BY <4>3, <4>4
        <3> QED BY <3>2, <3>3
    <2>2. \A U \in SUBSET T : U \in G
        <3> HIDE DEF G
        <3> QED BY <2>1, Induction
    <2> QED BY <2>2
<1> HIDE DEF size, q, rest
<1>4. \A d \in T : (\A e \in T : e <= d) <=> d = last
    BY <1>3
<1>5. \A d \in T : part[d] = IF d = last THEN q + rest ELSE q
    <2> SUFFICES ASSUME NEW d \in T PROVE part[d] = IF d = last THEN q + rest ELSE q
        OBVIOUS
    <2>1. part[d] = q + (IF \A e \in T : e <= d THEN rest ELSE 0)
        <3>1. part[d] = M!Split(total, T, d)
            OBVIOUS
        <3>2. M!Split(total, T, d) = q + (IF \A e \in T : e <= d THEN rest ELSE 0)
            BY SameSize DEF M!Split, size, q, rest
        <3> QED BY ONLY <3>1, <3>2, Zenon
    <2>2. CASE d = last
        <3>1. \A e \in T : e <= d
            BY <1>4, <2>2
        <3>2. part[d] = q + rest
            BY ONLY <2>1, <3>1, Zenon
        <3> QED BY <2>2, <3>2
    <2>3. CASE d # last
        <3>1. ~ \A e \in T : e <= d
            BY <1>4, <2>3
        <3>2. part[d] = q + 0
            BY ONLY <2>1, <3>1, Zenon
        <3> QED BY <1>2, <2>3, <3>2
    <2> QED BY <2>2, <2>3
<1> DEFINE R == T \ {last}
<1>6. IsFiniteSet(R) /\ Cardinality(R) = size - 1 /\ size - 1 \in Nat
    BY <1>1, FS_RemoveElement DEF size
<1>7. SumFunctionOnSet(part, R) = (size - 1) * q
    <2>1. \A d \in R : part[d] = q
        BY <1>5
    <2> HIDE DEF R
    <2> QED BY <1>2, <1>6, <2>1, SumConstant
<1>8. SumFunctionOnSet(part, T) = part[last] + SumFunctionOnSet(part, R)
    <2>1. \A d \in T : part[d] \in Nat
        BY <1>2, <1>5
    <2> QED BY <2>1, SumAny
<1>9. part[last] = q + rest
    BY <1>5
<1>10. ((size - 1) + 1) * q = (size - 1) * q + 1 * q /\ (size - 1) * q \in Nat /\ (size - 1) + 1 = size
    BY <1>1, <1>2, <1>6, Products
<1>11. 1 * q = q /\ size * q = (size - 1) * q + q
    BY <1>2, <1>10
<1> HIDE DEF R
<1> QED BY <1>2, <1>7, <1>8, <1>9, <1>10, <1>11

(* What is beyond the quota in the days up to one is what is beyond it in  *)
(* their sum.                                                              *)
LEMMA DaysBeyond ==
    ASSUME NEW m \in Nat, NEW quota \in Nat, NEW b, NEW over,
           \A d \in 1 .. m : b[d] \in Nat,
           \A d \in 1 .. m : over[d] = M!OverBytes(SumFunctionOnSet(b, 1 .. d - 1), b[d], quota)
    PROVE  /\ \A d \in 1 .. m : over[d] \in Nat
           /\ SumFunctionOnSet(over, 1 .. m) = M!Excess(SumFunctionOnSet(b, 1 .. m), quota)
<1>1. \A d \in 1 .. m : SumFunctionOnSet(b, 1 .. d - 1) \in Nat
    <2> SUFFICES ASSUME NEW d \in 1 .. m PROVE SumFunctionOnSet(b, 1 .. d - 1) \in Nat
        OBVIOUS
    <2>1. IsFiniteSet(1 .. d - 1) /\ \A e \in 1 .. d - 1 : b[e] \in Nat
        BY FS_Interval
    <2> QED BY <2>1, SumType
<1>2. \A d \in 1 .. m : over[d] \in Nat
    <2> SUFFICES ASSUME NEW d \in 1 .. m PROVE over[d] \in Nat
        OBVIOUS
    <2> DEFINE s == SumFunctionOnSet(b, 1 .. d - 1)
    <2>1. s \in Nat /\ b[d] \in Nat /\ over[d] = M!OverBytes(s, b[d], quota)
        BY <1>1
    <2> HIDE DEF s
    <2> QED BY <2>1 DEF M!OverBytes
<1> DEFINE B == {n \in Nat : n <= m /\ SumFunctionOnSet(over, 1 .. n) # M!Excess(SumFunctionOnSet(b, 1 .. n), quota)}
<1>3. ASSUME B # {} PROVE FALSE
    <2>1. PICK n \in B : \A i \in B : n <= i
        <3> B \subseteq Nat
            OBVIOUS
        <3> HIDE DEF B
        <3> QED BY <1>3, Least
    <2>2. CASE n = 0
        <3>1. 1 .. n = {}
            BY <2>2
        <3>2. SumFunctionOnSet(over, 1 .. n) = 0 /\ SumFunctionOnSet(b, 1 .. n) = 0
            BY <3>1, SumEmpty
        <3> QED BY <2>1, <3>2 DEF M!Excess
    <2>3. CASE n # 0
        <3> DEFINE i == n - 1
        <3>1. i \in Nat /\ n = i + 1 /\ i \notin B /\ n <= m /\ n \in 1 .. m
            BY <2>1, <2>3
        <3>2. SumFunctionOnSet(over, 1 .. i) = M!Excess(SumFunctionOnSet(b, 1 .. i), quota)
            BY <3>1
        <3>3. over[n] = M!OverBytes(SumFunctionOnSet(b, 1 .. i), b[n], quota) /\ b[n] \in Nat /\ over[n] \in Nat
            BY <1>2, <3>1
        <3> HIDE DEF i
        <3>4. \A d \in 1 .. i + 1 : b[d] \in Nat /\ over[d] \in Nat
            BY <1>2, <3>1
        <3>5. /\ SumFunctionOnSet(b, 1 .. i) \in Nat /\ SumFunctionOnSet(b, 1 .. i + 1) = SumFunctionOnSet(b, 1 .. i) + b[i + 1]
              /\ SumFunctionOnSet(over, 1 .. i + 1) = SumFunctionOnSet(over, 1 .. i) + over[i + 1]
            BY <3>1, <3>4, SumNext
        <3> DEFINE s == SumFunctionOnSet(b, 1 .. i)
                   t == SumFunctionOnSet(b, 1 .. n)
                   u == SumFunctionOnSet(over, 1 .. n)
        <3>6. u = M!Excess(s, quota) + M!OverBytes(s, b[n], quota) /\ t = s + b[n] /\ s \in Nat
            BY <3>1, <3>2, <3>3, <3>5
        <3>7. u # M!Excess(t, quota)
            BY <2>1
        <3> HIDE DEF s, t, u
        <3> QED BY <3>3, <3>6, <3>7 DEF M!Excess, M!OverBytes
    <2> QED BY <2>2, <2>3
<1>4. m \notin B
    BY <1>3
<1> QED BY <1>2, <1>4
-----------------------------------------------------------------------------
(* The invariant implies that the bill adds up.                            *)

(* The days of the month are finitely many; so are those that have come.   *)
LEMMA MonthIs ==
    ASSUME M!BillingAssumption, BillTyped
    PROVE  /\ M!Month = 1 .. MonthDays /\ MonthDays \in Nat \ {0} /\ billday \in Nat \ {0} /\ billday <= MonthDays
           /\ IsFiniteSet(M!Month) /\ IsFiniteSet(1 .. billday) /\ 1 .. billday \subseteq M!Month
<1>1. M!Month = 1 .. MonthDays /\ MonthDays \in Nat \ {0} /\ billday \in M!Month
    BY DEF M!Month, M!BillingAssumption, BillTyped
<1>2. billday \in Nat \ {0} /\ billday <= MonthDays /\ 1 .. billday \subseteq 1 .. MonthDays
    BY <1>1
<1>3. IsFiniteSet(1 .. MonthDays) /\ IsFiniteSet(1 .. billday)
    BY <1>1, <1>2, FS_Interval
<1> QED BY <1>1, <1>2, <1>3

(* What is charged of the days comes to what is charged of the month, or   *)
(* to more where the dearer direction is.                                  *)
LEMMA ChargedOfDays ==
    ASSUME M!BillingAssumption, BillTyped, NEW direction, NEW b,
           b = [d \in M!Month |-> M!BillableBytes(usage[d], direction)]
    PROVE  /\ \A d \in M!Month : b[d] \in Nat /\ (d > billday => b[d] = 0)
           /\ M!BillableBytes(M!MonthUsage, direction) \in Nat
           /\ M!BillableBytes(M!MonthUsage, direction) <= SumFunctionOnSet(b, M!Month)
           /\ direction # "max" => M!BillableBytes(M!MonthUsage, direction) = SumFunctionOnSet(b, M!Month)
<1> DEFINE received == [d \in M!Month |-> usage[d].rx]
           sent == [d \in M!Month |-> usage[d].tx]
           R == SumFunctionOnSet(received, M!Month)
           S == SumFunctionOnSet(sent, M!Month)
           B == SumFunctionOnSet(b, M!Month)
<1>0. IsFiniteSet(M!Month)
    BY MonthIs
<1>1. \A d \in M!Month : /\ usage[d].rx \in Nat /\ usage[d].tx \in Nat
                         /\ d > billday => usage[d].rx = 0 /\ usage[d].tx = 0
    BY DEF BillTyped
<1>2. \A d \in M!Month : received[d] \in Nat /\ sent[d] \in Nat /\ received[d] = usage[d].rx /\ sent[d] = usage[d].tx
    BY <1>1
<1>3. \A d \in M!Month : b[d] \in Nat /\ (d > billday => b[d] = 0)
    BY <1>1 DEF M!BillableBytes
<1>4. M!MonthUsage = [rx |-> R, tx |-> S]
    <2>1. M!Total(received) = R /\ M!Total(sent) = S
        BY SameSum
    <2> QED BY <2>1 DEF M!MonthUsage
<1>5. \A d \in M!Month : /\ direction = "out" => b[d] = sent[d]
                         /\ direction = "in" => b[d] = received[d]
                         /\ direction = "max" => received[d] <= b[d] /\ sent[d] <= b[d]
                         /\ direction \notin {"out", "in", "max"} => b[d] = received[d] + sent[d]
    BY <1>1, <1>2 DEF M!BillableBytes
<1> HIDE DEF received, sent
<1>6. R \in Nat /\ S \in Nat /\ B \in Nat
    BY <1>0, <1>2, <1>3, SumType
<1>7. CASE direction = "out"
    <2>1. S = B
        BY <1>0, <1>2, <1>5, <1>7, SumEqual
    <2>2. M!BillableBytes(M!MonthUsage, direction) = S
        BY <1>4, <1>7 DEF M!BillableBytes
    <2> HIDE DEF R, S, B
    <2>3. S <= B
        BY <1>6, <2>1
    <2> QED BY <1>3, <1>6, <2>1, <2>2, <2>3 DEF B
<1>8. CASE direction = "in"
    <2>1. R = B
        BY <1>0, <1>2, <1>5, <1>8, SumEqual
    <2>2. M!BillableBytes(M!MonthUsage, direction) = R
        BY <1>4, <1>8 DEF M!BillableBytes
    <2> HIDE DEF R, S, B
    <2>3. R <= B
        BY <1>6, <2>1
    <2> QED BY <1>3, <1>6, <2>1, <2>2, <2>3 DEF B
<1>9. CASE direction = "max"
    <2>1. R <= B /\ S <= B
        BY <1>0, <1>2, <1>3, <1>5, <1>9, SumMonotone
    <2>2. M!BillableBytes(M!MonthUsage, direction) = IF R > S THEN R ELSE S
        BY <1>4, <1>9 DEF M!BillableBytes
    <2> HIDE DEF R, S, B
    <2>3. M!BillableBytes(M!MonthUsage, direction) \in Nat /\ M!BillableBytes(M!MonthUsage, direction) <= B
        BY <1>6, <2>1, <2>2
    <2> QED BY <1>3, <1>9, <2>3 DEF B
<1>10. CASE direction \notin {"out", "in", "max"}
    <2>1. B = R + S
        BY <1>0, <1>2, <1>5, <1>10, SumTwo
    <2>2. M!BillableBytes(M!MonthUsage, direction) = R + S
        BY <1>4, <1>10 DEF M!BillableBytes
    <2> HIDE DEF R, S, B
    <2>3. R + S \in Nat /\ R + S <= B
        BY <1>6, <2>1
    <2> QED BY <1>3, <2>1, <2>2, <2>3 DEF B
<1> QED BY <1>7, <1>8, <1>9, <1>10

(* The traffic of the days shown costs what that of the month does.        *)
LEMMA TrafficAddsUp ==
    ASSUME M!BillingAssumption, NoneNegative, BillTyped
    PROVE  IF M!CurrentRates.direction = "max" THEN M!DailyTraffic >= M!Monthly.traffic
           ELSE M!DailyTraffic = M!Monthly.traffic
<1> DEFINE r == M!CurrentRates
           dir == r.direction
           quota == r.included_tb
           price == r.price_per_tb
           b == [d \in M!Month |-> M!BillableBytes(usage[d], dir)]
           over == [d \in M!Month |-> M!OverBytes(M!Before(usage, d, dir), M!BillableBytes(usage[d], dir), quota)]
           charged == [d \in 1 .. billday |-> over[d] * price]
           U == M!BillableBytes(M!MonthUsage, dir)
           B == SumFunctionOnSet(b, M!Month)
<1>1. quota \in Nat /\ price \in Nat
    BY DEF NoneNegative, MoneyAndQuota, BillTyped, M!CurrentRates
<1>2. /\ \A d \in M!Month : b[d] \in Nat /\ (d > billday => b[d] = 0)
      /\ U \in Nat /\ U <= B /\ (dir # "max" => U = B)
    <2> HIDE DEF dir
    <2> QED BY ChargedOfDays
<1>3. B \in Nat
    <2> HIDE DEF b
    <2> QED BY <1>2, MonthIs, SumType
<1>4. SumFunctionOnSet(b, 1 .. billday) = B
    <2>1. \A d \in 1 .. MonthDays : b[d] \in Nat /\ (d > billday => b[d] = 0)
        BY <1>2, MonthIs
    <2> HIDE DEF b
    <2>2. SumFunctionOnSet(b, 1 .. MonthDays) = SumFunctionOnSet(b, 1 .. billday)
        BY <2>1, MonthIs, SumBeyond
    <2> QED BY <2>2, MonthIs
<1>5. \A d \in M!Month : M!Before(usage, d, dir) = SumFunctionOnSet(b, 1 .. d - 1)
    <2> SUFFICES ASSUME NEW d \in M!Month PROVE M!Before(usage, d, dir) = SumFunctionOnSet(b, 1 .. d - 1)
        OBVIOUS
    <2> DEFINE g == [e \in 1 .. d - 1 |-> M!BillableBytes(usage[e], dir)]
    <2>1. M!Before(usage, d, dir) = SumFunctionOnSet(g, 1 .. d - 1)
        BY SameSum DEF M!Before
    <2>2. 1 .. d - 1 \subseteq M!Month /\ IsFiniteSet(1 .. d - 1)
        <3>1. M!Month = 1 .. MonthDays /\ MonthDays \in Nat /\ d \in 1 .. MonthDays
            BY MonthIs
        <3>2. d - 1 \in Nat /\ d - 1 <= MonthDays
            BY <3>1
        <3>3. 1 .. d - 1 \subseteq 1 .. MonthDays
            BY <3>1, <3>2
        <3>4. IsFiniteSet(1 .. d - 1)
            BY <3>2, FS_Interval
        <3> QED BY <3>1, <3>3, <3>4
    <2>3. \A e \in 1 .. d - 1 : g[e] \in Nat /\ g[e] = b[e]
        BY <1>2, <2>2
    <2> HIDE DEF g, b
    <2> QED BY <2>1, <2>2, <2>3, SumEqual
<1>6. \A d \in 1 .. billday : over[d] = M!OverBytes(SumFunctionOnSet(b, 1 .. d - 1), b[d], quota)
    BY <1>5, MonthIs
<1>7. /\ \A d \in 1 .. billday : over[d] \in Nat
      /\ SumFunctionOnSet(over, 1 .. billday) = M!Excess(B, quota)
    <2>1. \A d \in 1 .. billday : b[d] \in Nat
        BY <1>2, MonthIs
    <2>2. billday \in Nat
        BY MonthIs
    <2> HIDE DEF over, b, quota, B
    <2> QED BY <1>1, <1>4, <1>6, <2>1, <2>2, DaysBeyond
<1>8. M!DailyTraffic = SumFunctionOnSet(charged, 1 .. billday)
    <2>1. M!Daily = [d \in 1 .. billday |-> M!DailyCosts(usage, r.ips, r)[d]]
        BY DEF M!Daily
    <2>2. \A d \in 1 .. billday : M!DailyCosts(usage, r.ips, r)[d].traffic = charged[d]
        BY MonthIs DEF M!DailyCosts
    <2>3. [d \in DOMAIN M!Daily |-> M!Daily[d].traffic] = charged
        BY <2>1, <2>2
    <2>4. DOMAIN charged = 1 .. billday
        OBVIOUS
    <2> HIDE DEF charged
    <2> QED BY <2>3, <2>4, SameSum DEF M!DailyTraffic
<1>9. SumFunctionOnSet(charged, 1 .. billday) = M!Excess(B, quota) * price
    <2>1. \A d \in 1 .. billday : over[d] \in Nat /\ charged[d] = over[d] * price
        BY <1>7
    <2> HIDE DEF charged, over, quota, price, B
    <2>2. IsFiniteSet(1 .. billday)
        BY MonthIs
    <2>3. SumFunctionOnSet(charged, 1 .. billday) = SumFunctionOnSet(over, 1 .. billday) * price
        BY <1>1, <2>1, <2>2, SumScaled
    <2> QED BY <1>7, <2>3
<1>10. M!Monthly.traffic = M!Excess(U, quota) * price
    BY DEF M!Monthly, M!MonthCost
<1> HIDE DEF U, B, quota, price, dir, r
<1>11. /\ M!Excess(U, quota) \in Nat /\ M!Excess(B, quota) \in Nat
       /\ M!Excess(U, quota) <= M!Excess(B, quota)
    BY <1>1, <1>2, <1>3 DEF M!Excess
<1>12. M!Monthly.traffic <= M!DailyTraffic
    BY <1>1, <1>8, <1>9, <1>10, <1>11, Products
<1>13. M!Monthly.traffic \in Nat /\ M!DailyTraffic \in Nat
    BY <1>1, <1>8, <1>9, <1>10, <1>11, Products
<1>14. dir # "max" => M!DailyTraffic = M!Monthly.traffic
    BY <1>2, <1>8, <1>9, <1>10
<1> QED BY <1>12, <1>13, <1>14 DEF dir, r

(* When the month is over, the shares of its days come to the addresses    *)
(* and the rent.                                                           *)
LEMMA SharesComeToTheMonth ==
    ASSUME M!BillingAssumption, NoneNegative, BillTyped, billday = MonthDays
    PROVE  M!DailyFixed = M!Monthly.fixed
<1> DEFINE r == M!CurrentRates
           share == M!Excess(r.ips, r.included_ips) * r.price_per_ip + r.rent
           shares == [d \in 1 .. billday |-> share]
<1>1. share \in Nat
    <2>1. r.ips \in Nat /\ r.included_ips \in Nat /\ r.price_per_ip \in Nat /\ r.rent \in Nat
        BY DEF NoneNegative, MoneyAndQuota, BillTyped, M!CurrentRates
    <2> HIDE DEF r
    <2>2. M!Excess(r.ips, r.included_ips) \in Nat
        BY <2>1 DEF M!Excess
    <2>3. M!Excess(r.ips, r.included_ips) * r.price_per_ip \in Nat
        BY <2>1, <2>2, Products
    <2> QED BY <2>1, <2>3
<1>2. M!Monthly.fixed = share
    BY DEF M!Monthly, M!MonthCost
<1>3. M!DailyFixed = SumFunctionOnSet(shares, 1 .. billday) \div MonthDays
    <2>1. M!Daily = [d \in 1 .. billday |-> M!DailyCosts(usage, r.ips, r)[d]]
        BY DEF M!Daily
    <2>2. \A d \in 1 .. billday : M!DailyCosts(usage, r.ips, r)[d].fixed = share
        BY MonthIs DEF M!DailyCosts
    <2>3. [d \in DOMAIN M!Daily |-> M!Daily[d].fixed] = shares
        BY <2>1, <2>2
    <2>4. DOMAIN shares = 1 .. billday
        OBVIOUS
    <2> HIDE DEF shares
    <2> QED BY <2>3, <2>4, SameSum DEF M!DailyFixed
<1>4. Cardinality(1 .. billday) = MonthDays
    BY MonthIs, FS_Interval
<1>5. SumFunctionOnSet(shares, 1 .. billday) = MonthDays * share
    <2>1. \A d \in 1 .. billday : shares[d] = share
        OBVIOUS
    <2>2. IsFiniteSet(1 .. billday)
        BY MonthIs
    <2> HIDE DEF shares, share
    <2> QED BY <1>1, <1>4, <2>1, <2>2, SumConstant
<1> HIDE DEF share, shares
<1> QED BY <1>1, <1>2, <1>3, <1>5, MonthIs, SharesAddUp

(* A range that is stored whole is in the rows.                            *)
LEMMA StoredWhole ==
    ASSUME M!BillingAssumption, BillInv, range # M!Idle, range.left = {}
    PROVE  /\ M!Total([d \in range.targets |-> usage[d].rx]) = range.total.rx
           /\ M!Total([d \in range.targets |-> usage[d].tx]) = range.total.tx
<1> DEFINE T == range.targets
           rx == [d \in T |-> usage[d].rx]
           tx == [d \in T |-> usage[d].tx]
<1>1. T \subseteq M!Month /\ T # {} /\ range.total \in RangeTotals \cup {M!Idle.total}
    BY DEF BillInv, BillTyped, RangeStored
<1>2. range.total.rx \in Nat /\ range.total.tx \in Nat
    BY <1>1 DEF M!Idle, M!BillingAssumption
<1>3. IsFiniteSet(T) /\ T \in SUBSET Nat
    <2>1. IsFiniteSet(M!Month) /\ M!Month \subseteq Nat
        BY MonthIs DEF BillInv
    <2> QED BY <1>1, <2>1, FS_Subset
<1>4. \A d \in T : rx[d] = M!Split(range.total.rx, T, d) /\ tx[d] = M!Split(range.total.tx, T, d)
    <2> SUFFICES ASSUME NEW d \in T PROVE rx[d] = M!Split(range.total.rx, T, d) /\ tx[d] = M!Split(range.total.tx, T, d)
        OBVIOUS
    <2>1. d \in range.targets \ range.left
        OBVIOUS
    <2>2. usage[d] = [rx |-> M!Split(range.total.rx, T, d), tx |-> M!Split(range.total.tx, T, d), source |-> "manual_range"]
        BY <2>1 DEF BillInv, RangeStored
    <2>3. rx[d] = usage[d].rx /\ tx[d] = usage[d].tx
        OBVIOUS
    <2> HIDE DEF T, rx, tx
    <2> QED BY <2>2, <2>3
<1>5. M!Total(rx) = SumFunctionOnSet(rx, T) /\ M!Total(tx) = SumFunctionOnSet(tx, T)
    BY SameSum
<1> HIDE DEF rx, tx, T
<1>6. SumFunctionOnSet(rx, T) = range.total.rx
    BY <1>1, <1>2, <1>3, <1>4, PartsAddUp
<1>7. SumFunctionOnSet(tx, T) = range.total.tx
    BY <1>1, <1>2, <1>3, <1>4, PartsAddUp
<1> QED BY <1>5, <1>6, <1>7 DEF rx, tx, T

LEMMA BillAddsUp ==
    ASSUME M!BillingAssumption, NoneNegative, BillInv
    PROVE  M!DaysAddUp
BY TrafficAddsUp, SharesComeToTheMonth, StoredWhole DEF BillInv, M!DaysAddUp
-----------------------------------------------------------------------------
(* The invariant holds from the first day on.                              *)

LEMMA InitBill == ASSUME M!BillingAssumption, M!Init PROVE BillInv
<1>1. M!Month = 1 .. MonthDays /\ MonthDays \in Nat \ {0}
    BY DEF M!Month, M!BillingAssumption
<1>2. /\ billday = 1 /\ rates \in [datacenter : DatacenterRates, server : ServerRates]
      /\ usage = [d \in M!Month |-> [rx |-> 0, tx |-> 0, source |-> "none"]] /\ range = M!Idle
    BY DEF M!Init
<1>3. usage \in [M!Month -> [rx : Nat, tx : Nat, source : Sources]]
      /\ \A d \in M!Month : usage[d].rx = 0 /\ usage[d].tx = 0
    BY <1>2 DEF Sources
<1>4. range.left = {} /\ range.targets = {} /\ range.total = M!Idle.total
      /\ range \in [left : SUBSET M!Month, targets : SUBSET M!Month, total : RangeTotals \cup {M!Idle.total}]
    BY <1>2 DEF M!Idle
<1>5. BillTyped
    BY <1>1, <1>2, <1>3, <1>4 DEF BillTyped
<1>6. RangeStored
    BY <1>2, <1>4 DEF RangeStored
<1> QED BY <1>5, <1>6 DEF BillInv

(* Nothing about a range is left when it was answered or has failed.       *)
LEMMA NoRange ==
    ASSUME range = M!Idle
    PROVE  /\ range \in [left : SUBSET M!Month, targets : SUBSET M!Month, total : RangeTotals \cup {M!Idle.total}]
           /\ RangeStored
BY DEF M!Idle, RangeStored

(* What a day of a range gets is a number.                                 *)
LEMMA SplitIsNat ==
    ASSUME NEW T, IsFiniteSet(T), T # {}, NEW total \in Nat, NEW d
    PROVE  M!Split(total, T, d) \in Nat
<1>1. Cardinality(T) \in Nat /\ Cardinality(T) > 0
    BY FS_CardinalityType, FS_EmptySet
<1> DEFINE n == Cardinality(T)
<1>2. total \div n \in Nat /\ total % n \in Nat
    BY <1>1
<1>3. M!Split(total, T, d) = (total \div n) + (IF \A e \in T : e <= d THEN total % n ELSE 0)
    BY SameSize DEF M!Split
<1> HIDE DEF n
<1>4. CASE \A e \in T : e <= d
    BY <1>2, <1>3, <1>4
<1>5. CASE ~ \A e \in T : e <= d
    BY <1>2, <1>3, <1>5
<1> QED BY <1>4, <1>5

(* What a step has to keep of a range.                                     *)
LEMMA KeepsStored ==
    ASSUME range'.left \subseteq range'.targets, \A d \in range'.targets : d <= billday',
           range' = M!Idle \/ range'.targets # {},
           \A d \in range'.targets \ range'.left :
              usage'[d] = [rx |-> M!Split(range'.total.rx, range'.targets, d),
                           tx |-> M!Split(range'.total.tx, range'.targets, d), source |-> "manual_range"]
    PROVE  RangeStored'
BY DEF RangeStored, M!Idle

(* A measurement is never written over a day of a range.                   *)
LEMMA RollupKeeps ==
    ASSUME M!BillingAssumption, BillInv, NEW d \in M!Month, NEW t \in DayTraffic, M!Rollup(d, t)
    PROVE  BillInv'
<1>1. /\ UNCHANGED <<billday, rates, range>> /\ d <= billday /\ usage[d].source \in {"none", "agent"}
      /\ usage' = [usage EXCEPT ![d] = [rx |-> t.rx, tx |-> t.tx, source |-> "agent"]]
    BY DEF M!Rollup
<1>2. t.rx \in Nat /\ t.tx \in Nat
    BY DEF M!BillingAssumption
<1>3. /\ billday \in M!Month /\ billday \in Nat /\ d \in Nat
      /\ usage \in [M!Month -> [rx : Nat, tx : Nat, source : Sources]]
    BY MonthIs DEF BillInv, BillTyped
<1>4. [rx |-> t.rx, tx |-> t.tx, source |-> "agent"] \in [rx : Nat, tx : Nat, source : Sources]
    BY <1>2 DEF Sources
<1>5. usage' \in [M!Month -> [rx : Nat, tx : Nat, source : Sources]]
      /\ \A e \in M!Month : e # d => usage'[e] = usage[e]
    BY <1>1, <1>3, <1>4
<1>6. \A e \in M!Month : e > billday => e # d
    BY <1>1, <1>3
<1>7. BillTyped'
    BY <1>1, <1>5, <1>6 DEF BillInv, BillTyped, M!Month
<1>8. d \notin range.targets \ range.left
    <2> SUFFICES ASSUME d \in range.targets \ range.left PROVE FALSE
        OBVIOUS
    <2>1. usage[d] = [rx |-> M!Split(range.total.rx, range.targets, d),
                      tx |-> M!Split(range.total.tx, range.targets, d), source |-> "manual_range"]
        BY DEF BillInv, RangeStored
    <2> QED BY <1>1, <2>1
<1>9. range.targets \subseteq M!Month
    BY DEF BillInv, BillTyped
<1>10. RangeStored'
    <2>1. /\ range.left \subseteq range.targets /\ \A e \in range.targets : e <= billday
          /\ range = M!Idle \/ range.targets # {}
        BY DEF BillInv, RangeStored
    <2>2. \A e \in range.targets \ range.left :
              usage'[e] = [rx |-> M!Split(range.total.rx, range.targets, e),
                           tx |-> M!Split(range.total.tx, range.targets, e), source |-> "manual_range"]
        BY <1>5, <1>8, <1>9 DEF BillInv, RangeStored
    <2> QED BY <1>1, <2>1, <2>2, KeepsStored
<1> QED BY <1>7, <1>10 DEF BillInv

(* A range starts with all its days, which have come.                      *)
LEMMA RangeStartKeeps ==
    ASSUME M!BillingAssumption, BillInv, NEW from \in M!Month, NEW to \in M!Month, NEW t \in RangeTotals,
           NEW overwrite \in BOOLEAN, M!RangeStart(from, to, t, overwrite)
    PROVE  BillInv'
<1> DEFINE T == {d \in from .. to : d <= billday /\ (overwrite \/ usage[d].source # "agent")}
<1>1. /\ T # {} /\ range' = [left |-> T, targets |-> T, total |-> t]
      /\ UNCHANGED <<billday, rates, usage>>
    BY DEF M!RangeStart
<1>2. T \subseteq M!Month /\ \A d \in T : d <= billday
    BY MonthIs DEF BillInv
<1> HIDE DEF T
<1>3. /\ range'.left = T /\ range'.targets = T
      /\ range' \in [left : SUBSET M!Month, targets : SUBSET M!Month, total : RangeTotals \cup {M!Idle.total}]
    BY <1>1, <1>2
<1>4. BillTyped'
    BY <1>1, <1>3 DEF BillInv, BillTyped, M!Month, M!Idle
<1>5. RangeStored'
    BY <1>1, <1>2, <1>3 DEF RangeStored
<1> QED BY <1>4, <1>5 DEF BillInv

(* The row that is written has the part of its day.                        *)
LEMMA RangeWriteKeeps ==
    ASSUME M!BillingAssumption, BillInv, M!RangeWrite
    PROVE  BillInv'
<1>1. PICK d \in range.left :
          /\ usage' = [usage EXCEPT ![d] = [rx |-> M!Split(range.total.rx, range.targets, d),
                                            tx |-> M!Split(range.total.tx, range.targets, d), source |-> "manual_range"]]
          /\ range' = [range EXCEPT !.left = @ \ {d}]
          /\ UNCHANGED <<billday, rates>>
    BY DEF M!RangeWrite
<1> DEFINE T == range.targets
           row == [rx |-> M!Split(range.total.rx, T, d), tx |-> M!Split(range.total.tx, T, d), source |-> "manual_range"]
<1>2. /\ range.left \subseteq T /\ T \subseteq M!Month /\ range.total \in RangeTotals \cup {M!Idle.total}
      /\ usage \in [M!Month -> [rx : Nat, tx : Nat, source : Sources]]
      /\ billday \in Nat /\ \A e \in T : e <= billday
    BY MonthIs DEF BillInv, BillTyped, RangeStored
<1>3. range.total.rx \in Nat /\ range.total.tx \in Nat
    BY <1>2 DEF M!Idle, M!BillingAssumption
<1>4. IsFiniteSet(T) /\ T # {}
    BY <1>1, <1>2, MonthIs, FS_Subset DEF BillInv
<1>5. row \in [rx : Nat, tx : Nat, source : Sources]
    <2> HIDE DEF T
    <2>1. M!Split(range.total.rx, T, d) \in Nat /\ M!Split(range.total.tx, T, d) \in Nat
        BY <1>3, <1>4, SplitIsNat
    <2> QED BY <2>1 DEF Sources
<1>6. d \in M!Month /\ usage' = [usage EXCEPT ![d] = row]
    BY <1>1, <1>2
<1> HIDE DEF row
<1>7. usage' \in [M!Month -> [rx : Nat, tx : Nat, source : Sources]]
      /\ usage'[d] = row /\ \A e \in M!Month : e # d => usage'[e] = usage[e]
    BY <1>2, <1>5, <1>6
<1>8. /\ range'.left = range.left \ {d} /\ range'.targets = T /\ range'.total = range.total
      /\ range' \in [left : SUBSET M!Month, targets : SUBSET M!Month, total : RangeTotals \cup {M!Idle.total}]
    BY <1>1, <1>2 DEF BillInv, BillTyped
<1>9. BillTyped'
    <2>1. \A e \in M!Month : e > billday => e # d
        BY <1>1, <1>2, MonthIs DEF BillInv
    <2> QED BY <1>1, <1>7, <1>8, <2>1 DEF BillInv, BillTyped, M!Month, M!Idle
<1>10. RangeStored'
    <2>1. range'.left \subseteq T /\ T # {} /\ \A e \in T : e <= billday'
        BY <1>1, <1>2, <1>4, <1>8
    <2>2. ASSUME NEW e \in T \ range'.left
          PROVE  usage'[e] = [rx |-> M!Split(range.total.rx, T, e),
                              tx |-> M!Split(range.total.tx, T, e), source |-> "manual_range"]
        <3>1. CASE e = d
            BY <1>7, <3>1 DEF row
        <3>2. CASE e # d
            <4>1. e \in range.targets \ range.left /\ e \in M!Month
                BY <1>2, <1>8, <2>2, <3>2
            <4> QED BY <1>7, <3>2, <4>1 DEF BillInv, RangeStored
        <3> QED BY <3>1, <3>2
    <2> HIDE DEF T
    <2> QED BY <1>8, <2>1, <2>2, KeepsStored
<1> QED BY <1>9, <1>10 DEF BillInv

(* A step that leaves the rows and the range alone.                        *)
LEMMA SameRange ==
    ASSUME RangeStored, UNCHANGED <<usage, range>>, \A d \in range.targets : d <= billday'
    PROVE  RangeStored'
<1>1. /\ range.left \subseteq range.targets
      /\ range = M!Idle \/ range.targets # {}
      /\ \A e \in range.targets \ range.left :
            usage[e] = [rx |-> M!Split(range.total.rx, range.targets, e),
                        tx |-> M!Split(range.total.tx, range.targets, e), source |-> "manual_range"]
    BY DEF RangeStored
<1> QED BY <1>1, KeepsStored

LEMMA NextBill == ASSUME M!BillingAssumption, BillInv, [M!Next]_M!vars PROVE BillInv'
<1>1. CASE M!NextDay
    <2>1. billday < MonthDays /\ billday' = billday + 1 /\ UNCHANGED <<rates, usage, range>>
        BY <1>1 DEF M!NextDay
    <2>2. billday' \in M!Month /\ \A d \in M!Month : d > billday' => d > billday
        BY <2>1, MonthIs DEF BillInv
    <2>3. BillTyped'
        BY <2>1, <2>2 DEF BillInv, BillTyped, M!Month, M!Idle
    <2>4. \A d \in range.targets : d <= billday'
        <3>1. range.targets \subseteq Nat /\ billday \in Nat
            BY MonthIs DEF BillInv, BillTyped
        <3>2. \A d \in range.targets : d <= billday
            BY DEF BillInv, RangeStored
        <3> QED BY <2>1, <3>1, <3>2
    <2>5. RangeStored'
        BY <2>1, <2>4, SameRange DEF BillInv
    <2> QED BY <2>3, <2>5 DEF BillInv
<1>2. CASE M!EditRates
    <2>1. UNCHANGED <<billday, usage, range>> /\ rates' \in [datacenter : DatacenterRates, server : ServerRates]
        BY <1>2 DEF M!EditRates
    <2>2. BillTyped'
        BY <2>1 DEF BillInv, BillTyped, M!Month, M!Idle
    <2>3. RangeStored'
        BY <2>1, SameRange DEF BillInv, RangeStored
    <2> QED BY <2>2, <2>3 DEF BillInv
<1>3. CASE M!RangeWrite
    BY <1>3, RangeWriteKeeps
<1>4. CASE M!RangeAnswered \/ M!RangeFails
    <2>1. range' = M!Idle /\ UNCHANGED <<billday, rates, usage>>
        BY <1>4 DEF M!RangeAnswered, M!RangeFails
    <2>2. /\ range' \in [left : SUBSET M!Month, targets : SUBSET M!Month, total : RangeTotals \cup {M!Idle.total}]
          /\ RangeStored'
        BY <2>1 DEF M!Idle, RangeStored
    <2>3. BillTyped'
        BY <2>1, <2>2 DEF BillInv, BillTyped, M!Month, M!Idle
    <2> QED BY <2>2, <2>3 DEF BillInv
<1>5. CASE \E d \in M!Month, t \in DayTraffic : M!Rollup(d, t)
    BY <1>5, RollupKeeps
<1>6. CASE \E from, to \in M!Month, t \in RangeTotals, overwrite \in BOOLEAN : M!RangeStart(from, to, t, overwrite)
    BY <1>6, RangeStartKeeps
<1>7. CASE UNCHANGED M!vars
    <2>1. UNCHANGED <<billday, rates, usage, range>>
        BY <1>7 DEF M!vars
    <2>2. BillTyped'
        BY <2>1 DEF BillInv, BillTyped, M!Month, M!Idle
    <2>3. RangeStored'
        BY <2>1, SameRange DEF BillInv, RangeStored
    <2> QED BY <2>2, <2>3 DEF BillInv
<1> QED BY <1>1, <1>2, <1>3, <1>4, <1>5, <1>6, <1>7 DEF M!Next

(* For a month of any length, all rates with which nothing is negative,    *)
(* all traffic and all ranges, in whatever order days pass, agents         *)
(* measure, rates are changed and ranges are stored a row at a time: what  *)
(* the page shows by day comes to what it shows for the month (to no less  *)
(* when the dearer direction is charged), and a range that is answered is  *)
(* in the rows to the last byte.                                           *)
THEOREM DaysComeToTheMonth == ASSUME M!BillingAssumption, NoneNegative PROVE M!Spec => []M!DaysAddUp
<1>1. M!Init => BillInv
    BY InitBill
<1>2. BillInv /\ [M!Next]_M!vars => BillInv'
    BY NextBill
<1>3. BillInv => M!DaysAddUp
    BY BillAddsUp
<1> QED BY <1>1, <1>2, <1>3, PTL DEF M!Spec
-----------------------------------------------------------------------------
(* The days that are typed in: they have a form and rows of their own.     *)

CONSTANTS PageToday, PageLastDay, MissingDay, LineAmounts, LineUnits, MaxLines, MaxSends, MaxMeasured
VARIABLES text, unit, replace, typed, left, reply, counts, sent, before

E == INSTANCE Backfill WITH Today <- PageToday, LastDay <- PageLastDay, Missing <- MissingDay, Amounts <- LineAmounts,
        Units <- LineUnits, overwrite <- replace, daily <- typed, answer <- reply, count <- counts

(* Every variable of the form and of the route has the right type.         *)
FormTyped ==
    /\ IsFiniteSet(DOMAIN text) /\ DOMAIN text \subseteq Nat /\ \A n \in DOMAIN text : text[n] \in E!Lines
    /\ unit \in LineUnits
    /\ typed \in [E!Days -> [bytes : Nat, source : {"none", "manual", "agent"}]]
    /\ reply \in [state : {"none", "busy", "failed", "done"}, added : Nat, updated : Nat, skipped : Nat]
    /\ left \subseteq DOMAIN sent

(* What is sent is what can be read in the unit chosen; the lines are gone *)
(* through in their order, and each is counted once.                       *)
SentIsRead == IF reply.state = "none" THEN sent = E!Nothing ELSE sent = E!Valid(E!Parsed(unit))
LinesCounted ==
    /\ \A m \in E!Done, n \in left : m < n
    /\ \A n \in E!Done : sent[n].day \in E!Days
    /\ reply.state # "none" => reply.added + reply.updated + reply.skipped = Cardinality(E!Done)
    /\ reply.state = "done" => left = {}

(* No day to come has a row; while nothing was skipped, every line that    *)
(* was gone through has its day.                                           *)
RowsKept ==
    /\ \A d \in E!Days : d > PageToday => typed[d] = E!NoRow
    /\ reply.skipped = 0 => \A n \in E!Done : typed[sent[n].day].source = "manual"

FormInv == FormTyped /\ SentIsRead /\ LinesCounted /\ RowsKept /\ E!DaysAsTyped
-----------------------------------------------------------------------------
(* The rows that are sent are those of the lines that can be read.         *)
LEMMA RowsRead ==
    ASSUME E!BackfillAssumption, FormTyped, NEW u \in LineUnits
    PROVE  /\ DOMAIN E!Valid(E!Parsed(u)) = {n \in DOMAIN text : text[n].fault = "none"}
           /\ \A n \in DOMAIN E!Valid(E!Parsed(u)) :
                 /\ E!Valid(E!Parsed(u))[n].day \in E!Days \cup {MissingDay}
                 /\ E!Valid(E!Parsed(u))[n].bytes \in Int
<1> DEFINE rows == E!Parsed(u)
<1>1. DOMAIN rows = DOMAIN text
    BY DEF E!Parsed
<1>2. ASSUME NEW n \in DOMAIN text
      PROVE  rows[n].day = text[n].day /\ rows[n].bytes = text[n].amount * u /\ rows[n].error = text[n].fault
    BY DEF E!Parsed, E!Bytes
<1>3. ASSUME NEW n \in DOMAIN text, text[n].fault = "none"
      PROVE  text[n].day \in E!Days \cup {MissingDay} /\ text[n].amount \in Int
    BY <1>3 DEF FormTyped, E!Lines, E!BackfillAssumption
<1>4. u \in Nat
    BY DEF E!BackfillAssumption
<1> HIDE DEF rows
<1>5. /\ DOMAIN E!Valid(rows) = {n \in DOMAIN rows : rows[n].error = "none"}
      /\ \A n \in DOMAIN E!Valid(rows) : E!Valid(rows)[n] = rows[n]
    BY DEF E!Valid, E!Restrict
<1>6. DOMAIN E!Valid(rows) = {n \in DOMAIN text : text[n].fault = "none"}
    BY <1>1, <1>2, <1>5
<1>7. ASSUME NEW n \in DOMAIN E!Valid(rows)
      PROVE  E!Valid(rows)[n].day \in E!Days \cup {MissingDay} /\ E!Valid(rows)[n].bytes \in Int
    <2>1. n \in DOMAIN text /\ text[n].fault = "none" /\ E!Valid(rows)[n] = rows[n]
        BY <1>5, <1>6, <1>7
    <2>2. text[n].amount * u \in Int
        BY <1>3, <1>4, <2>1
    <2> QED BY <1>2, <1>3, <2>1, <2>2
<1> QED BY <1>6, <1>7 DEF rows

(* So is what was sent.                                                    *)
LEMMA SentRows ==
    ASSUME E!BackfillAssumption, FormTyped, SentIsRead
    PROVE  /\ \A n \in DOMAIN sent : sent[n].day \in E!Days \cup {MissingDay} /\ sent[n].bytes \in Int
           /\ IsFiniteSet(DOMAIN sent) /\ DOMAIN sent \subseteq Nat
           /\ reply.state # "none" => DOMAIN sent = {n \in DOMAIN text : text[n].fault = "none"}
           /\ reply.state = "none" => DOMAIN sent = {}
<1>1. CASE reply.state = "none"
    <2>1. DOMAIN sent = {}
        BY <1>1 DEF SentIsRead, E!Nothing
    <2> QED BY <1>1, <2>1, FS_EmptySet
<1>2. CASE reply.state # "none"
    <2>1. sent = E!Valid(E!Parsed(unit)) /\ unit \in LineUnits
        BY <1>2 DEF SentIsRead, FormTyped
    <2>2. DOMAIN sent = {n \in DOMAIN text : text[n].fault = "none"}
          /\ \A n \in DOMAIN sent : sent[n].day \in E!Days \cup {MissingDay} /\ sent[n].bytes \in Int
        BY <2>1, RowsRead
    <2>3. DOMAIN sent \subseteq DOMAIN text
        BY <2>2
    <2>4. IsFiniteSet(DOMAIN text) /\ DOMAIN text \subseteq Nat
        BY DEF FormTyped
    <2>5. IsFiniteSet(DOMAIN sent)
        BY <2>3, <2>4, FS_Subset
    <2> QED BY <1>2, <2>2, <2>3, <2>4, <2>5
<1> QED BY <1>1, <1>2

(* Indices with different keys: the sum by index is the sum by key.        *)
LEMMA SumByKey ==
    ASSUME NEW S, IsFiniteSet(S), NEW key, NEW f, NEW g,
           \A x \in S : f[x] \in Nat /\ g[key[x]] = f[x],
           \A x, y \in S : key[x] = key[y] => x = y
    PROVE  SumFunctionOnSet(f, S) = SumFunctionOnSet(g, {key[x] : x \in S})
<1> DEFINE K(T) == {key[x] : x \in T}
           G == {T \in SUBSET S : IsFiniteSet(K(T)) /\ SumFunctionOnSet(f, T) = SumFunctionOnSet(g, K(T))}
<1>1. ASSUME NEW T \in SUBSET S, \A U \in SUBSET T : U # T => U \in G PROVE T \in G
    <2>1. CASE T = {}
        <3>1. K(T) = {}
            BY <2>1
        <3>2. SumFunctionOnSet(f, {}) = 0 /\ SumFunctionOnSet(g, {}) = 0 /\ IsFiniteSet({})
            BY SumEmpty, FS_EmptySet
        <3> QED BY <2>1, <3>1, <3>2
    <2>2. CASE T # {}
        <3> DEFINE p == Pick(T)
                   R == T \ {p}
        <3>1. IsFiniteSet(T)
            BY FS_Subset
        <3>2. p \in T /\ R \subseteq T /\ R # T
            BY <2>2, <3>1, PickIs
        <3>3. SumFunctionOnSet(f, T) = f[p] + SumFunctionOnSet(f, R)
            BY <2>2, <3>1, SumFirst
        <3>4. IsFiniteSet(K(R)) /\ SumFunctionOnSet(f, R) = SumFunctionOnSet(g, K(R))
            BY <1>1, <3>2
        <3>5. K(T) = K(R) \cup {key[p]} /\ K(T) \ {key[p]} = K(R)
            <4> HIDE DEF p
            <4> QED BY <3>2
        <3>6. key[p] \in K(T) /\ g[key[p]] = f[p] /\ \A y \in K(T) : g[y] \in Nat
            <4> HIDE DEF p
            <4> QED BY <3>2
        <3> HIDE DEF p, R, K
        <3>7. IsFiniteSet(K(T))
            BY <3>4, <3>5, FS_AddElement
        <3>8. SumFunctionOnSet(g, K(T)) = g[key[p]] + SumFunctionOnSet(g, K(R))
            BY <3>5, <3>6, <3>7, SumAny
        <3> QED BY <3>3, <3>4, <3>6, <3>7, <3>8
    <2> QED BY <2>1, <2>2
<1>2. S \in G
    <2>1. \A T \in SUBSET S : T \in G
        <3> HIDE DEF G
        <3> QED BY <1>1, Induction
    <2> HIDE DEF G
    <2> QED BY <2>1
<1> QED BY <1>2

(* Where each value is at most that of its key, so is the sum.             *)
LEMMA SumByKeyAtMost ==
    ASSUME NEW S, IsFiniteSet(S), NEW key, NEW f, NEW g,
           \A x \in S : f[x] \in Int /\ g[key[x]] \in Nat /\ f[x] <= g[key[x]],
           \A x, y \in S : key[x] = key[y] => x = y
    PROVE  SumFunctionOnSet(f, S) <= SumFunctionOnSet(g, {key[x] : x \in S})
<1> DEFINE K(T) == {key[x] : x \in T}
           G == {T \in SUBSET S : /\ IsFiniteSet(K(T)) /\ SumFunctionOnSet(f, T) \in Int
                                  /\ SumFunctionOnSet(f, T) <= SumFunctionOnSet(g, K(T))}
<1>1. ASSUME NEW T \in SUBSET S, \A U \in SUBSET T : U # T => U \in G PROVE T \in G
    <2>1. CASE T = {}
        <3>1. K(T) = {}
            BY <2>1
        <3>2. SumFunctionOnSet(f, {}) = 0 /\ SumFunctionOnSet(g, {}) = 0 /\ IsFiniteSet({})
            BY SumEmpty, FS_EmptySet
        <3> QED BY <2>1, <3>1, <3>2
    <2>2. CASE T # {}
        <3> DEFINE p == Pick(T)
                   R == T \ {p}
        <3>1. IsFiniteSet(T)
            BY FS_Subset
        <3>2. p \in T /\ R \subseteq T /\ R # T
            BY <2>2, <3>1, PickIs
        <3>3. SumFunctionOnSet(f, T) = f[p] + SumFunctionOnSet(f, R)
            BY <2>2, <3>1, SumFirst
        <3>4. /\ IsFiniteSet(K(R)) /\ SumFunctionOnSet(f, R) \in Int
              /\ SumFunctionOnSet(f, R) <= SumFunctionOnSet(g, K(R))
            BY <1>1, <3>2
        <3>5. K(T) = K(R) \cup {key[p]} /\ K(T) \ {key[p]} = K(R)
            <4> HIDE DEF p
            <4> QED BY <3>2
        <3>6. /\ key[p] \in K(T) /\ f[p] \in Int /\ g[key[p]] \in Nat /\ f[p] <= g[key[p]]
              /\ \A y \in K(T) : g[y] \in Nat
            <4> HIDE DEF p
            <4> QED BY <3>2
        <3>7. \A y \in K(R) : g[y] \in Nat
            BY <3>5, <3>6
        <3> HIDE DEF p, R, K
        <3>8. IsFiniteSet(K(T)) /\ SumFunctionOnSet(g, K(R)) \in Nat
            BY <3>4, <3>5, <3>7, FS_AddElement, SumType
        <3>9. SumFunctionOnSet(g, K(T)) = g[key[p]] + SumFunctionOnSet(g, K(R))
            BY <3>5, <3>6, <3>8, SumAny
        <3> QED BY <3>3, <3>4, <3>6, <3>8, <3>9
    <2> QED BY <2>1, <2>2
<1>2. S \in G
    <2>1. \A T \in SUBSET S : T \in G
        <3> HIDE DEF G
        <3> QED BY <1>1, Induction
    <2> HIDE DEF G
    <2> QED BY <2>1
<1> QED BY <1>2

(* The preview of the form adds up as everyone does.                       *)
LEMMA SameFold == ASSUME NEW f PROVE E!FoldFunction(+, 0, f) = SumFunctionOnSet(f, DOMAIN f)
BY Zenon DEF E!FoldFunction, E!FoldFunctionOnSet, E!MapThenFoldSet,
             SumFunctionOnSet, FoldFunctionOnSet, MapThenFoldSet

LEMMA SameCount == ASSUME NEW S PROVE E!Cardinality(S) = Cardinality(S)
BY DEF E!Cardinality, Cardinality

-----------------------------------------------------------------------------
(* The invariant implies that the form kept its word.                      *)
LEMMA PreviewIsKept ==
    ASSUME E!BackfillAssumption, FormInv
    PROVE  E!PreviewKept
<1> SUFFICES ASSUME reply.state = "done" PROVE E!PreviewKept
    BY DEF E!PreviewKept
<1> DEFINE read == E!Valid(E!Parsed(unit))
<1>1. left = {} /\ sent = read /\ E!Done = DOMAIN sent
    BY DEF FormInv, SentIsRead, LinesCounted, E!Done
<1>2. /\ \A n \in DOMAIN sent : sent[n].day \in E!Days \cup {MissingDay} /\ sent[n].bytes \in Int
      /\ IsFiniteSet(DOMAIN sent)
      /\ DOMAIN sent = {n \in DOMAIN text : text[n].fault = "none"}
    BY SentRows DEF FormInv
<1>3. reply.added + reply.updated + reply.skipped = E!Cardinality({n \in DOMAIN text : text[n].fault = "none"})
    BY <1>1, <1>2, SameCount DEF FormInv, LinesCounted
<1>4. ASSUME reply.skipped = 0, E!IsInjective([n \in DOMAIN sent |-> sent[n].day])
      PROVE  /\ E!Preview <= E!Entered
             /\ (\A n \in DOMAIN sent : sent[n].bytes >= 0) => E!Preview = E!Entered
    <2> DEFINE S == DOMAIN sent
               key == [n \in S |-> sent[n].day]
               f == [n \in DOMAIN read |-> read[n].bytes]
               D == {key[n] : n \in S}
               g == [d \in D |-> typed[d].bytes]
    <2>1. \A m, n \in S : sent[m].day = sent[n].day => m = n
        BY <1>4 DEF E!IsInjective
    <2>2. \A n \in S : typed[sent[n].day].bytes = E!Owed(n)
        <3> SUFFICES ASSUME NEW n \in S PROVE typed[sent[n].day].bytes = E!Owed(n)
            OBVIOUS
        <3>1. n \in E!Done /\ E!IsLast(n)
            BY <1>1, <1>2, <2>1, SentRows DEF E!IsLast, FormInv
        <3>2. \/ sent[n].day > PageToday /\ typed[sent[n].day] = E!NoRow
              \/ typed[sent[n].day] = [bytes |-> E!Owed(n), source |-> "manual"]
              \/ ~replace /\ typed[sent[n].day].source = "agent"
            BY <3>1 DEF FormInv, E!DaysAsTyped
        <3>3. typed[sent[n].day].source = "manual"
            BY <1>4, <3>1 DEF FormInv, RowsKept
        <3> QED BY <3>2, <3>3 DEF E!NoRow
    <2>3. E!Preview = SumFunctionOnSet(f, S)
        <3>1. E!Preview = E!FoldFunction(+, 0, f)
            BY DEF E!Preview
        <3>2. DOMAIN f = S
            BY <1>1
        <3> HIDE DEF f
        <3> QED BY <3>1, <3>2, SameFold
    <2>4. E!DaysOf(E!Done) = D
        BY <1>1 DEF E!DaysOf
    <2>5. E!Entered = SumFunctionOnSet(g, D)
        <3>1. DOMAIN g = D
            OBVIOUS
        <3>2. E!FoldFunction(+, 0, g) = SumFunctionOnSet(g, D)
            <4> HIDE DEF g, D
            <4> QED BY <3>1, SameFold
        <3> QED BY <2>4, <3>2 DEF E!Entered
    <2>6. \A n \in S : /\ f[n] \in Int /\ g[key[n]] \in Nat /\ f[n] <= g[key[n]]
                       /\ sent[n].bytes >= 0 => f[n] \in Nat /\ g[key[n]] = f[n]
        <3> SUFFICES ASSUME NEW n \in S
                     PROVE  /\ f[n] \in Int /\ g[key[n]] \in Nat /\ f[n] <= g[key[n]]
                            /\ sent[n].bytes >= 0 => f[n] \in Nat /\ g[key[n]] = f[n]
            OBVIOUS
        <3>1. f[n] = sent[n].bytes /\ sent[n].bytes \in Int /\ g[key[n]] = E!Owed(n)
            BY <1>1, <1>2, <2>2
        <3> HIDE DEF f, g
        <3> QED BY <3>1 DEF E!Owed
    <2>7. \A m, n \in S : key[m] = key[n] => m = n
        BY <2>1
    <2>8. IsFiniteSet(S)
        BY <1>2
    <2>9. SumFunctionOnSet(f, S) <= SumFunctionOnSet(g, D)
        <3>1. \A n \in S : f[n] \in Int /\ g[key[n]] \in Nat /\ f[n] <= g[key[n]]
            BY <2>6
        <3> HIDE DEF f, g, key, S
        <3> QED BY <2>7, <2>8, <3>1, SumByKeyAtMost
    <2>10. ASSUME \A n \in S : sent[n].bytes >= 0 PROVE SumFunctionOnSet(f, S) = SumFunctionOnSet(g, D)
        <3>1. \A n \in S : f[n] \in Nat /\ g[key[n]] = f[n]
            BY <2>6, <2>10
        <3> HIDE DEF f, g, key, S
        <3> QED BY <2>7, <2>8, <3>1, SumByKey
    <2> QED BY <2>3, <2>5, <2>9, <2>10
<1> QED BY <1>3, <1>4 DEF E!PreviewKept
-----------------------------------------------------------------------------
(* The invariant holds from the opening of the form on.                    *)

LEMMA InitForm == ASSUME E!BackfillAssumption, E!Init PROVE FormInv
<1>1. PICK n \in 1 .. MaxLines : text \in [1 .. n -> E!Lines]
    BY DEF E!Init
<1>2. /\ unit \in LineUnits /\ typed = [d \in E!Days |-> E!NoRow] /\ left = {}
      /\ reply = E!NoAnswer /\ sent = E!Nothing
    BY DEF E!Init
<1>3. IsFiniteSet(DOMAIN text) /\ DOMAIN text \subseteq Nat /\ \A m \in DOMAIN text : text[m] \in E!Lines
    <2>1. IsFiniteSet(1 .. n) /\ 1 .. n \subseteq Nat /\ DOMAIN text = 1 .. n
        BY <1>1, FS_Interval DEF E!BackfillAssumption
    <2> QED BY <1>1, <2>1
<1>4. typed \in [E!Days -> [bytes : Nat, source : {"none", "manual", "agent"}]] /\ \A d \in E!Days : typed[d] = E!NoRow
    BY <1>2 DEF E!NoRow
<1>5. /\ reply \in [state : {"none", "busy", "failed", "done"}, added : Nat, updated : Nat, skipped : Nat]
      /\ reply.state = "none"
    BY <1>2 DEF E!NoAnswer
<1>6. DOMAIN sent = {} /\ E!Done = {}
    BY <1>2 DEF E!Nothing, E!Done
<1>7. FormTyped
    BY <1>2, <1>3, <1>4, <1>5 DEF FormTyped
<1>8. SentIsRead /\ LinesCounted /\ RowsKept
    BY <1>2, <1>4, <1>5, <1>6 DEF SentIsRead, LinesCounted, RowsKept
<1>9. E!DaysAsTyped
    BY <1>2, <1>6 DEF E!DaysAsTyped
<1> QED BY <1>7, <1>8, <1>9 DEF FormInv

(* A request begins with nothing gone through.                             *)
LEMMA SendKeeps == ASSUME E!BackfillAssumption, FormInv, E!Send PROVE FormInv'
<1>1. /\ unit' \in LineUnits /\ sent' = E!Valid(E!Parsed(unit')) /\ left' = DOMAIN sent'
      /\ before' = typed /\ reply' = [E!NoAnswer EXCEPT !.state = "busy"]
      /\ UNCHANGED <<text, typed>>
    BY DEF E!Send
<1>2. /\ reply'.state = "busy" /\ reply'.added = 0 /\ reply'.updated = 0 /\ reply'.skipped = 0
      /\ reply' \in [state : {"none", "busy", "failed", "done"}, added : Nat, updated : Nat, skipped : Nat]
    BY <1>1 DEF E!NoAnswer
<1>3. (E!Done)' = {}
    BY <1>1 DEF E!Done
<1>4. sent' = (E!Valid(E!Parsed(unit)))'
    BY <1>1 DEF E!Valid, E!Parsed, E!Restrict, E!Bytes
<1>5. FormTyped'
    BY <1>1, <1>2 DEF FormInv, FormTyped, E!Lines, E!Days
<1>6. SentIsRead'
    BY <1>2, <1>4 DEF SentIsRead
<1>7. LinesCounted'
    BY <1>2, <1>3, FS_EmptySet DEF LinesCounted
<1>8. RowsKept'
    BY <1>1, <1>3 DEF FormInv, RowsKept, E!Days, E!NoRow
<1>9. E!DaysAsTyped'
    BY <1>1, <1>3 DEF E!DaysAsTyped
<1> QED BY <1>5, <1>6, <1>7, <1>8, <1>9 DEF FormInv

(* The line whose turn it is has not been gone through, and all that have  *)
(* come before it; then it is the last of its day.                         *)
LEMMA TurnIs ==
    ASSUME E!BackfillAssumption, FormInv, NEW n \in left, E!Turn(n), left' = left \ {n}, UNCHANGED sent
    PROVE  /\ n \in Nat /\ n \notin E!Done /\ (E!Done)' = E!Done \cup {n}
           /\ \A m \in E!Done : m \in Nat /\ m < n
           /\ \A m \in left' : m \in Nat /\ n < m
           /\ sent[n].day \in E!Days \cup {MissingDay} /\ sent[n].bytes \in Int
           /\ IsFiniteSet(E!Done) /\ Cardinality((E!Done)') = Cardinality(E!Done) + 1 /\ Cardinality(E!Done) \in Nat
<1>1. /\ left \subseteq DOMAIN sent /\ DOMAIN sent \subseteq Nat /\ IsFiniteSet(DOMAIN sent)
      /\ sent[n].day \in E!Days \cup {MissingDay} /\ sent[n].bytes \in Int
    BY SentRows DEF FormInv, FormTyped
<1>2. E!Done \subseteq DOMAIN sent /\ n \notin E!Done /\ (E!Done)' = E!Done \cup {n}
    BY <1>1 DEF E!Done
<1>3. IsFiniteSet(E!Done) /\ Cardinality((E!Done)') = Cardinality(E!Done) + 1 /\ Cardinality(E!Done) \in Nat
    BY <1>1, <1>2, FS_Subset, FS_AddElement, FS_CardinalityType
<1>4. \A m \in E!Done : m \in Nat /\ m < n
    BY <1>1, <1>2 DEF FormInv, LinesCounted
<1>5. \A m \in left' : m \in Nat /\ n < m
    BY <1>1 DEF E!Turn
<1> QED BY <1>1, <1>2, <1>3, <1>4, <1>5

(* What going through a line has to do to keep the invariant.              *)
LEMMA GoneThrough ==
    ASSUME E!BackfillAssumption, FormInv, NEW n \in left, E!Turn(n), left' = left \ {n},
           UNCHANGED <<text, unit, replace, sent, before>>,
           sent[n].day \in E!Days,
           typed' \in [E!Days -> [bytes : Nat, source : {"none", "manual", "agent"}]],
           \A d \in E!Days : d # sent[n].day => typed'[d] = typed[d],
           \A d \in E!Days : d > PageToday => typed'[d] = typed[d],
           reply' \in [state : {"none", "busy", "failed", "done"}, added : Nat, updated : Nat, skipped : Nat],
           reply'.state = reply.state,
           reply'.added + reply'.updated + reply'.skipped = reply.added + reply.updated + reply.skipped + 1,
           reply'.skipped = 0 => reply.skipped = 0 /\ typed'[sent[n].day].source = "manual",
           \/ sent[n].day > PageToday
           \/ typed'[sent[n].day] = [bytes |-> E!Owed(n), source |-> "manual"]
           \/ ~replace /\ typed'[sent[n].day].source = "agent"
    PROVE  FormInv'
<1> DEFINE day == sent[n].day
<1>1. /\ n \in Nat /\ n \notin E!Done /\ (E!Done)' = E!Done \cup {n}
      /\ \A m \in E!Done : m \in Nat /\ m < n
      /\ \A m \in left' : m \in Nat /\ n < m
      /\ Cardinality((E!Done)') = Cardinality(E!Done) + 1 /\ Cardinality(E!Done) \in Nat
    BY TurnIs
<1>2. reply.state = "busy"
    BY DEF E!Turn
<1>3. \A m \in E!Done : sent[m].day \in E!Days
    BY DEF FormInv, LinesCounted
<1>9. \A m : (E!Owed(m))' = E!Owed(m)
    BY DEF E!Owed
<1>4. FormTyped'
    <2>1. left' \subseteq DOMAIN sent'
        BY DEF FormInv, FormTyped
    <2> QED BY <2>1 DEF FormInv, FormTyped, E!Lines, E!Days
<1>5. SentIsRead'
    <2>1. sent = E!Valid(E!Parsed(unit))
        BY <1>2 DEF FormInv, SentIsRead
    <2> QED BY <1>2, <2>1 DEF SentIsRead, E!Valid, E!Parsed, E!Restrict, E!Bytes
<1>6. LinesCounted'
    <2>1. \A m \in (E!Done)', l \in left' : m < l
        BY <1>1
    <2>2. \A m \in (E!Done)' : sent'[m].day \in E!Days
        BY <1>1, <1>3
    <2>3. reply'.added + reply'.updated + reply'.skipped = Cardinality((E!Done)')
        BY <1>1, <1>2 DEF FormInv, LinesCounted
    <2> QED BY <1>2, <2>1, <2>2, <2>3 DEF LinesCounted, E!Days
<1>7. RowsKept'
    <2>1. \A d \in E!Days : d > PageToday => typed'[d] = E!NoRow
        BY DEF FormInv, RowsKept
    <2>2. ASSUME reply'.skipped = 0, NEW m \in (E!Done)' PROVE typed'[sent'[m].day].source = "manual"
        <3>1. CASE sent[m].day = day
            BY <2>2, <3>1
        <3>2. CASE sent[m].day # day
            <4>1. m \in E!Done /\ typed[sent[m].day].source = "manual"
                BY <1>1, <2>2, <3>2 DEF FormInv, RowsKept
            <4> QED BY <1>3, <3>2, <4>1
        <3> QED BY <3>1, <3>2
    <2> QED BY <2>1, <2>2 DEF RowsKept, E!Days, E!NoRow
<1>8. E!DaysAsTyped'
    <2>1. ASSUME NEW m \in (E!Done)', (E!IsLast(m))'
          PROVE  \/ sent'[m].day > PageToday /\ typed'[sent'[m].day] = E!NoRow
                 \/ typed'[sent'[m].day] = [bytes |-> (E!Owed(m))', source |-> "manual"]
                 \/ ~replace' /\ typed'[sent'[m].day].source = "agent"
        <3>1. CASE m = n
            <4>1. day > PageToday => typed'[day] = E!NoRow
                BY DEF FormInv, RowsKept
            <4> QED BY <1>9, <3>1, <4>1
        <3>2. CASE m # n
            <4>1. m \in E!Done /\ m < n /\ m \in Nat
                BY <1>1, <3>2
            <4>2. sent[m].day # day
                BY <1>1, <2>1, <4>1 DEF E!IsLast
            <4>3. E!IsLast(m)
                BY <1>1, <2>1, <4>1 DEF E!IsLast
            <4>4. typed'[sent[m].day] = typed[sent[m].day]
                BY <1>3, <4>1, <4>2
            <4>5. \/ sent[m].day > PageToday /\ typed[sent[m].day] = E!NoRow
                  \/ typed[sent[m].day] = [bytes |-> E!Owed(m), source |-> "manual"]
                  \/ ~replace /\ typed[sent[m].day].source = "agent"
                BY <4>1, <4>3 DEF FormInv, E!DaysAsTyped
            <4> QED BY <1>9, <4>4, <4>5
        <3> QED BY <3>1, <3>2
    <2>2. ASSUME sent' # E!Nothing, NEW d \in E!Days, d \notin (E!DaysOf(E!Done))'
          PROVE  typed'[d] = before'[d] \/ typed'[d].source = "agent"
        <3>1. d # day /\ d \notin E!DaysOf(E!Done)
            BY <1>1, <2>2 DEF E!DaysOf
        <3>2. typed[d] = before[d] \/ typed[d].source = "agent"
            BY <2>2, <3>1 DEF FormInv, E!DaysAsTyped
        <3> QED BY <3>1, <3>2
    <2> QED BY <2>1, <2>2 DEF E!DaysAsTyped, E!Days, E!NoRow, E!Nothing
<1> QED BY <1>4, <1>5, <1>6, <1>7, <1>8 DEF FormInv

LEMMA SkipKeeps == ASSUME E!BackfillAssumption, FormInv, NEW n \in left, E!Skip(n) PROVE FormInv'
<1> DEFINE day == sent[n].day
<1>1. /\ E!Turn(n) /\ day # MissingDay /\ (day > PageToday \/ E!Protected(day))
      /\ reply' = [reply EXCEPT !.skipped = @ + 1] /\ left' = left \ {n}
      /\ UNCHANGED <<text, unit, replace, typed, counts, sent, before>>
    BY DEF E!Skip
<1>2. day \in E!Days
    BY <1>1, TurnIs
<1>3. /\ typed \in [E!Days -> [bytes : Nat, source : {"none", "manual", "agent"}]]
      /\ reply \in [state : {"none", "busy", "failed", "done"}, added : Nat, updated : Nat, skipped : Nat]
    BY DEF FormInv, FormTyped
<1>4. /\ reply' \in [state : {"none", "busy", "failed", "done"}, added : Nat, updated : Nat, skipped : Nat]
      /\ reply'.state = reply.state /\ reply'.skipped # 0
      /\ reply'.added + reply'.updated + reply'.skipped = reply.added + reply.updated + reply.skipped + 1
    BY <1>1, <1>3
<1>5. day > PageToday \/ (~replace /\ typed'[day].source = "agent")
    BY <1>1 DEF E!Protected
<1> QED BY <1>1, <1>2, <1>3, <1>4, <1>5, GoneThrough

LEMMA StoreRowKeeps == ASSUME E!BackfillAssumption, FormInv, NEW n \in left, E!StoreRow(n) PROVE FormInv'
<1> DEFINE day == sent[n].day
           row == [bytes |-> E!Stored(sent[n].bytes), source |-> "manual"]
<1>1. /\ E!Turn(n) /\ day # MissingDay /\ day <= PageToday
      /\ typed' = [typed EXCEPT ![day] = row] /\ left' = left \ {n}
      /\ \/ reply' = [reply EXCEPT !.added = @ + 1]
         \/ reply' = [reply EXCEPT !.updated = @ + 1]
      /\ UNCHANGED <<text, unit, replace, counts, sent, before>>
    BY DEF E!StoreRow
<1>2. day \in E!Days /\ sent[n].bytes \in Int
    BY <1>1, TurnIs
<1>3. /\ typed \in [E!Days -> [bytes : Nat, source : {"none", "manual", "agent"}]]
      /\ reply \in [state : {"none", "busy", "failed", "done"}, added : Nat, updated : Nat, skipped : Nat]
    BY DEF FormInv, FormTyped
<1>4. /\ reply' \in [state : {"none", "busy", "failed", "done"}, added : Nat, updated : Nat, skipped : Nat]
      /\ reply'.state = reply.state /\ reply'.skipped = reply.skipped
      /\ reply'.added + reply'.updated + reply'.skipped = reply.added + reply.updated + reply.skipped + 1
    BY <1>1, <1>3
<1>5. row \in [bytes : Nat, source : {"none", "manual", "agent"}] /\ row = [bytes |-> E!Owed(n), source |-> "manual"]
    BY <1>2 DEF E!Stored, E!Owed
<1> HIDE DEF row
<1>6. /\ typed' \in [E!Days -> [bytes : Nat, source : {"none", "manual", "agent"}]]
      /\ typed'[day] = row /\ \A d \in E!Days : d # day => typed'[d] = typed[d]
    BY <1>1, <1>2, <1>3, <1>5
<1>7. \A d \in E!Days : d > PageToday => typed'[d] = typed[d]
    <2>1. day \in Nat /\ PageToday \in Nat
        BY <1>2 DEF E!Days, E!BackfillAssumption
    <2>2. \A d \in E!Days : d > PageToday => d # day
        BY <1>1, <2>1
    <2> QED BY <1>6, <2>2
<1>8. typed'[day] = [bytes |-> E!Owed(n), source |-> "manual"] /\ typed'[day].source = "manual"
    BY <1>5, <1>6
<1> QED BY <1>1, <1>2, <1>4, <1>6, <1>7, <1>8, GoneThrough

(* What the roll-up writes is no day to come, and no day typed in.         *)
LEMMA MeasureKeeps == ASSUME E!BackfillAssumption, FormInv, NEW day \in E!Days, E!Measure(day) PROVE FormInv'
<1> DEFINE row == [bytes |-> 1, source |-> "agent"]
<1>1. /\ day <= PageToday /\ typed[day].source \in {"none", "agent"} /\ typed' = [typed EXCEPT ![day] = row]
      /\ UNCHANGED <<text, unit, replace, left, reply, sent, before>>
    BY DEF E!Measure, E!Measured
<1>2. typed \in [E!Days -> [bytes : Nat, source : {"none", "manual", "agent"}]]
    BY DEF FormInv, FormTyped
<1>3. row \in [bytes : Nat, source : {"none", "manual", "agent"}] /\ row.source = "agent"
    OBVIOUS
<1> HIDE DEF row
<1>4. /\ typed' \in [E!Days -> [bytes : Nat, source : {"none", "manual", "agent"}]]
      /\ typed'[day].source = "agent" /\ \A d \in E!Days : d # day => typed'[d] = typed[d]
    BY <1>1, <1>2, <1>3
<1>5. \A d \in E!Days : d > PageToday => d # day
    BY <1>1 DEF E!Days, E!BackfillAssumption
<1>6. \A n \in E!Done : sent[n].day \in E!Days
    BY DEF FormInv, LinesCounted
<1>7. (E!Done)' = E!Done /\ \A n : (E!Owed(n))' = E!Owed(n)
    BY <1>1 DEF E!Done, E!Owed
<1>8. FormTyped'
    BY <1>1, <1>4 DEF FormInv, FormTyped, E!Lines, E!Days
<1>9. SentIsRead' /\ LinesCounted'
    BY <1>1, <1>7 DEF FormInv, SentIsRead, LinesCounted, E!Valid, E!Parsed, E!Restrict, E!Bytes, E!Nothing, E!Days
<1>10. RowsKept'
    <2>1. \A d \in E!Days : d > PageToday => typed'[d] = E!NoRow
        BY <1>4, <1>5 DEF FormInv, RowsKept
    <2>2. ASSUME reply.skipped = 0, NEW n \in E!Done PROVE typed'[sent[n].day].source = "manual"
        <3>1. typed[sent[n].day].source = "manual"
            BY <2>2 DEF FormInv, RowsKept
        <3>2. sent[n].day # day
            BY <1>1, <3>1
        <3> QED BY <1>4, <1>6, <3>1, <3>2
    <2> QED BY <1>1, <1>7, <2>1, <2>2 DEF RowsKept, E!Days, E!NoRow
<1>11. E!DaysAsTyped'
    <2>1. ASSUME NEW n \in E!Done, E!IsLast(n)
          PROVE  \/ sent[n].day > PageToday /\ typed'[sent[n].day] = E!NoRow
                 \/ typed'[sent[n].day] = [bytes |-> E!Owed(n), source |-> "manual"]
                 \/ ~replace /\ typed'[sent[n].day].source = "agent"
        <3>1. \/ sent[n].day > PageToday /\ typed[sent[n].day] = E!NoRow
              \/ typed[sent[n].day] = [bytes |-> E!Owed(n), source |-> "manual"]
              \/ ~replace /\ typed[sent[n].day].source = "agent"
            BY <2>1 DEF FormInv, E!DaysAsTyped
        <3>2. CASE sent[n].day = day
            <4>1. ~ day > PageToday
                BY <1>5
            <4>2. ~replace
                BY <1>1, <3>1, <3>2, <4>1
            <4> QED BY <1>4, <3>2, <4>2
        <3>3. CASE sent[n].day # day
            BY <1>4, <1>6, <3>1, <3>3
        <3> QED BY <3>2, <3>3
    <2>2. ASSUME sent # E!Nothing, NEW d \in E!Days, d \notin E!DaysOf(E!Done)
          PROVE  typed'[d] = before[d] \/ typed'[d].source = "agent"
        BY <1>4, <2>2 DEF FormInv, E!DaysAsTyped
    <2>3. \A n \in E!Done : (E!IsLast(n))' <=> E!IsLast(n)
        BY <1>1, <1>7 DEF E!IsLast
    <2>4. (E!DaysOf(E!Done))' = E!DaysOf(E!Done)
        BY <1>1, <1>7 DEF E!DaysOf
    <2> QED BY <1>1, <1>7, <2>1, <2>2, <2>3, <2>4 DEF E!DaysAsTyped, E!Days, E!NoRow, E!Nothing
<1> QED BY <1>8, <1>9, <1>10, <1>11 DEF FormInv

(* An answer, or a failure, changes nothing that was stored.               *)
LEMMA AnswerKeeps ==
    ASSUME E!BackfillAssumption, FormInv, UNCHANGED <<text, unit, replace, typed, left, sent, before>>,
           \/ reply' = reply
           \/ reply.state = "busy" /\ reply' = [reply EXCEPT !.state = "failed"]
           \/ reply.state = "busy" /\ left = {} /\ reply' = [reply EXCEPT !.state = "done"]
    PROVE  FormInv'
<1>1. reply \in [state : {"none", "busy", "failed", "done"}, added : Nat, updated : Nat, skipped : Nat]
    BY DEF FormInv, FormTyped
<1>2. /\ reply' \in [state : {"none", "busy", "failed", "done"}, added : Nat, updated : Nat, skipped : Nat]
      /\ reply'.added = reply.added /\ reply'.updated = reply.updated /\ reply'.skipped = reply.skipped
      /\ reply'.state = "none" <=> reply.state = "none"
      /\ reply'.state = "done" => reply.state = "done" \/ left = {}
    BY <1>1
<1>3. (E!Done)' = E!Done
    BY DEF E!Done
<1>4. FormTyped'
    BY <1>2 DEF FormInv, FormTyped, E!Lines, E!Days
<1>5. SentIsRead'
    BY <1>2 DEF FormInv, SentIsRead, E!Valid, E!Parsed, E!Restrict, E!Bytes, E!Nothing
<1>6. LinesCounted' /\ RowsKept'
    BY <1>2, <1>3 DEF FormInv, LinesCounted, RowsKept, E!Days, E!NoRow
<1>7. E!DaysAsTyped'
    BY <1>3 DEF FormInv, E!DaysAsTyped, E!IsLast, E!DaysOf, E!Days, E!NoRow, E!Nothing, E!Done, E!Owed
<1> QED BY <1>4, <1>5, <1>6, <1>7 DEF FormInv

LEMMA NextForm == ASSUME E!BackfillAssumption, FormInv, [E!Next]_E!vars PROVE FormInv'
<1>1. CASE E!Fail \/ E!Answered \/ UNCHANGED E!vars
    BY <1>1, AnswerKeeps DEF E!Fail, E!Answered, E!vars
<1>2. CASE E!Send
    BY <1>2, SendKeeps
<1>3. CASE \E n \in left : E!Skip(n) \/ E!StoreRow(n)
    BY <1>3, SkipKeeps, StoreRowKeeps
<1>4. CASE \E d \in E!Days : E!Measure(d)
    BY <1>4, MeasureKeeps
<1> QED BY <1>1, <1>2, <1>3, <1>4 DEF E!Next

(* For a text of any length, all amounts and units, all days and any       *)
(* number of requests, also of the same text, failed ones and ones during  *)
(* which the roll-up writes: each day has what was typed last for it, or   *)
(* nothing if that was below zero, or what the agent measured where it     *)
(* may; every line is counted once; and what is stored comes to no less    *)
(* than the form had shown, and to just that if nothing was below zero.    *)
THEOREM FormKeepsItsWord == ASSUME E!BackfillAssumption PROVE E!Spec => []E!BackfillHolds
<1>1. E!Init => FormInv
    BY InitForm
<1>2. FormInv /\ [E!Next]_E!vars => FormInv'
    BY NextForm
<1>3. FormInv => E!BackfillHolds
    BY PreviewIsKept DEF FormInv, E!BackfillHolds
<1> QED BY <1>1, <1>2, <1>3, PTL DEF E!Spec
=============================================================================
