-------------------------------- MODULE Diff --------------------------------
(***************************************************************************)
(* The comparison of two versions of a configuration (lib/diff.ts): what   *)
(* is common at both ends is set aside, the rest is compared by the        *)
(* shortest edit of Myers, which searches forward by the number of edits   *)
(* and walks back over what it remembers of each round; the page shows the *)
(* edits with a few lines around them.                                     *)
(***************************************************************************)
EXTENDS Integers, Sequences, FiniteSets, SequencesExt, Functions

CONSTANTS
    Lines,      \* the different lines
    MaxLines,   \* bound: lines of a text
    MaxEdits,   \* MAX_EDITS
    Context     \* lines shown around an edit

DiffAssumption == MaxLines \in Nat /\ MaxEdits \in Nat /\ Context \in Nat

VARIABLES
    a, b,       \* the old and the new text
    pc,         \* "forward", "back", "done"
    d, k,       \* the round: how many edits, and the diagonal
    v,          \* how far in a each diagonal has come
    trace,      \* v at the beginning of each round, of the diagonals -d .. d
    x, y,       \* where the way back is
    ops         \* the edit, from its end while walking back

vars == <<a, b, pc, d, k, v, trace, x, y, ops>>

-----------------------------------------------------------------------------
(* diffLines                                                               *)

Common(s, t) == LET n == IF Len(s) < Len(t) THEN Len(s) ELSE Len(t)
                IN CHOOSE i \in 0 .. n : (\A j \in 1 .. i : s[j] = t[j]) /\ (i = n \/ s[i + 1] # t[i + 1])
Pre == Common(a, b)
Suf == Common(Reverse(SubSeq(a, Pre + 1, Len(a))), Reverse(SubSeq(b, Pre + 1, Len(b))))

\* The middles that are compared.
MidA == SubSeq(a, Pre + 1, Len(a) - Suf)
MidB == SubSeq(b, Pre + 1, Len(b) - Suf)

Op(op, text) == [op |-> op, text |-> text]
Each(op, s) == [i \in DOMAIN s |-> Op(op, s[i])]

\* The whole comparison; the numbers of the lines are counted along.
DiffLines == Each("=", SubSeq(a, 1, Pre)) \o ops \o Each("=", SubSeq(a, Len(a) - Suf + 1, Len(a)))

-----------------------------------------------------------------------------
(* myers                                                                   *)

N == Len(MidA)
M == Len(MidB)
Most == IF N + M < MaxEdits THEN N + M ELSE MaxEdits

\* One side empty: nothing to search.
Init ==
    /\ a \in BoundedSeq(Lines, MaxLines) \ {<<>>} /\ b \in BoundedSeq(Lines, MaxLines) \ {<<>>}
    /\ d = 0 /\ k = 0
    /\ v = [i \in -(Most + 1) .. Most + 1 |-> 0]
    /\ trace = <<>> /\ x = 0 /\ y = 0
    /\ IF N = 0 \/ M = 0
       THEN pc = "done" /\ ops = Each("-", MidA) \o Each("+", MidB)
       ELSE pc = "forward" /\ ops = <<>>

\* Mutant: over one line that agrees, rather than all.
SlideOne(i, j) == IF i < N /\ j < M THEN (IF MidA[i + 1] = MidB[j + 1] THEN i + 1 ELSE i) ELSE i

\* As far as the lines agree.
Slide(i, j) == i + Common(SubSeq(MidA, i + 1, N), SubSeq(MidB, j + 1, M))

\* Whether a line of b is added, rather than one of a removed.
Down(at, e, q) == q = -e \/ (q # e /\ at[q - 1] < at[q + 1])

Remembered == IF k = -d THEN Append(trace, [q \in -d .. d |-> v[q]]) ELSE trace

Forward ==
    /\ pc = "forward"
    /\ LET from == IF Down(v, d, k) THEN v[k + 1] ELSE v[k - 1] + 1
           to == IF from > N \/ from - k > M THEN from ELSE Slide(from, from - k)
       IN /\ v' = [v EXCEPT ![k] = to]
          /\ trace' = Remembered
          /\ IF to >= N /\ to - k >= M
             THEN pc' = "back" /\ x' = N /\ y' = M /\ UNCHANGED <<d, k, ops>>
             ELSE IF k < d THEN k' = k + 2 /\ UNCHANGED <<pc, d, x, y, ops>>
             ELSE IF d < Most THEN d' = d + 1 /\ k' = -(d + 1) /\ UNCHANGED <<pc, x, y, ops>>
             ELSE \* too different: all of one, then all of the other
                  /\ pc' = "done" /\ ops' = Each("-", MidA) \o Each("+", MidB)
                  /\ UNCHANGED <<d, k, x, y>>
    /\ UNCHANGED <<a, b>>

\* One round back: the lines that agree, then the edit before them.
Back ==
    /\ pc = "back" /\ d > 0
    /\ LET at == trace[d + 1]
           q == x - y
           down == Down(at, d, q)
           px == at[IF down THEN q + 1 ELSE q - 1]
           py == px - (IF down THEN q + 1 ELSE q - 1)
           sx == IF down THEN px ELSE px + 1
           sy == IF down THEN py + 1 ELSE py
           slid == IF x > sx /\ y > sy THEN (IF x - sx < y - sy THEN x - sx ELSE y - sy) ELSE 0
       IN /\ ops' = <<IF down THEN Op("+", MidB[y - slid]) ELSE Op("-", MidA[x - slid])>>
                       \o Each("=", SubSeq(MidA, x - slid + 1, x)) \o ops
          /\ x' = (IF down THEN x - slid ELSE x - slid - 1)
          /\ y' = (IF down THEN y - slid - 1 ELSE y - slid)
    /\ d' = d - 1
    /\ UNCHANGED <<a, b, pc, k, v, trace>>

\* No edit is left, only lines that agree.
BackToStart ==
    /\ pc = "back" /\ d = 0
    /\ ops' = Each("=", SubSeq(MidA, 1, IF x < y THEN x ELSE y)) \o ops
    /\ pc' = "done"
    /\ UNCHANGED <<a, b, d, k, v, trace, x, y>>

Next == Forward \/ Back \/ BackToStart

Spec == Init /\ [][Next]_vars

-----------------------------------------------------------------------------
(* diffHunks                                                               *)

Keep == {i \in DOMAIN DiffLines : \E j \in DOMAIN DiffLines : DiffLines[j].op # "=" /\ j - i \in -Context .. Context}

\* A hunk begins where a line is shown and the one before it is not.
Begins == {i \in Keep : i - 1 \notin Keep}
Hunk(i) == {j \in Keep : j >= i /\ i .. j \subseteq Keep}
SkippedBefore(i) == Cardinality({j \in 1 .. i - 1 : j \notin Keep /\ \A h \in Begins : h < i => h < j})
SkippedAfter == Cardinality({j \in DOMAIN DiffLines : j \notin Keep /\ \A h \in Keep : h < j})

-----------------------------------------------------------------------------
Side(op) == LET own == SelectSeq(DiffLines, LAMBDA l : l.op \in {"=", op}) IN [i \in DOMAIN own |-> own[i].text]
Edits == Cardinality({i \in DOMAIN ops : ops[i].op # "="})

\* Lines of the longest common subsequence.
Subsequences(s) == {LET at == SetToSortSeq(I, <) IN [i \in DOMAIN at |-> s[at[i]]] : I \in SUBSET DOMAIN s}
Shortest == N + M - 2 * Max({Len(s) : s \in Subsequences(MidA) \intersect Subsequences(MidB)})

\* The comparison contains the old text and the new one, each whole and in order; it is
\* the shortest there is unless that is beyond MaxEdits; and the hunks account,
\* with the lines they skip, for every line.
DiffIsRight ==
    pc = "done" =>
        /\ Side("-") = a /\ Side("+") = b
        /\ Shortest <= MaxEdits => Edits = Shortest
        /\ SkippedAfter + FoldFunction(+, 0, [i \in Begins |-> SkippedBefore(i) + Cardinality(Hunk(i))]) = Len(DiffLines)

=============================================================================
