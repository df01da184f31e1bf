----------------------------- MODULE Statistics -----------------------------
(***************************************************************************)
(* summary_stats of mqtt.c: the samples are sorted, DROP_RATIO percent are *)
(* dropped at each end, and mean and standard deviation of the rest are    *)
(* computed, in the machine's arithmetic.                                  *)
(*                                                                         *)
(* A word has Width bits instead of 32; acc, of 64 bits, does not overflow.*)
(***************************************************************************)
EXTENDS Integers, Sequences, SequencesExt, FiniteSetsExt

CONSTANTS
    Width,       \* bits of a uint32_t and of an int
    Samples,     \* round-trip times that are recorded
    MaxIter,     \* bound: MAX_ITER
    DropRatios   \* values given for --drop-ratio

ASSUME StatisticsAssumption ==
    /\ Width \in Nat \ {0} /\ MaxIter \in Nat
    /\ Samples \subseteq 0..(2 ^ Width - 1)
    /\ DropRatios \subseteq 0..100

VARIABLES
    MAX_ITER, DROP_RATIO,  \* the arguments
    rtt_ts,                \* the samples, as recorded by msgarrvd
    recorded,              \* a copy of them, for the properties
    acc, mean, std_dev,
    pc                     \* next part of summary_stats

vars == <<MAX_ITER, DROP_RATIO, rtt_ts, recorded, acc, mean, std_dev, pc>>

Word(n) == n % 2 ^ Width

\* A word read as an int.
Signed(n) == IF n < 2 ^ (Width - 1) THEN n ELSE n - 2 ^ Width

Init ==
    /\ MAX_ITER \in 0..MaxIter /\ DROP_RATIO \in DropRatios
    /\ rtt_ts \in [1..MAX_ITER -> Samples]
    /\ recorded = rtt_ts
    /\ acc = 0 /\ mean = 0 /\ std_dev = 0
    /\ pc = "sort"

\* DROP_IDX
\* Mutant: rounded up.
DropIdxUp(n) == (n * DROP_RATIO + 99) \div 100
DropIdx(n) == (n * DROP_RATIO) \div 100

\* The indexes of the loops: idx <= i < MAX_ITER - idx, counted from 1.
\* Mutant: the last one too.
KeptOneMore == (DropIdx(MAX_ITER) + 1)..Min({MAX_ITER - DropIdx(MAX_ITER) + 1, MAX_ITER})
Kept == (DropIdx(MAX_ITER) + 1)..(MAX_ITER - DropIdx(MAX_ITER))

CmpFunc(a, b) == Signed(a) - Signed(b)
Overflows(a, b) == CmpFunc(a, b) \notin -(2 ^ (Width - 1))..(2 ^ (Width - 1) - 1)

Rearranged(s) ==
    {[i \in DOMAIN s |-> s[p[i]]] :
        p \in {q \in [DOMAIN s -> DOMAIN s] : \A i, j \in DOMAIN s : q[i] = q[j] => i = j}}

\* qsort.  With an overflow the comparison, and with it the order, is undefined.
Sort ==
    /\ pc = "sort"
    /\ rtt_ts' \in
          IF \E i, j \in DOMAIN rtt_ts : Overflows(rtt_ts[i], rtt_ts[j])
          THEN Rearranged(rtt_ts)
          ELSE {SortSeq(rtt_ts, LAMBDA a, b : CmpFunc(a, b) < 0)}
    /\ pc' = "mean"
    /\ UNCHANGED <<MAX_ITER, DROP_RATIO, recorded, acc, mean, std_dev>>

SumOver(Value(_)) == MapThenSumSet(LAMBDA i : Value(rtt_ts[i]), Kept)

\* The mean; a division by zero ends the process.
Mean ==
    /\ pc = "mean"
    /\ IF Kept = {}
       THEN pc' = "killed" /\ UNCHANGED <<acc, mean>>
       ELSE /\ acc' = 0
            /\ mean' = Word(SumOver(LAMBDA x : x) \div Cardinality(Kept))
            /\ pc' = "deviation"
    /\ UNCHANGED <<MAX_ITER, DROP_RATIO, rtt_ts, recorded, std_dev>>

\* The square of a difference, both of them words.
\* Mutant: the difference is not squared.
SquareForgotten(x) == Word(x - mean)
Square(x) == Word(Word(x - mean) * Word(x - mean))

\* (uint32_t)(sqrt(n))
SquareRoot(n) == Max({r \in 0..n : r * r <= n})

Deviation ==
    /\ pc = "deviation"
    /\ acc' = acc + SumOver(Square)
    /\ std_dev' = SquareRoot(acc' \div Cardinality(Kept))
    /\ pc' = "done"
    /\ UNCHANGED <<MAX_ITER, DROP_RATIO, rtt_ts, recorded, mean>>

Next == Sort \/ Mean \/ Deviation

Spec == Init /\ [][Next]_vars

-----------------------------------------------------------------------------
\* The reference: the middle is what remains without the idx samples that have the
\* fewest samples below them and the idx that have the most.

RankOf(s, i) ==
    1 + Cardinality({j \in DOMAIN s : s[j] < s[i] \/ (s[j] = s[i] /\ j < i)})

Middle ==
    LET idx == (MAX_ITER * DROP_RATIO) \div 100
    IN  {i \in DOMAIN recorded : RankOf(recorded, i) \in (idx + 1)..(MAX_ITER - idx)}

MeanOfMiddle == MapThenSumSet(LAMBDA i : recorded[i], Middle) \div Cardinality(Middle)

\* No round-trip time is as long as half the range of a word (about 36 minutes), which
\* also rules out the negative ones of clocks that disagree.
Plausible == \A i \in DOMAIN recorded : recorded[i] < 2 ^ (Width - 1)


\* The mean that is printed is the mean of the middle of the recorded samples.
MeanCorrect ==
    Plausible /\ pc \in {"deviation", "done"} => Middle # {} /\ mean = MeanOfMiddle

\* So is the deviation, while no sample of the middle is 2^(Width/2) or more away from
\* the mean (65 milliseconds): beyond, its square does not fit into a word.
DeviationCorrect ==
    /\ Plausible /\ pc = "done"
    /\ \A i \in Middle : (recorded[i] - MeanOfMiddle) ^ 2 < 2 ^ Width
    => LET squares == MapThenSumSet(LAMBDA i : (recorded[i] - MeanOfMiddle) ^ 2, Middle)
           variance == squares \div Cardinality(Middle)
       IN  std_dev ^ 2 <= variance /\ variance < (std_dev + 1) ^ 2

\* Fewer than half of the samples dropped at each end: something is left to divide by.
NoDivisionByZero == pc = "killed" => MAX_ITER = 0 \/ DROP_RATIO >= 50
=============================================================================
