----------------------------- MODULE BenchStats -----------------------------
(***************************************************************************)
(* The statistics of bench/src/lib.rs over the samples of a benchmark, a   *)
(* sequence that is not empty; without samples average divides by zero.    *)
(***************************************************************************)
EXTENDS Naturals, Sequences, FiniteSets
LOCAL INSTANCE SequencesExt
LOCAL INSTANCE Functions

CONSTANT Word   \* 2^64: in a release build sums and squares of u64 wrap around

ASSUME StatsAssumption == Word \in Nat \ {0}

sum(s) == FoldLeft(LAMBDA x, y : (x + y) % Word, 0, s)
average(s) == sum(s) \div Len(s)

Deviation(x, avg) == IF x < avg THEN avg - x ELSE x - avg

(* The largest root that is not too large: sqrt of an f32, which is exact  *)
(* below 2^24, and the cut back to u64.                                    *)
Root(n) == CHOOSE r \in 0..n : r * r <= n /\ (r + 1) * (r + 1) > n

(* Called variance, it is the standard deviation. *)
variance(s) ==
  LET square(x) == (Deviation(x, average(s)) ^ 2) % Word
  IN  Root(sum([i \in DOMAIN s |-> square(s[i])]) \div Len(s))

min(s) == CHOOSE x \in Range(s) : \A y \in Range(s) : x <= y
max(s) == CHOOSE x \in Range(s) : \A y \in Range(s) : y <= x
above_avg(s) == Cardinality({i \in DOMAIN s : s[i] > average(s)})
below_avg(s) == Cardinality({i \in DOMAIN s : s[i] < average(s)})
=============================================================================
