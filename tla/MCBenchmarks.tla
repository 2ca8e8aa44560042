---------------------------- MODULE MCBenchmarks ---------------------------
(* Instances of Benchmarks for TLC. *)
EXTENDS Benchmarks, BenchStats, TLC

Select(Chosen(_)) == {Benches[i] : i \in {j \in DOMAIN Benches : Chosen(Benches[j])}}
All == Select(LAMBDA b : TRUE)
AllButReal == Select(LAMBDA b : b.name # "list_real")
HpRemove == Select(LAMBDA b : b.variant = "hp" /\ b.name = "list_remove")

Line(s, n) == [selected |-> s, num_threads |-> n]

(* Nothing; all benchmarks by one thread, and by two all but the one with  *)
(* the most states, which two only run on the list of hp; users of the     *)
(* library; and a number of threads that does not divide the elements.     *)
CommandLines ==
  {Line({}, 1), Line(All, 1), Line(AllButReal, 2),
   Line(Select(LAMBDA b : b.variant = "hp" /\ b.name = "list_real"), 2),
   Line(HpRemove, 3)} \cup {Line({u}, 2) : u \in Users}

(* What the statistics should be, as long as nothing wraps around; and     *)
(* deviations whose squares do wrap make the variance small.               *)
Lists(S) == UNION {[1..k -> S] : k \in 1..4}

ASSUME StatsAreBounded ==
  \A s \in Lists(0..5) :
    /\ min(s) <= average(s) /\ average(s) <= max(s)
    /\ variance(s) <= max(s) - min(s)
    /\ min(s) = max(s) => variance(s) = 0 /\ above_avg(s) + below_avg(s) = 0
    /\ above_avg(s) + below_avg(s) <= Len(s)
    /\ above_avg(s) < Len(s) /\ below_avg(s) < Len(s)

ASSUME VarianceWraps ==
  \E x \in 0..Word - 1 : 2 * x < Word /\ x > 0 /\ variance(<<0, 2 * x>>) = 0
=============================================================================
