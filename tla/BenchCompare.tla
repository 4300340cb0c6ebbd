---------------------------- MODULE BenchCompare ----------------------------
(***************************************************************************)
(* compare: the verdict on two sets of measured values                     *)
(* (src/src/bench/compare.rs).                                             *)
(*                                                                         *)
(* Values are natural numbers.  Fractions of the code are compared after   *)
(* multiplying out: a median is doubled, the deviation from it too, the    *)
(* median of those quadrupled; thresholds are percentages.  The bootstrap  *)
(* intervals only decorate a report and are left out.                      *)
(***************************************************************************)
EXTENDS Integers, Sequences, FiniteSets, FiniteSetsExt, SequencesExt

Sample(index, value) == [index |-> index, value |-> value]

Values(samples) == [i \in DOMAIN samples |-> samples[i].value]

Total(values) == FoldSeq(LAMBDA v, sum : v + sum, 0, values)

Distance(m, n) == IF m >= n THEN m - n ELSE n - m

(* The k-th smallest of a sequence of values. *)
Ranked(values, k) ==
  CHOOSE v \in ToSet(values) :
    /\ Cardinality({i \in DOMAIN values : values[i] < v}) < k
    /\ k <= Cardinality({i \in DOMAIN values : values[i] <= v})

(* exact_quantile(values, 0.5), doubled. *)
TwiceMedian(values) ==
  LET n == Len(values)
  IN  Ranked(values, (n + 1) \div 2) + Ranked(values, n \div 2 + 1)

TwiceDeviations(values) ==
  [i \in DOMAIN values |-> Distance(2 * values[i], TwiceMedian(values))]

(* median_absolute_deviation(values), four times. *)
FourMads(values) == TwiceMedian(TwiceDeviations(values))

-----------------------------------------------------------------------------
(* A policy: [minimum, dispersion, outlier, threshold]; outlier 0 stands for
   no multiplier. *)

ValidPolicy(policy) == policy.minimum >= 2

ValidSamples(samples) ==
  \A i \in 2..Len(samples) : samples[i - 1].index < samples[i].index

(* exclude_outliers *)
Outlying(samples, multiplier, i) ==
  /\ multiplier > 0
  /\ 2 * TwiceDeviations(Values(samples))[i] > multiplier * FourMads(Values(samples))

(* The k-th of some positions, and what is there in their order. *)
Place(positions, k) ==
  CHOOSE i \in positions : Cardinality({j \in positions : j < i}) = k - 1

Picked(samples, positions) ==
  [k \in 1..Cardinality(positions) |-> samples[Place(positions, k)]]

Retained(samples, multiplier) ==
  Picked(samples, {i \in DOMAIN samples : ~Outlying(samples, multiplier, i)})

Excluded(samples, multiplier) ==
  Picked(samples, {i \in DOMAIN samples : Outlying(samples, multiplier, i)})

(* summarize: two values at least. *)
Summarized(samples) == Len(samples) >= 2

TooDispersed(samples, limit) ==
  LET median == TwiceMedian(Values(samples))
      mads   == FourMads(Values(samples))
  IN  IF median = 0 THEN mads > 0 ELSE 100 * mads > limit * 2 * median

(* Mutant: both sides advance whatever the indices. *)
MutPairs(a, b) ==
  [i \in 1..(IF Len(a) <= Len(b) THEN Len(a) ELSE Len(b)) |->
     [index |-> a[i].index, difference |-> b[i].value - a[i].value]]

(* aligned_pair_differences: walk both sides, pairing equal indices. *)
Pairs(a, b) ==
  LET walk[at \in (1..(Len(a) + 1)) \X (1..(Len(b) + 1))] ==
        LET i == at[1]
            j == at[2]
        IN  IF i > Len(a) \/ j > Len(b) THEN <<>>
            ELSE IF a[i].index < b[j].index THEN walk[<<i + 1, j>>]
            ELSE IF a[i].index > b[j].index THEN walk[<<i, j + 1>>]
            ELSE <<[index |-> a[i].index, difference |-> b[j].value - a[i].value]>>
                   \o walk[<<i + 1, j + 1>>]
  IN  walk[<<1, 1>>]

(* The mean of the side in the denominator of the relative regression. *)
Reference(baseline, candidate, direction) ==
  IF direction = "lower" THEN baseline ELSE candidate

Regresses(baseline, candidate, direction, threshold) ==
  LET reference == Reference(baseline, candidate, direction)
      other     == IF reference = baseline THEN candidate ELSE baseline
  IN  100 * Total(Values(other)) * Len(reference)
        > (100 + threshold) * Total(Values(reference)) * Len(other)

(* The reasons why no decision is possible. *)
Reasons(baseline, candidate, compatible, direction, policy) ==
  (IF Len(baseline) < policy.minimum \/ Len(candidate) < policy.minimum
     THEN {"minimum-samples"} ELSE {})
  \cup (IF \E side \in {baseline, candidate} :
             Summarized(side) /\ TooDispersed(side, policy.dispersion)
          THEN {"maximum-relative-dispersion"} ELSE {})
  \cup (IF compatible THEN {} ELSE {"environment-compatibility"})
  \cup (IF Len(Pairs(baseline, candidate)) < policy.minimum THEN {"minimum-pairs"} ELSE {})
  \cup (IF /\ Summarized(baseline) /\ Summarized(candidate)
           /\ Total(Values(Reference(baseline, candidate, direction))) = 0
          THEN {"relative-effect"} ELSE {})

Outcome(baseline, candidate, compatible, direction, policy) ==
  IF Reasons(baseline, candidate, compatible, direction, policy) # {} THEN "inconclusive"
  ELSE IF /\ Summarized(baseline) /\ Summarized(candidate)
          /\ Regresses(baseline, candidate, direction, policy.threshold)
    THEN "fail"
    ELSE "pass"

Admissible(baseline, candidate, policy) ==
  ValidPolicy(policy) /\ ValidSamples(baseline) /\ ValidSamples(candidate)

Report(baseline, candidate, compatible, direction, policy) ==
  LET b == Retained(baseline, policy.outlier)
      c == Retained(candidate, policy.outlier)
  IN  [baseline |-> b,
       candidate |-> c,
       excluded |-> <<Excluded(baseline, policy.outlier), Excluded(candidate, policy.outlier)>>,
       pairs |-> Pairs(b, c),
       outcome |-> Outcome(b, c, compatible, direction, policy)]

-----------------------------------------------------------------------------
(* Laws. *)

(* A pass is earned: the means of two values or more on each side were
   compared, as many indices as the policy asks for were measured on both, and
   no regression beyond the threshold was overlooked for want of a value. *)
PassIsEarned(report, compatible, direction, policy) ==
  report.outcome = "pass" =>
    /\ compatible
    /\ \A side \in {report.baseline, report.candidate} : Len(side) >= 2
    /\ LET indices(samples) == {samples[i].index : i \in DOMAIN samples}
       IN  Cardinality(indices(report.baseline) \cap indices(report.candidate)) >= policy.minimum
    /\ LET worse  == IF direction = "lower" THEN report.candidate ELSE report.baseline
           better == IF direction = "lower" THEN report.baseline ELSE report.candidate
       IN  100 * Total(Values(worse)) * Len(better)
             <= (100 + policy.threshold) * Total(Values(better)) * Len(worse)

(* "Effect over sample-index-aligned pairs" (compare.rs:115): the pairs are the
   indices both sides have, each once, with the difference measured there. *)
PairsAreAligned(report) ==
  LET common == {p \in ToSet(report.baseline) \X ToSet(report.candidate) :
                   p[1].index = p[2].index}
  IN  /\ Len(report.pairs) = Cardinality(common)
      /\ ToSet(report.pairs) =
           {[index |-> p[1].index, difference |-> p[2].value - p[1].value] : p \in common}

(* "Every raw observation excluded by declared policy" (compare.rs:119): a
   multiplier of one or more never excludes more than half of a side. *)
ExclusionIsMild(report, policy) ==
  policy.outlier >= 1 =>
    \A k \in {1, 2} : Len(report.excluded[k]) <= Len(<<report.baseline, report.candidate>>[k])

VerdictIsEarned(baseline, candidate, compatible, direction, policy) ==
  Admissible(baseline, candidate, policy) =>
    LET report == Report(baseline, candidate, compatible, direction, policy)
    IN  /\ PassIsEarned(report, compatible, direction, policy)
        /\ PairsAreAligned(report)
        /\ ExclusionIsMild(report, policy)

=============================================================================
