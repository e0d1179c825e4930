----------------------------- MODULE Statistics -----------------------------
(***************************************************************************)
(* What experiments/engine.py says of the variants of an experiment and    *)
(* learning/engine.py of predictions and what became of them.  Values are  *)
(* whole numbers, shares and correlations ten-thousandths.  Tests are at   *)
(* the 5 % level: a p-value below alpha is a statistic above its quantile. *)
(***************************************************************************)
EXTENDS Numbers

One == 10000
Alpha == 5 \* percent

Square(x) == x * x
SumOfSquares(s) == SumOf([i \in DOMAIN s |-> Square(s[i])])
Share(n, d) == IF d = 0 THEN 0 ELSE (One * n) \div d

\* The values of a field where it is given.
Values(items, field) ==
  LET given == SelectSeq(items, LAMBDA o : Given(o[field])) IN [i \in DOMAIN given |-> given[i][field]]

\* assign_variant, of the hash of the seed and the subject.
AssignVariant(hash, variants) == IF variants <= 0 THEN 0 ELSE hash % variants

\* two_proportion_ztest below alpha: z * z > 1.96 * 1.96, in the counts.
ProportionsDiffer(a, n, b, m) ==
  LET all == a + b
  IN /\ n > 0 /\ m > 0 /\ all \notin {0, n + m}
     /\ 625 * Square(a * m - b * n) * (n + m) > 2401 * all * (n + m - all) * n * m

\* The 97.5 % quantile of t_cdf in hundredths, by the whole degrees of freedom.
TCritical(df) == IF df <= 10 THEN <<1271, 431, 319, 278, 258, 245, 237, 231, 227, 223>>[Greatest(df, 1)]
                 ELSE IF df <= 20 THEN 220 ELSE IF df <= 30 THEN 209 ELSE 204

\* Ten times the variance of the mean: _variance over n.
MeanVariance(s, n) ==
  IF Len(s) < 2 THEN 0
  ELSE (10 * (Len(s) * SumOfSquares(s) - Square(SumOf(s)))) \div (Len(s) * (Len(s) - 1) * n)

\* welch_df.
WelchDf(a, n, b, m) ==
  LET spread == Square(a) * (m - 1) + Square(b) * (n - 1)
  IN IF n <= 1 \/ m <= 1 \/ spread = 0 THEN n + m - 2 ELSE (Square(a + b) * (n - 1) * (m - 1)) \div spread

\* welch_ttest below alpha; n and m count the observations, with or without a value.
MeansDiffer(s, n, r, m) ==
  LET a == MeanVariance(s, n)
      b == MeanVariance(r, m)
      difference == Mean(s) - Mean(r)
  IN /\ n >= 2 /\ m >= 2
     /\ IF a + b = 0 THEN difference # 0
        ELSE 10 * Square(100 * difference) > Square(TCritical(WelchDf(a, n, b, m))) * (a + b)

\* confusion_metrics: the i-th prediction meets the i-th truth.
Confusion(predicted, truth) ==
  LET Both(p, t) == Cardinality({i \in 1 .. Least(Len(predicted), Len(truth)) : predicted[i] = p /\ truth[i] = t})
      tp == Both(1, 1)
      fp == Both(1, 0)
      fn == Both(0, 1)
      tn == Both(0, 0)
  IN [tp |-> tp, fp |-> fp, fn |-> fn, tn |-> tn,
      precision |-> Share(tp, tp + fp), recall |-> Share(tp, tp + fn),
      accuracy |-> Share(tp + tn, tp + fp + fn + tn),
      f1 |-> Share(2 * tp, 2 * tp + fp + fn)]

\* variant_stats: the predictions and the truths are filtered each on its own, so one
\* missing value moves the later ones.
VariantStats(observations, variant) ==
  LET items == SelectSeq(observations, LAMBDA o : o.variant = variant)
      predicted == Values(items, "predicted")
      truth == Values(items, "truth")
  IN [key |-> variant,
      n |-> Len(items),
      successes |-> SumOf(Values(items, "outcome")),
      conversion |-> Share(SumOf(Values(items, "outcome")), Len(items)),
      profits |-> Values(items, "profit"),
      compared |-> predicted # <<>> /\ truth # <<>>,
      confusion |-> Confusion(predicted, truth)]

Metrics == {"conversion", "profit", "accuracy", "precision", "recall", "f1"}

\* score_of.
ScoreOf(entry, metric) ==
  IF metric = "conversion" THEN entry.conversion
  ELSE IF metric = "profit" THEN Mean(entry.profits)
  ELSE IF entry.compared THEN entry.confusion[metric] ELSE 0

\* What a confusion metric divides by what.
Counts(entry, metric) ==
  LET c == entry.confusion
  IN IF metric = "accuracy" THEN <<c.tp + c.tn, entry.n>>
     ELSE IF metric = "precision" THEN <<c.tp, c.tp + c.fp>> ELSE <<c.tp, c.tp + c.fn>>


\* _comparison: significantly better than the control.
SignificantlyBetter(entry, control, metric) ==
  /\ ScoreOf(entry, metric) > ScoreOf(control, metric)
  /\ CASE metric = "conversion" -> ProportionsDiffer(entry.successes, entry.n, control.successes, control.n)
       [] metric = "profit" -> MeansDiffer(entry.profits, entry.n, control.profits, control.n)
       [] metric = "f1" -> TRUE
       [] OTHER -> /\ entry.compared /\ control.compared
                   /\ LET a == Counts(entry, metric)
                          b == Counts(control, metric)
                      IN ProportionsDiffer(a[1], a[2], b[1], b[2])

\* determine_winner: the variants in the order of the first observation of each.
Decided(observations, stats, control, metric) ==
  LET keys == DOMAIN stats
      First(k) == Min({i \in DOMAIN observations : observations[i].variant = k})
      candidates == IF control \in keys
                      THEN {k \in keys \ {control} : SignificantlyBetter(stats[k], stats[control], metric)}
                      ELSE {}
      Best(S) == CHOOSE k \in S : \A j \in S : \/ ScoreOf(stats[k], metric) > ScoreOf(stats[j], metric)
                                               \/ ScoreOf(stats[k], metric) = ScoreOf(stats[j], metric)
                                                    /\ First(k) <= First(j)
  IN [winner |-> IF candidates = {} THEN "none" ELSE Best(candidates),
      leading |-> IF keys = {} THEN "none" ELSE IF candidates = {} THEN Best(keys) ELSE Best(candidates)]

StatsOf(observations) ==
  [k \in {observations[i].variant : i \in DOMAIN observations} |-> VariantStats(observations, k)]

DetermineWinner(observations, control, metric) == Decided(observations, StatsOf(observations), control, metric)

\* required_sample_size, of conversions in percent.
RequiredSampleSize(a, b) ==
  LET pool == a + b
      sd == Root(100 * (a * (100 - a) + b * (100 - b)))          \* thousandths
      z == (196 * Root(50 * pool * (200 - pool)) + 84 * sd) \div 1000
  IN IF a = b THEN 0 ELSE (Square(z) + Square(b - a) - 1) \div Square(b - a)

-----------------------------------------------------------------------------
\* Predictions with what became of them: sequences of [actual, pred].
Errors(pairs) == [i \in DOMAIN pairs |-> pairs[i].pred - pairs[i].actual]
Actuals(pairs) == [i \in DOMAIN pairs |-> pairs[i].actual]

Bias(pairs) == IF pairs = <<>> THEN 0 ELSE Cut(100 * SumOf(Errors(pairs)), Len(pairs))
Mae(pairs) == (100 * SumOf([i \in DOMAIN pairs |-> Abs(Errors(pairs)[i])])) \div Greatest(Len(pairs), 1)
Rmse(pairs) == Root((One * SumOfSquares(Errors(pairs))) \div Greatest(Len(pairs), 1))

\* directional_accuracy: on the same side of the mean as the actual.
DirectionalAccuracy(pairs) ==
  LET n == Len(pairs)
      total == SumOf(Actuals(pairs))
      Side(x) == n * x - total
      sided == {i \in 1 .. n : Side(pairs[i].actual) # 0 /\ Side(pairs[i].pred) # 0}
  IN IF n < 2 THEN 0 ELSE IF sided = {} THEN One \div 2
     ELSE Share(Cardinality({i \in sided : (Side(pairs[i].actual) > 0) = (Side(pairs[i].pred) > 0)}),
                Cardinality(sided))

\* pearson.
Pearson(xs, ys) ==
  LET n == Len(xs)
      Spread(s) == n * SumOfSquares(s) - Square(SumOf(s))
      covariance == n * SumOf([i \in 1 .. n |-> xs[i] * ys[i]]) - SumOf(xs) * SumOf(ys)
  IN IF n < 2 \/ Spread(xs) = 0 \/ Spread(ys) = 0 THEN 0
     ELSE Clamp(Cut(One * covariance, Root(Spread(xs) * Spread(ys))), -One, One)

\* rolling_accuracy, of the error alone.
RollingAccuracy(pairs, window) ==
  [i \in DOMAIN pairs |-> Mae(SubSeq(pairs, Greatest(1, i - window + 1), i))]

\* drift: the recent bias moved by a quarter of the scale.
Drifted(pairs, window) ==
  LET n == Len(pairs)
      recent == SubSeq(pairs, Greatest(1, n - window + 1), n)
      actuals == Actuals(pairs)
      deviation == Root(One * (n * SumOfSquares(actuals) - Square(SumOf(actuals)))) \div n
  IN n >= 2 /\ 4 * Abs(Bias(recent) - Bias(pairs)) > Greatest(Abs(Bias(pairs)), deviation)

\* optimize_threshold, of pairs of a score and a label: between two scores, the first that
\* is best by f1, then below and above all.
OptimizeThreshold(pairs) ==
  LET scores == SetToSortSeq({pairs[i][1] : i \in DOMAIN pairs}, <)
      k == Len(scores)
      between == [i \in 1 .. k - 1 |-> scores[i] + scores[i + 1]]  \* twice the threshold
      thresholds == between \o <<2 * scores[1] - 2, 2 * scores[k] + 2>>
      F1(t) == Confusion([i \in DOMAIN pairs |-> IF 2 * pairs[i][1] >= t THEN 1 ELSE 0],
                         [i \in DOMAIN pairs |-> pairs[i][2]]).f1
  IN IF Len(pairs) < 2 THEN [threshold |-> None, score |-> 0]
     ELSE LET best == FirstLeast(thresholds, LAMBDA t : -F1(t)) IN [threshold |-> best, score |-> F1(best)]

\* reweight_feature: in hundredths, a weight that goes with the errors shrinks to a fifth
\* at most, one that goes against them doubles at most.
ReweightFeature(values, errors, weight) ==
  LET factor == Greatest(2000, One - Pearson(values, errors))
  IN Greatest(5, Least((weight * factor) \div One, 2 * weight))

\* _severity: the mean error over the greater of itself and the bias, so six tenths
\* wherever there is an error.
Severity(pairs) ==
  LET scale == Greatest(Abs(Bias(pairs)), Mae(pairs))
  IN (IF scale = 0 THEN 0 ELSE (6000 * Mae(pairs)) \div scale) + (4 * (One - DirectionalAccuracy(pairs))) \div 10

\* The mode of an issue: a bias of a fifth of the scale, or none.
Mode(pairs) ==
  LET scale == Greatest(Abs(Bias(pairs)), Mae(pairs))
  IN IF 5 * Bias(pairs) > scale THEN "over" ELSE IF 5 * Bias(pairs) < -scale THEN "under" ELSE "degraded"

\* scan_issues: groups of predictions by decision, with at least five samples.
ScanIssues(groups) ==
  LET bad == Filter(groups, LAMBDA g : Len(g.pairs) >= 5 /\ Severity(g.pairs) >= 4000)
      found == [i \in DOMAIN bad |-> [id |-> bad[i].id, severity |-> Severity(bad[i].pairs), mode |-> Mode(bad[i].pairs)]]
  IN Ranked(found, LAMBDA issue : issue.severity)

-----------------------------------------------------------------------------
\* A winner beats the control on the metric, and leads; the control never wins.
WinnerBeatsControl(observations, control) ==
  \A metric \in Metrics : \A result \in {DetermineWinner(observations, control, metric)} :
    LET Of(k) == ScoreOf(VariantStats(observations, k), metric)
    IN result.winner # "none" => result.winner # control /\ Of(result.winner) > Of(control)
                                   /\ result.leading = result.winner

\* The figures of one set of predictions agree with each other.
AccuracyConsistent(pairs) ==
  /\ Abs(Bias(pairs)) <= Mae(pairs) /\ Mae(pairs) <= Rmse(pairs) + 1
  /\ DirectionalAccuracy(pairs) \in 0 .. One
  /\ Abs(Pearson(Actuals(pairs), Errors(pairs))) <= One
  /\ ReweightFeature(Actuals(pairs), Errors(pairs), 100) \in 5 .. 200
  /\ Severity(pairs) \in 0 .. One
  /\ pairs # <<>> => Last(RollingAccuracy(pairs, Len(pairs))) = Mae(pairs)
  /\ Drifted(pairs, 3) => Cardinality(ToSet(Errors(pairs))) > 1
  /\ \A issue \in ToSet(ScanIssues(<<[id |-> 1, pairs |-> pairs]>>)) :
       issue.severity >= 4000 /\ Mae(pairs) > 0 /\ (issue.mode = "over" => Bias(pairs) > 0)

\* The threshold found is as good as that of any score seen, and an effect twice as large
\* needs no more samples.
ChoicesBest(pairs, a, b) ==
  LET labelled == [i \in DOMAIN pairs |-> <<pairs[i].pred, IF pairs[i].actual > 4 THEN 1 ELSE 0>>]
  IN /\ \A k \in DOMAIN pairs :
          Len(pairs) > 1 => OptimizeThreshold(labelled).score >=
            Confusion([i \in DOMAIN pairs |-> IF pairs[i].pred >= pairs[k].pred THEN 1 ELSE 0],
                      [i \in DOMAIN pairs |-> labelled[i][2]]).f1
     /\ RequiredSampleSize(a, a + 2 * b) <= RequiredSampleSize(a, a + b)
     /\ RequiredSampleSize(a, a + b) = RequiredSampleSize(a + b, a)
=============================================================================
