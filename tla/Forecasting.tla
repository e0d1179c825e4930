---------------------------- MODULE Forecasting ----------------------------
(***************************************************************************)
(* The forecast models of app/forecasting and what the repository says of  *)
(* their accuracy.  A series holds whole numbers; predictions, deviations  *)
(* and confidences are hundredths; quotients and roots are cut.  The       *)
(* regressors of the machine-learning models are scikit-learn's.           *)
(***************************************************************************)
EXTENDS Numbers

ForecastTarget == {"price", "roi", "profit", "inventory", "sales", "buy_box", "competition"}

MaxHorizon == 36

SeriesMean(xs) == Cut(100 * SumOf(xs), Len(xs))

\* series_std: 0 for a single value.
SeriesStd(xs) ==
  LET n == Len(xs)
  IN (10 * Root(100 * (n * SumOf([i \in 1 .. n |-> xs[i] * xs[i]]) - SumOf(xs) * SumOf(xs)))) \div n

\* Twice the sum of the values times the distances of their places from the middle.
Leaning(xs) == SumOf([i \in DOMAIN xs |-> (2 * i - Len(xs) - 1) * xs[i]])

\* The regression line, half steps from the middle: trend_slope times half / 2.
Rise(xs, half) ==
  LET n == Len(xs) IN IF n < 2 THEN 0 ELSE Cut(300 * Leaning(xs) * half, n * (n * n - 1))

Recent(xs, n) == IF Len(xs) >= n THEN SubSeq(xs, Len(xs) - n + 1, Len(xs)) ELSE xs

\* _base: the 95 % interval, and a confidence that falls with the relative deviation.
Result(prediction, std) ==
  [prediction |-> prediction,
   std |-> std,
   lower |-> prediction - (196 * std) \div 100,
   upper |-> prediction + (196 * std) \div 100,
   confidence |-> Clamp(100 - (100 * std) \div Greatest(Abs(prediction), 1), 5, 100)]

\* x, or y where x is 0.
OrElse(x, y) == IF x = 0 THEN y ELSE x
TenthOf(x) == Abs(x) \div 10

MovingAverageModel(xs) ==
  LET recent == Recent(xs, Least(3, Len(xs)))
      std == SeriesStd(recent)
  IN Result(SeriesMean(recent), Root((std * std) \div Len(recent)))

ExponentialSmoothingModel(xs) ==
  Result(FoldLeft(LAMBDA level, v : Cut(3000 * v + 70 * level, 100), 100 * Head(xs), Tail(xs)),
         (5 * SeriesStd(xs)) \div 4)

LinearTrendModel(xs, horizon) ==
  LET n == Len(xs)
      ahead == n - 1 + 2 * horizon
      prediction == SeriesMean(xs) + Rise(xs, ahead)
      residuals == [i \in 1 .. n |-> Cut(100 * xs[i] - SeriesMean(xs) - Rise(xs, 2 * i - n - 1), 10)]
      spread == OrElse(SeriesStd(residuals) \div 10, TenthOf(prediction))
  IN Result(prediction,
            IF n = 1 THEN Least(10000000, 31623 * horizon * spread)  \* the sum of squares counts as 1e-9
            ELSE (spread * Root(10000 + 10000 \div n + (30000 * ahead * ahead) \div (n * (n * n - 1)))) \div 100)

SeasonalAverageModel(xs, period) ==
  LET cycle == Recent(xs, period)
  IN Result(SeriesMean(cycle), OrElse(SeriesStd(cycle), SeriesStd(xs) \div 2))

PersistenceModel(xs) == Result(100 * Last(xs), OrElse(SeriesStd(xs), TenthOf(100 * Last(xs))))

\* LLMReasoningModel: the trend, a tenth up for a promotion and down for a disruption.
LLMReasoningModel(xs, horizon, flags) ==
  LET trend == SeriesMean(xs) + Rise(xs, 2 * horizon)
      lifted == IF "promotion_expected" \in flags THEN Cut(110 * trend, 100) ELSE trend
      prediction == IF "supply_disruption" \in flags THEN Cut(90 * lifted, 100) ELSE lifted
  IN Result(prediction, Root(SeriesStd(xs) * SeriesStd(xs) * horizon))

\* _lag_dataset: each value with those before it.
LagDataset(xs, lag) == {<<SubSeq(xs, t - lag, t - 1), xs[t]>> : t \in lag + 1 .. Len(xs)}

\* _lag_forecast: each prediction is the last of the next window.
LagForecast(Regressor(_, _), xs, horizon, lag) ==
  LET l == IF Len(xs) < lag + 1 THEN Greatest(1, Len(xs) - 1) ELSE lag
      dataset == LagDataset(xs, l)
      Next(window, step) == Append(window, Regressor(dataset, Recent(window, l)))
      fitted == FoldLeft(Next, Recent(xs, l), [step \in 1 .. horizon |-> step])
  IN IF dataset = {} THEN PersistenceModel(xs).prediction ELSE 100 * Last(fitted)

-----------------------------------------------------------------------------
\* The members of the ensemble.
Members(xs, horizon, flags) ==
  <<MovingAverageModel(xs), ExponentialSmoothingModel(xs), LinearTrendModel(xs, horizon),
    SeasonalAverageModel(xs, 7), PersistenceModel(xs), LLMReasoningModel(xs, horizon, flags)>>

\* EnsembleModel: each member weighs the inverse of its variance, in thousandths of the
\* surest member's weight.  A member that is certain takes all the weight.
EnsembleModel(members) ==
  LET surest == Min({members[i].std : i \in DOMAIN members})
      Share(std) == IF std = surest THEN 1000 ELSE (1000 * surest) \div std
      weight == [i \in DOMAIN members |-> (Share(members[i].std) * Share(members[i].std)) \div 1000]
      all == SumOf(weight)
      Pooled(field) == Cut(SumOf([i \in DOMAIN members |-> weight[i] * members[i][field]]), all)
      result == Result(Pooled("prediction"), (surest * Root(10000000 \div all)) \div 100)
  IN [result EXCEPT !.confidence = Clamp(Pooled("confidence"), 5, 100)]

\* ForecastingManager.forecast: a row of the store, unless the request is refused.
Forecast(forecasts, request) ==
  IF request.horizon > MaxHorizon \/ request.series = <<>> THEN forecasts
  ELSE Append(forecasts, [target |-> request.target, horizon |-> request.horizon,
                          result |-> EnsembleModel(Members(request.series, request.horizon, request.flags))])

\* record_actual: the same forecast may be given an actual again, and each one counts.
RecordActual(forecasts, actuals, id, value) ==
  IF id \in DOMAIN forecasts THEN Append(actuals, [forecast |-> id, value |-> value]) ELSE actuals

\* accuracy_all, of one target.
Accuracy(forecasts, actuals, target) ==
  LET rows == SelectSeq(actuals, LAMBDA a : forecasts[a.forecast].target = target)
      errors == [i \in DOMAIN rows |-> rows[i].value - forecasts[rows[i].forecast].result.prediction \div 100]
      n == Len(rows)
  IN [count |-> n,
      mae |-> IF n = 0 THEN 0 ELSE SumOf([i \in DOMAIN errors |-> Abs(errors[i])]) \div n,
      rmse |-> IF n = 0 THEN 0 ELSE Root(SumOf([i \in DOMAIN errors |-> errors[i] * errors[i]]) \div n),
      bias |-> IF n = 0 THEN 0 ELSE Cut(SumOf(errors), n)]

-----------------------------------------------------------------------------
\* The ensemble predicts between its members, no less surely than the surest of them, and
\* its interval holds its prediction.
EnsembleBetween(request) ==
  LET members == Members(request.series, request.horizon, request.flags)
      out == EnsembleModel(members)
  IN /\ \E i, j \in DOMAIN members : out.prediction \in members[i].prediction .. members[j].prediction
     /\ \A i \in DOMAIN members : out.std <= members[i].std
     /\ out.prediction \in out.lower .. out.upper /\ out.confidence \in 5 .. 100

\* A regressor that answers with what it has seen forecasts what has been seen, however
\* far its own forecasts are fed back.
LagForecastSeen(request) ==
  LET Seen(dataset, window) ==
        LET like == {d \in dataset : d[1] = window} IN (CHOOSE d \in IF like = {} THEN dataset ELSE like : TRUE)[2]
  IN \E i \in DOMAIN request.series :
       LagForecast(Seen, request.series, request.horizon, 3) = 100 * request.series[i]

\* The errors of a model are ordered: the bias within the mean error, the mean within the
\* root of the squares.
AccuracyOrdered(forecasts, actuals) ==
  \A target \in ForecastTarget :
    LET a == Accuracy(forecasts, actuals, target) IN Abs(a.bias) <= a.mae /\ a.mae <= a.rmse
=============================================================================
