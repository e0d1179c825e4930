------------------------------ MODULE Features ------------------------------
(***************************************************************************)
(* The feature store (app/features): the computers' formulas and what the  *)
(* manager stores, reuses and refreshes.  `signals' is a function from the *)
(* keys that are available; rates are in percent, other signals whole      *)
(* numbers, values in ten-thousandths.                                     *)
(***************************************************************************)
EXTENDS Numbers

One == 10000

\* signals.get(key) or default: a signal that is 0 counts as absent.
Signal(signals, key, default) ==
  IF key \in DOMAIN signals /\ signals[key] # 0 THEN signals[key] ELSE default

History(signals, key) == IF key \in DOMAIN signals THEN signals[key] ELSE <<>>

\* signals.get(key): None or what was given, 0 too.
Raw(signals, key) == IF key \in DOMAIN signals THEN signals[key] ELSE None

Unit(x) == Clamp(x, 0, One)

\* signal_confidence: the share of the required signals that is available.
SignalConfidence(signals, required) ==
  LET available == Cardinality(required \cap DOMAIN signals)
  IN IF required = {} THEN One
     ELSE IF available = 0 THEN 500 ELSE (One * available) \div Cardinality(required)

RequiredSignals ==
  [price_stability_score |-> {"price_history"},
   brand_risk_score |-> {"brand", "brand_risk_indicators", "negative_reviews_rate", "recall_flag"},
   supplier_reliability_score |-> {"supplier_on_time_rate", "supplier_fill_rate", "supplier_rating",
                                   "supplier_incidents"},
   competition_score |-> {"competitor_prices", "list_price", "buy_box_price"},
   buy_box_stability |-> {"buy_box_share", "price_volatility", "win_rate"},
   inventory_health |-> {"stock_level", "reorder_point", "max_stock", "days_of_cover", "turnover_rate"},
   velocity_score |-> {"sales_velocity", "category_avg_velocity"},
   seasonality_score |-> {"monthly_sales"},
   coupon_frequency |-> {"coupon_count", "coupon_window_days"},
   restock_probability |-> {"stock_level", "sales_velocity", "lead_time_days", "reorder_point", "demand_std"},
   expected_margin |-> {"sell_price", "cost", "fees_pct", "holding_cost"},
   expected_roi |-> {"expected_profit", "invested_capital", "roi"},
   expected_sales |-> {"sales_velocity", "seasonality_factor", "demand_growth_rate", "promotion_effect"},
   expected_turnover |-> {"annual_sales_qty", "avg_inventory_qty"}]

-----------------------------------------------------------------------------
PriceStabilityScore(signals) ==
  LET h == History(signals, "price_history")
      n == Len(h)
      spread == n * SumOf([i \in 1 .. n |-> h[i] * h[i]]) - SumOf(h) * SumOf(h)
  IN IF n < 2 \/ SumOf(h) <= 0 THEN One ELSE Unit(One - (100 * Root(One * spread)) \div SumOf(h))

BrandRiskScore(signals) ==
  Unit(500 + 2000 * Len(History(signals, "brand_risk_indicators"))
           + 15 * Signal(signals, "negative_reviews_rate", 0)
           + IF Signal(signals, "recall_flag", 0) = 0 THEN 0 ELSE 3000)

\* The rating is in tenths of a star.
SupplierReliabilityScore(signals) ==
  Unit(40 * Signal(signals, "supplier_on_time_rate", 90) + 30 * Signal(signals, "supplier_fill_rate", 90)
         + 60 * Signal(signals, "supplier_rating", 40) - 1000 * Signal(signals, "supplier_incidents", 0))

CompetitionScore(signals) ==
  LET list == Signal(signals, "list_price", 0)
      box == Signal(signals, "buy_box_price", 0)
      pressure == IF list > 0 /\ box # 0 THEN Unit((One * (list - box)) \div list) ELSE One \div 2
  IN (3 * Least(One, 1000 * Len(History(signals, "competitor_prices"))) + 7 * pressure) \div 10

BuyBoxStability(signals) ==
  Unit(50 * Signal(signals, "buy_box_share", 50) + 30 * (100 - Signal(signals, "price_volatility", 50))
         + 20 * Signal(signals, "win_rate", 50))

\* 1 inside [1.5 * reorder point, 0.8 * most], falling off on both sides.
InventoryHealth(signals) ==
  LET stock == 10 * Signal(signals, "stock_level", 0)
      most == Raw(signals, "max_stock")
      low == 15 * Raw(signals, "reorder_point")
      high == 8 * most
  IN IF ~Given(Raw(signals, "reorder_point")) \/ most <= 0 THEN One \div 2
     ELSE IF stock <= low THEN IF low = 0 THEN 0 ELSE Unit((One * stock) \div low)
     ELSE IF stock >= high THEN Unit(One - (One * (stock - high)) \div (2 * most))
     ELSE One

VelocityScore(signals) ==
  LET velocity == Signal(signals, "sales_velocity", 0)
      average == Signal(signals, "category_avg_velocity", 0)
  IN IF average = 0 THEN IF velocity = 0 THEN One \div 2 ELSE One
     ELSE Unit((One * velocity) \div (2 * average))

SeasonalityScore(signals) ==
  LET sales == History(signals, "monthly_sales")
  IN IF Len(sales) < 2 \/ Max(ToSet(sales)) <= 0 THEN 0
     ELSE Unit(One - (One * Min(ToSet(sales))) \div Max(ToSet(sales)))

CouponFrequency(signals) ==
  (30 * One * Signal(signals, "coupon_count", 0)) \div Greatest(Signal(signals, "coupon_window_days", 30), 1)

\* 1 / (1 + exp(z)) for whole z from -3 to 3.
Logistic == <<9526, 8808, 7311, 5000, 2689, 1192, 474>>

RestockProbability(signals) ==
  LET stock == Signal(signals, "stock_level", 0)
      lead == Signal(signals, "lead_time_days", 0)
      use == Signal(signals, "sales_velocity", 0) * lead
      deviation == Signal(signals, "demand_std", 0)
      spread == IF deviation # 0 THEN deviation * Root(Greatest(lead, 1)) ELSE Greatest(use, 1)
      p == Logistic[4 + Clamp(Cut(stock - use, spread), -3, 3)]
  IN IF stock <= 0 THEN One
     ELSE IF stock <= Raw(signals, "reorder_point") THEN Greatest(p, 6000) ELSE p

ExpectedMargin(signals) ==
  LET sell == Signal(signals, "sell_price", 0)
      left == 100 * sell - 100 * Signal(signals, "cost", 0) - sell * Signal(signals, "fees_pct", 0)
                - 100 * Signal(signals, "holding_cost", 0)
  IN IF sell > 0 THEN Cut(100 * left, sell) ELSE 0

ExpectedROI(signals) ==
  LET capital == Signal(signals, "invested_capital", 0)
  IN IF capital > 0 THEN Cut(One * Signal(signals, "expected_profit", 0), capital)
     ELSE 100 * Signal(signals, "roi", 0)

ExpectedSales(signals) ==
  Cut(Signal(signals, "sales_velocity", 0) * Greatest(Signal(signals, "seasonality_factor", 100), 0)
        * (100 + Signal(signals, "demand_growth_rate", 0)) * (100 + Signal(signals, "promotion_effect", 0)), 100)

ExpectedTurnover(signals) ==
  LET held == Signal(signals, "avg_inventory_qty", 0)
  IN IF held > 0 THEN (One * Signal(signals, "annual_sales_qty", 0)) \div held ELSE 0

\* feature_registry.
Compute(key, signals) ==
  CASE key = "price_stability_score" -> PriceStabilityScore(signals)
    [] key = "brand_risk_score" -> BrandRiskScore(signals)
    [] key = "supplier_reliability_score" -> SupplierReliabilityScore(signals)
    [] key = "competition_score" -> CompetitionScore(signals)
    [] key = "buy_box_stability" -> BuyBoxStability(signals)
    [] key = "inventory_health" -> InventoryHealth(signals)
    [] key = "velocity_score" -> VelocityScore(signals)
    [] key = "seasonality_score" -> SeasonalityScore(signals)
    [] key = "coupon_frequency" -> CouponFrequency(signals)
    [] key = "restock_probability" -> RestockProbability(signals)
    [] key = "expected_margin" -> ExpectedMargin(signals)
    [] key = "expected_roi" -> ExpectedROI(signals)
    [] key = "expected_sales" -> ExpectedSales(signals)
    [] key = "expected_turnover" -> ExpectedTurnover(signals)

\* The features that are shares.
Scores == DOMAIN RequiredSignals
            \ {"coupon_frequency", "expected_margin", "expected_roi", "expected_sales", "expected_turnover"}

Hours(key) ==
  IF key \in {"brand_risk_score", "supplier_reliability_score", "seasonality_score", "expected_turnover"} THEN 24
  ELSE IF key = "coupon_frequency" THEN 12
  ELSE IF key \in {"buy_box_stability", "expected_margin", "expected_roi"} THEN 3 ELSE 6

-----------------------------------------------------------------------------
\* upsert by _compute_and_store: one row for each feature and entity.
ComputeAndStore(store, key, entity, signals, now) ==
  [at \in DOMAIN store \cup {<<key, entity>>} |->
     IF at = <<key, entity>>
       THEN [value |-> Compute(key, signals), confidence |-> SignalConfidence(signals, RequiredSignals[key]),
             staleAfter |-> now + Hours(key)]
       ELSE store[at]]

IsFresh(row, now) == now < row.staleAfter

\* calculate: a fresh row is returned as it is, whatever signals the call brings.
CalculateFeature(store, key, entity, signals, force, now) ==
  IF ~force /\ <<key, entity>> \in DOMAIN store /\ IsFresh(store[<<key, entity>>], now) THEN store
  ELSE ComputeAndStore(store, key, entity, signals, now)

\* calculate_batch, of one entity: no feature reads another's row.
CalculateFeatures(store, keys, entity, signals, force, now) ==
  FoldSet(LAMBDA key, rows : CalculateFeature(rows, key, entity, signals, force, now), store, keys)

-----------------------------------------------------------------------------
\* Whatever signals are missing or zero, a score is a share, and so is its confidence;
\* a row that is served was computed, or is not yet stale.
FeaturesSound(signals, now) ==
  LET keys == DOMAIN RequiredSignals
      first == CalculateFeatures(<<>>, keys, "e", signals, FALSE, 0)
      later == CalculateFeatures(first, keys, "e", signals, FALSE, now)
  IN /\ \A at \in DOMAIN later : at[1] \in Scores => later[at].value \in 0 .. One
     /\ \A at \in DOMAIN later : later[at].confidence \in 500 .. One /\ IsFresh(later[at], now)
     /\ DOMAIN later = DOMAIN first
=============================================================================
