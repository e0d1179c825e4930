------------------------------ MODULE Sourcing ------------------------------
(***************************************************************************)
(* SourcingEngine (app/sourcing/engine.py) with the default rules          *)
(* (rules.py) and SourcingConfig (models.py): what the latest facts of a   *)
(* product are worth.  Prices are in cents, scores in ten-thousandths, so  *)
(* a total score of 100.00 is 10000.  How the texts are worded is left out.*)
(***************************************************************************)
EXTENDS Numbers

Profits == INSTANCE Profit

SourcingWeights ==
  [roi |-> 25, profit |-> 20, sales |-> 15, competition |-> 15, buyBox |-> 10, price |-> 8, inventory |-> 7]

SourcingConfig ==
  [minRoi |-> 2000, targetRoi |-> 5000,          \* hundredths of a percent
   minProfit |-> 200, targetProfit |-> 1000,     \* cents
   minSales |-> 300, targetSales |-> 2000,
   minSellers |-> 1, targetSellers |-> 5, maxSellers |-> 20, maxFba |-> 70,
   minWinRate |-> 60, targetWinRate |-> 95, maxVolatility |-> 15,
   minDays |-> 30, targetDays |-> 90,
   minScore |-> 4000, criticalThreshold |-> 1]

Severity ==
  [r \in DOMAIN SourcingWeights |->
     IF r \in {"roi", "profit"} THEN "critical" ELSE IF r \in {"buyBox", "price"} THEN "minor" ELSE "major"]

\* DEFAULT_RULES, in their order.
Rules == <<"roi", "profit", "sales", "competition", "buyBox", "price", "inventory">>

-----------------------------------------------------------------------------
\* _gather_data: the buy-box win rate is a constant, whatever the history says.
GatherData(facts) ==
  [price |-> Or(facts.price, 0),
   cost |-> IF facts.suppliers = {} THEN 0 ELSE Min(facts.suppliers),
   fulfillment |-> facts.fulfillment,
   sellers |-> facts.sellers, fba |-> facts.fba,
   sales |-> facts.sales,
   days |-> IF facts.daily > 0 /\ facts.available > 0 THEN facts.available \div facts.daily ELSE 0,
   volatility |-> facts.volatility,              \* whole percents
   winRate |-> 50,
   points |-> facts.points]

\* _calculate_profit.
CalculateProfit(data) ==
  IF data.price <= 0 \/ data.cost <= 0 THEN [net |-> 0, roi |-> 0]
  ELSE Profits!Calculate(
         [price |-> data.price, cost |-> data.cost, qty |-> 1, discount |-> 0,
          percent |-> None, min |-> None, fulfillment |-> data.fulfillment, storage |-> None,
          closing |-> 0, shipping |-> 0, prep |-> 0, other |-> 0, tax |-> 0, coupon |-> 0,
          cashback |-> 0, rewards |-> 0, capital |-> None], Profits!NoCategory)

\* Mutant of NormalizeScore: the half that the minimum is worth is forgotten above it.
NormalizeFromMinimum(actual, minimum, target) ==
  IF actual <= 0 THEN 0
  ELSE IF actual < minimum THEN HalfEven(5000 * actual, minimum)
  ELSE IF actual >= target THEN 10000 ELSE HalfEven(5000 * (actual - minimum), target - minimum)

\* _normalize_score: half the score at the minimum, all of it at the target.
NormalizeScore(actual, minimum, target) ==
  IF actual <= 0 THEN 0
  ELSE IF actual < minimum THEN HalfEven(5000 * actual, minimum)
  ELSE IF actual >= target THEN 10000
  ELSE HalfEven(5000 * (target - minimum) + 5000 * (actual - minimum), target - minimum)

\* CompetitionRule: seven tenths for the number of sellers, three for Amazon's share of them.
FbaAboveLimit(data) == data.sellers > 0 /\ 100 * data.fba > SourcingConfig.maxFba * data.sellers

CompetitionScore(data) ==
  LET c == SourcingConfig
      room == c.maxSellers - c.targetSellers
      left == room - Clamp(data.sellers - c.targetSellers, 0, room)
      count == NormalizeScore(data.sellers, c.minSellers, c.targetSellers)
      all == Greatest(data.sellers, 1)
      share == IF FbaAboveLimit(data) THEN 10 * (data.sellers - data.fba) ELSE 3 * all
  IN HalfEven(7 * count * left * all + 10000 * room * share, 10 * room * all)

RuleScore(r, data, profit) ==
  LET c == SourcingConfig
  IN CASE r = "roi" -> NormalizeScore(profit.roi, c.minRoi, c.targetRoi)
       [] r = "profit" -> NormalizeScore(profit.net, 100 * c.minProfit, 100 * c.targetProfit)
       [] r = "sales" -> NormalizeScore(data.sales, c.minSales, c.targetSales)
       [] r = "competition" -> CompetitionScore(data)
       [] r = "buyBox" -> NormalizeScore(data.winRate, c.minWinRate, c.targetWinRate)
       [] r = "price" -> IF data.volatility >= c.maxVolatility THEN 0
                         ELSE HalfEven(10000 * (c.maxVolatility - data.volatility), c.maxVolatility)
       [] r = "inventory" -> NormalizeScore(data.days, c.minDays, c.targetDays)

RulePassed(r, data, profit) ==
  LET c == SourcingConfig
  IN CASE r = "roi" -> profit.roi >= c.minRoi
       [] r = "profit" -> profit.net >= 100 * c.minProfit
       [] r = "sales" -> data.sales >= c.minSales
       [] r = "competition" -> data.sellers <= c.maxSellers /\ ~FbaAboveLimit(data)
       [] r = "buyBox" -> data.winRate >= c.minWinRate
       [] r = "price" -> data.volatility <= c.maxVolatility
       [] r = "inventory" -> data.days >= c.minDays

Judged(data, profit) ==
  [r \in ToSet(Rules) |-> [score |-> RuleScore(r, data, profit), passed |-> RulePassed(r, data, profit)]]

RuleResults(facts) == Judged(GatherData(facts), CalculateProfit(GatherData(facts)))

\* RuleResult bounds its score: a result outside raises, and the product is dropped.
Scorable(results) == \A r \in DOMAIN results : results[r].score \in 0 .. 10000

-----------------------------------------------------------------------------
Failed(results, severity) == {r \in DOMAIN results : ~results[r].passed /\ Severity[r] = severity}

TotalScore(results) == HalfEven(Total(DOMAIN results, LAMBDA r : results[r].score * SourcingWeights[r]), 100)

IsViable(results) ==
  /\ Cardinality(Failed(results, "critical")) < SourcingConfig.criticalThreshold
  /\ TotalScore(results) >= SourcingConfig.minScore

\* 1 is very high confidence, 5 very low.
DetermineConfidence(points) == FirstReached(points, <<500, 200, 50, 10>>)

\* Mutant of DetermineRisk: the critical rules are not looked at.
DetermineRiskByScore(results) == FirstReached(TotalScore(results), <<8500, 7000, 5000, 3000>>)

\* 1 is very low risk, 5 very high: two failed major rules mean high, even where the
\* score alone means very high.
DetermineRisk(results) ==
  LET base == FirstReached(TotalScore(results), <<8500, 7000, 5000, 3000>>)
      major == Cardinality(Failed(results, "major"))
  IN IF Failed(results, "critical") # {} THEN 5
     ELSE IF major >= 2 THEN 4
     ELSE IF major = 1 THEN Least(base + 1, 5)
     ELSE base

Strengths(results) == Top(SelectSeq(Rules, LAMBDA r : results[r].score >= 8000), 5)
Weaknesses(results) == Top(SelectSeq(Rules, LAMBDA r : results[r].score < 5000), 5)
Recommendations(results) == SelectSeq(Rules, LAMBDA r : ~results[r].passed)

Summary(results) ==
  IF ~IsViable(results) THEN "not viable"
  ELSE IF TotalScore(results) >= 8000 THEN "strong" ELSE IF TotalScore(results) >= 6000 THEN "viable" ELSE "marginal"

DataQuality(points) == FirstReached(points, <<500, 100, 20, 1>>)

\* _evaluate_single, of what the rules said.
Evaluation(facts, results) ==
  [id |-> facts.id, score |-> TotalScore(results), viable |-> IsViable(results),
   risk |-> DetermineRisk(results), confidence |-> DetermineConfidence(facts.points),
   summary |-> Summary(results), strengths |-> Strengths(results), weaknesses |-> Weaknesses(results),
   recommendations |-> Recommendations(results), quality |-> DataQuality(facts.points)]

EvaluateSingle(facts) == Evaluation(facts, RuleResults(facts))

\* A product whose evaluation raises is left out.
Scored(products) ==
  SelectSeq([i \in DOMAIN products |-> [facts |-> products[i], results |-> RuleResults(products[i])]],
            LAMBDA s : Scorable(s.results))

Evaluated(scored) == [i \in DOMAIN scored |-> Evaluation(scored[i].facts, scored[i].results)]
Counted(ranked, viable) ==
  [evaluations |-> ranked, total |-> Len(ranked), viable |-> viable, rejected |-> Len(ranked) - viable]

\* evaluate_products: what is left out is in no count.
EvaluateProducts(products) ==
  LET ranked == Ranked(Evaluated(Scored(products)), LAMBDA e : e.score)
  IN Counted(ranked, Len(SelectSeq(ranked, LAMBDA e : e.viable)))

-----------------------------------------------------------------------------
(***************************************************************************)
(* What a retailer's product page says and what the product is worth to    *)
(* the engine (app/integrations/retailers: providers.py, models.py,        *)
(* service.py).  A value of the payload is a record of its type.           *)
(***************************************************************************)
RetailerProvider == {"walmart", "home_depot"}

\* _to_decimal: a number, or a text that is one but for currency signs.
ToDecimal(v) == IF v.type \in {"number", "text"} THEN v.value ELSE None

\* _to_int: the digits of a text, zero for anything that has none.
ToInt(v) == IF v.type \in {"number", "text"} THEN v.value ELSE 0

\* _price_from_block and _extract_price: a price map first, in which a given price hides
\* the unit price, then the price.
PriceFromBlock(block) ==
  IF block.map # <<>>
    THEN [current |-> ToDecimal(IF block.map[1].price.type = "absent" THEN block.map[1].unit ELSE block.map[1].price),
          original |-> ToDecimal(block.map[1].was)]
    ELSE [current |-> ToDecimal(block.price), original |-> ToDecimal(block.original)]

IsOnSale(price) == Given(price.current) /\ Given(price.original) /\ price.current < price.original
Savings(price) == IF IsOnSale(price) THEN price.original - price.current ELSE None

\* _seller_count: an empty list says nothing, an object its total or how many keys it has.
SellerCount(block) ==
  CASE block.sellers.type = "list" -> IF block.sellers.value = 0 THEN None ELSE block.sellers.value
    [] block.sellers.type = "number" -> block.sellers.value
    [] block.sellers.type = "total" -> ToInt([type |-> "text", value |-> block.sellers.value])
    [] OTHER -> None

\* _availability_in_stock: what speaks against is looked for first, as "unavailable"
\* contains "available".
AvailabilityInStock(availability) ==
  CASE availability \in {"out of stock", "discontinued", "unavailable"} -> 0
    [] availability \in {"available", "in stock"} -> 1
    [] OTHER -> None

\* parse of the two providers: Walmart's word for stock is taken, Home Depot's is read.
Parse(provider, raw) ==
  [provider |-> provider, title |-> raw.title, price |-> PriceFromBlock(raw),
   stock |-> IF provider = "walmart" THEN raw.stock ELSE AvailabilityInStock(raw.availability),
   sellers |-> IF provider = "walmart" THEN SellerCount(raw) ELSE None]

\* to_sourcing_data: without an Amazon price the product is sold for what it costs.
ToSourcingData(product, ask) ==
  LET cost == Or(product.price.current, 0)
  IN [price |-> IF Given(ask.amazon) THEN ask.amazon ELSE cost, cost |-> cost, fulfillment |-> ask.fulfillment,
      sellers |-> Or(product.sellers, 0), fba |-> 0, sales |-> 0, days |-> 0, volatility |-> 0, winRate |-> 50, points |-> 1]

\* score: the rules of the sourcing engine with the same verdict.
Worth(results) == [score |-> TotalScore(results), viable |-> IsViable(results),
                   critical |-> Cardinality(Failed(results, "critical"))]
Score(data) == Worth(Judged(data, CalculateProfit(data)))

FetchAndScore(lookup) == Score(ToSourcingData(Parse(lookup.provider, lookup.raw), lookup.ask))

\* parse_monitor_products: entries of a known retailer that name a product.
ParseMonitorProducts(entries) ==
  SelectSeq(entries, LAMBDA e : e.provider \in RetailerProvider /\ e.id # "")

-----------------------------------------------------------------------------
\* A product that loses a critical rule is neither viable nor below the highest risk,
\* and no rule is both a strength and something to improve but for competition, whose
\* limit and score look at different numbers.
Consistent(e, results) ==
  /\ Failed(results, "critical") # {} => ~e.viable /\ e.risk = 5 /\ e.summary = "not viable"
  /\ ToSet(e.strengths) \cap ToSet(e.recommendations) \subseteq {"competition"}
  /\ e.score \in 0 .. 10000

VerdictsConsistent(scored) == \A i \in DOMAIN scored : Consistent(Evaluated(scored)[i], scored[i].results)

\* Every product that can be scored is in the ranking once, and is viable or rejected.
Complete(out, scored) ==
  /\ IsRanking(out.evaluations, Evaluated(scored), LAMBDA e : e.score)
  /\ out.viable + out.rejected = out.total

RankingSound(out, scored) == Complete(out, scored) /\ VerdictsConsistent(scored)

\* Savings are positive, a count of sellers is never negative, and a product without a
\* price, or without a price to sell it for, is not viable.
LookupSound(lookup) ==
  LET product == Parse(lookup.provider, lookup.raw)
  IN \A out \in {FetchAndScore(lookup)} :
       /\ Given(Savings(product.price)) => Savings(product.price) > 0 /\ product.price.original > Savings(product.price)
       /\ product.sellers >= None
       /\ ~Given(product.price.current) \/ ~Given(lookup.ask.amazon) => ~out.viable /\ out.critical > 0
       /\ out.score \in 0 .. 10000
       /\ \A i \in DOMAIN ParseMonitorProducts(lookup.monitored) : ParseMonitorProducts(lookup.monitored)[i].id # ""
=============================================================================
