----------------------------- MODULE Suppliers -----------------------------
(***************************************************************************)
(* What is thought of a supplier and what is bought from whom.  First the  *)
(* supplier scores of app/supplier_intel (scoring.py), from the            *)
(* observations of one supplier in the order of their time: rates, depths  *)
(* and service scores come in percent, amounts and days in whole units.    *)
(* Then who sells a product, at what landed cost, and whom to buy from     *)
(* (app/reverse_sourcing: engine.py, scoring.py, predictor.py,             *)
(* provider.py): money is in cents, and a call to a supplier that raises   *)
(* counts as one that answers nothing: <<>>, or no coupons.  Discounts and *)
(* scores are ten-thousandths; quotients and roots are cut.                *)
(***************************************************************************)
EXTENDS Numbers

\* SupplierObservation.
Observation ==
  [price : Nat, inventory : Nat, variance : Nat, shipping : Nat, cancels : 0 .. 100, service : 0 .. 100,
   returns : 0 .. 100, discount : 0 .. 100, stockouts : Nat, coupons : Nat, sales : Nat]

\* SupplierIntelConfig.
Config ==
  [maxShipping |-> 14, volatilityScale |-> 50, maxCoupons |-> 5, maxSales |-> 5, maxStockouts |-> 3,
   minSamples |-> 8,
   reliability |-> <<20, 20, 20, 15, 15, 10>>, volatility |-> <<30, 30, 20, 20>>,
   discount |-> <<50, 25, 25>>, risk |-> <<25, 20, 20, 10, 15, 10>>]

One == 10000
Unit(x) == Clamp(x, 0, One)

Ratio(n, d) == IF d <= 0 THEN 0 ELSE (One * n) \div d

\* _cv: the population deviation over the mean.
Cv(xs) ==
  LET n == Len(xs)
      total == SumOf(xs)
      spread == n * SumOf([i \in 1 .. n |-> xs[i] * xs[i]]) - total * total
  IN IF n < 2 \/ total = 0 THEN 0 ELSE (100 * Root(10000 * spread)) \div Abs(total)

\* _inverse_ratio of the sum over n samples.
InverseRatio(total, n, most) == Unit(One - Ratio(total, n * most))

Weighted(values, weights) ==
  SumOf([i \in DOMAIN weights |-> values[i] * weights[i]]) \div SumOf(weights)

Confidence(n) == Clamp(Ratio(n, Config.minSamples), 500, One)

\* The sum of squared distances from the mean, in sixtieths.
Squares(xs) ==
  (60 * (Len(xs) * SumOf([i \in DOMAIN xs |-> xs[i] * xs[i]]) - SumOf(xs) * SumOf(xs))) \div Len(xs)

\* What the phase of a period explains of the variance of the series.
Explained(xs, period) ==
  LET Phase(k) == [i \in 1 .. (Len(xs) - k + period - 1) \div period |-> xs[k + 1 + (i - 1) * period]]
      within == SumOf([k \in 1 .. period |-> Squares(Phase(k - 1))])
  IN One - (One * within) \div Squares(xs)

\* _seasonality: the shortest of the best periods.
Seasonality(xs) ==
  LET n == Len(xs)
      periods == {p \in 2 .. n \div 2 : Explained(xs, p) > 0}
      best == Max({Explained(xs, p) : p \in periods})
  IN IF n < 4 THEN [score |-> 0, period |-> None, confidence |-> 500]
     ELSE IF Squares(xs) = 0 THEN [score |-> 0, period |-> None, confidence |-> 6000]
     ELSE IF periods = {} THEN [score |-> 0, period |-> None, confidence |-> Confidence(n)]
     ELSE [score |-> Unit(best), period |-> Min({p \in periods : Explained(xs, p) = best}),
           confidence |-> Confidence(n)]

\* The parts that the scores are made of.
Parts(obs) ==
  LET n == Len(obs)
      Of(field) == [i \in DOMAIN obs |-> obs[i][field]]
      PercentOf(field) == (100 * SumOf(Of(field))) \div n  \* a percentage, in ten-thousandths
      unstable == (Cv(Of("inventory")) + Ratio(SumOf(Of("variance")), SumOf(Of("inventory"))))
      c == Config
  IN [shippingOk |-> InverseRatio(SumOf(Of("shipping")), n, c.maxShipping),
      inventoryOk |-> Unit(One - unstable),
      stockoutOk |-> InverseRatio(SumOf(Of("stockouts")), n, c.maxStockouts),
      cancels |-> PercentOf("cancels"), service |-> PercentOf("service"), returns |-> PercentOf("returns"),
      discount |-> PercentOf("discount"),
      priceSwing |-> Unit(2 * Cv(Of("price"))), inventorySwing |-> Unit(unstable),
      shippingSwing |-> Unit(2 * Cv(Of("shipping"))),
      coupons |-> Unit(Ratio(SumOf(Of("coupons")), n * c.maxCoupons)),
      sales |-> Unit(Ratio(SumOf(Of("sales")), n * c.maxSales))]

\* The scores of a supplier with these parts.
Scores(p, season, n) ==
  LET volatility == Weighted(<<p.priceSwing, p.inventorySwing, p.shippingSwing, One - p.stockoutOk>>,
                             Config.volatility)
  IN [reliability |-> Weighted(<<p.shippingOk, p.inventoryOk, p.stockoutOk, One - p.cancels,
                                 p.service, p.returns>>, Config.reliability),
      volatility |-> volatility,
      discount |-> Weighted(<<p.discount, p.coupons, p.sales>>, Config.discount),
      risk |-> Weighted(<<volatility, One - p.stockoutOk, p.cancels, One - p.shippingOk,
                          One - p.service, One - p.returns>>, Config.risk),
      seasonality |-> season.score, period |-> season.period, confidence |-> Confidence(n)]

\* compute_scores.
ComputeScores(obs) ==
  IF obs = <<>>
    THEN [reliability |-> 0, volatility |-> 0, discount |-> 0, risk |-> 0, seasonality |-> 0,
          period |-> None, confidence |-> 500]
    ELSE Scores(Parts(obs), Seasonality([i \in DOMAIN obs |-> obs[i].price]), Len(obs))

\* What explain says of each score: 1 is the strongest wording.
Explain(scores, n) ==
  [reliability |-> FirstReached(scores.reliability, <<7000, 4000>>),
   volatility |-> FirstReached(scores.volatility, <<6000, 3000>>),
   discount |-> FirstReached(scores.discount, <<5000, 2500>>),
   risk |-> FirstReached(scores.risk, <<6000, 3000>>),
   season |-> IF scores.seasonality >= 5000 /\ Given(scores.period) THEN 1 ELSE IF n >= 4 THEN 2 ELSE 3]

-----------------------------------------------------------------------------
\* Every score is a share, and only a series long enough is called seasonal, by a period
\* that fits into it twice.
ScoresBounded(obs) ==
  \A scores \in {ComputeScores(obs)} :
    /\ \A s \in {"reliability", "volatility", "discount", "risk", "seasonality", "confidence"} :
         scores[s] \in 0 .. One
    /\ Explain(scores, Len(obs)).season = 1 => scores.period \in 2 .. Len(obs) \div 2
-----------------------------------------------------------------------------
RankWeights == <<30, 20, 15, 10, 15, 10>>
MaxSuppliers == 50

\* _coupon_depth.
CouponDepth(coupon, price) ==
  Clamp(CASE coupon.kind = "percentage" -> 100 * coupon.value
          [] coupon.kind = "fixed_amount" -> (One * coupon.value) \div Greatest(price, 1)
          [] OTHER -> 0, 0, One)

\* find_product: the match of the UPC, else the first result.
FindProduct(results, upc) ==
  LET matching == {i \in DOMAIN results : Given(upc) /\ results[i].upc = upc}
  IN IF matching # {} THEN results[Min(matching)] ELSE results[1]

\* _gather_one, for a supplier that found the product: what a failed call would have
\* told is taken from the search result.
GatherOne(supplier, upc, quantity) ==
  LET found == FindProduct(supplier.results, upc)
      price == IF supplier.pricing = <<>> THEN found.price ELSE supplier.pricing[1]
      stock == IF supplier.availability = <<>> THEN found.inStock ELSE supplier.availability[1]
      methods == supplier.shipping
      method == FirstLeast(methods, LAMBDA m : m.cost)
      depths == {CouponDepth(c, price) : c \in supplier.coupons}
      shipping == IF methods = <<>> THEN 0 ELSE method.cost
  IN [code |-> supplier.code,
      price |-> price,
      shipping |-> shipping,
      days |-> IF methods = <<>> THEN Or(found.days, 0) ELSE method.days,
      landed |-> price * quantity + shipping,
      inStock |-> stock,
      discount |-> Max({0} \cup depths)]

\* _gather_offers: a supplier whose search fails or finds nothing makes no offer.
GatherOffers(suppliers, upc, quantity) ==
  LET selling == SelectSeq(suppliers, LAMBDA s : s.results # <<>>)
  IN [i \in DOMAIN selling |-> GatherOne(selling[i], upc, quantity)]

-----------------------------------------------------------------------------
\* _intel_scores: a supplier that is unknown, or whose scores fail, counts as average.
Unknown == [reliability |-> 5000, risk |-> 5000, confidence |-> 0]

IntelScore(intel, code) == IF code \in DOMAIN intel THEN intel[code] ELSE Unknown

\* The score of one offer among all.
OfferScore(offers, intel, o) ==
  LET landed == {offers[i].landed : i \in DOMAIN offers}
      slowest == Max({offers[i].days : i \in DOMAIN offers})
      price == IF Max(landed) = Min(landed) THEN One
               ELSE One - (One * (o.landed - Min(landed))) \div (Max(landed) - Min(landed))
      speed == IF slowest = 0 THEN One ELSE One - (One * o.days) \div slowest
      known == IntelScore(intel, o.code)
      parts == <<price, speed, IF o.inStock THEN One ELSE 3000, o.discount, known.reliability,
                 One - known.risk>>
  IN SumOf([i \in DOMAIN parts |-> parts[i] * RankWeights[i]]) \div SumOf(RankWeights)

\* rank_offers.
RankOffers(offers, intel) == Ranked(offers, LAMBDA o : OfferScore(offers, intel, o))

\* highlights: an offer with no delivery time is not the fastest unless none has one.
Highlights(offers, intel) ==
  LET timed == SelectSeq(offers, LAMBDA o : o.days > 0)
      soonest == IF timed = <<>> THEN offers ELSE timed
      quickest == SelectSeq(soonest, LAMBDA o : \A i \in DOMAIN soonest : o.days <= soonest[i].days)
      surest == SelectSeq(offers, LAMBDA o : \A i \in DOMAIN offers :
                  IntelScore(intel, o.code).confidence >= IntelScore(intel, offers[i].code).confidence)
  IN [best |-> Head(RankOffers(offers, intel)).code,
      cheapest |-> FirstLeast(offers, LAMBDA o : o.landed).code,
      fastest |-> FirstLeast(quickest, LAMBDA o : o.landed).code,
      surest |-> FirstLeast(surest, LAMBDA o : o.landed).code]

\* TrendDiscountPredictor.predict: the mean and one step of the regression line.
Predict(discounts) ==
  LET recent == IF Len(discounts) > 20 THEN SubSeq(discounts, Len(discounts) - 19, Len(discounts)) ELSE discounts
      n == Len(recent)
      centred == SumOf([i \in 1 .. n |-> (2 * i - n - 1) * recent[i]])  \* twice the distance from the middle
      slope == Cut(6 * centred, n * (n * n - 1))
  IN IF n = 0 THEN None
     ELSE IF n = 1 THEN Clamp(recent[1], 0, One)
     ELSE Clamp(Mean(recent) + slope, 0, One)

\* Whom recommendations name, and for what.
Recommendations(h, predicted, intel) ==
  {<<"buy", h.best>>}
    \cup {<<kind, h[kind]>> : kind \in {k \in {"cheapest", "fastest", "surest"} : h[k] # h.best}}
    \cup {<<"wait", code>> : code \in {c \in DOMAIN predicted : predicted[c] >= 1000}}
    \cup {<<"backup", code>> : code \in {c \in DOMAIN intel : intel[c].risk >= 6000}}

\* source: what is returned and persisted with the run.
Source(request, suppliers, history, intel) ==
  LET offers == Top(GatherOffers(suppliers, request.upc, request.quantity), MaxSuppliers)
      codes == {offers[i].code : i \in DOMAIN offers}
      known == [c \in codes \cap DOMAIN intel |-> intel[c]]
      predicted == [c \in codes |-> IF c \in DOMAIN history THEN Predict(history[c]) ELSE None]
  IN IF offers = <<>> THEN [ranking |-> <<>>, offers |-> <<>>, recommendations |-> {}]
     ELSE [ranking |-> RankOffers(offers, known), offers |-> offers,
           highlights |-> Highlights(offers, known),
           recommendations |-> Recommendations(Highlights(offers, known), predicted, known)]

-----------------------------------------------------------------------------
\* The run ranks every offer once; the best offer is beaten on the ranking by nobody, the
\* cheapest by nobody on cost; and an offer that nobody beats on any count is the best.
SourceSound(request, suppliers, history, intel) ==
  \A out \in {Source(request, suppliers, history, intel)} :
    LET Score(o) == OfferScore(out.offers, [c \in {out.offers[i].code : i \in DOMAIN out.offers}
                                              \cap DOMAIN intel |-> intel[c]], o)
    IN /\ IsRanking(out.ranking, out.offers, Score)
       /\ \A o, worse \in ToSet(out.offers) :
            o.landed < worse.landed /\ o.days <= worse.days /\ (worse.inStock => o.inStock)
              /\ o.discount >= worse.discount
              /\ IntelScore(intel, o.code) = IntelScore(intel, worse.code)
              => /\ out.highlights.best # worse.code
                 /\ out.highlights.cheapest # worse.code
=============================================================================
