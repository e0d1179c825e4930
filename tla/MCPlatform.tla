----------------------------- MODULE MCPlatform -----------------------------
(***************************************************************************)
(* One run for the components that keep rows and for the calculations: a   *)
(* behaviour is of one component of Platform or of one kind of request to  *)
(* Calculations, small ones of which are given here.                       *)
(***************************************************************************)
EXTENDS Platform

VARIABLES input, steps

Fees == INSTANCE Profit
Money == INSTANCE Finance
Rules == INSTANCE Sourcing
Signals == INSTANCE Features

NoCosts ==
  [price |-> 2000, cost |-> 505, qty |-> 1, discount |-> 0, percent |-> None, min |-> None, fulfillment |-> None,
   storage |-> None, closing |-> 0, shipping |-> 0, prep |-> 0, other |-> 0, tax |-> 0, coupon |-> 0,
   cashback |-> 0, rewards |-> 0, capital |-> None]

ProfitRequests ==
  {[in |-> [NoCosts EXCEPT !.price = price, !.qty = qty, !.discount = discount, !.percent = percent,
                           !.tax = tax, !.cashback = tax, !.min = 30, !.storage = 20, !.closing = closing,
                           !.shipping = closing, !.coupon = coupon, !.capital = capital],
    category |-> category] :
     price \in {100, 1999}, qty \in {1, 3}, discount \in {0, 7}, percent \in {None, 0, 12}, tax \in {0, 9},
     closing \in {0, 180}, coupon \in {50}, capital \in {None, 500}, category \in {Fees!NoCategory, "Electronics", "Books"}}

Opportunity ==
  [id |-> "a", cost |-> 7, price |-> 15, profit |-> None, payback |-> None, demand |-> 60, period |-> "month",
   std |-> 6, lead |-> 4, stock |-> 5, orderCost |-> None, maxUnits |-> None, risk |-> 10]

FinanceRequests ==
  {[opps |-> <<[Opportunity EXCEPT !.stock = stock, !.risk = risk],
               [Opportunity EXCEPT !.id = "b", !.cost = 11, !.price = price, !.demand = demand],
               [Opportunity EXCEPT !.id = "c", !.cost = 3, !.maxUnits = 5, !.profit = 40]>>,
    config |-> [starting |-> 500, creditLimit |-> 100, investable |-> 80, reserve |-> 50, serviceLevel |-> 2,
                holdingRate |-> 25, orderCost |-> 5, maxUnits |-> 60],
    budget |-> budget, policy |-> policy,
    ledger |-> <<[type |-> "inflow", category |-> "payout", amount |-> 200],
                 [type |-> "outflow", category |-> "commitment", amount |-> 300]>>] :
     stock \in {0, 9, 30}, risk \in {0, 60}, price \in {None, 12, 40}, demand \in {0, 30}, budget \in {None, 20, 50, 130, 900},
     policy \in Money!Policies}

Facts ==
  [id |-> "p", price |-> 2000, suppliers |-> {600}, fulfillment |-> 300, sellers |-> 6, fba |-> 3, sales |-> 900,
   daily |-> 2, available |-> 100, volatility |-> 5, points |-> 60]

SourcingRequests ==
  {<<[Facts EXCEPT !.suppliers = suppliers, !.sellers = sellers, !.fba = fba, !.sales = sales,
                   !.volatility = volatility, !.points = points], [Facts EXCEPT !.id = "q"]>> :
     suppliers \in {{}, {600}, {1500}}, sellers \in {0, 1, 6, 25}, fba \in {0, 5, 30}, sales \in {0, 250, 2500},
     volatility \in {0, 14, 40}, points \in {0, 150}}

Observed1 ==
  [price |-> 10, inventory |-> 50, variance |-> 5, shipping |-> 3, cancels |-> 5, service |-> 80, returns |-> 90,
   discount |-> 10, stockouts |-> 0, coupons |-> 1, sales |-> 0]

SupplierRequests ==
  {[i \in 1 .. n |-> [Observed1 EXCEPT !.price = IF i % 2 = 0 THEN 10 ELSE price, !.inventory = inventory,
                                       !.shipping = 3 * i, !.cancels = cancels, !.stockouts = i]] :
     n \in {1, 4, 5}, price \in {10, 14}, inventory \in {0, 30}, cancels \in {0, 40, 100}}

Found == [price |-> 900, upc |-> 5, inStock |-> TRUE, days |-> None]
Offering ==
  [code |-> "s1", results |-> <<[Found EXCEPT !.upc = 4, !.price = 500], Found>>,
   pricing |-> <<1000>>, availability |-> <<TRUE>>,
   shipping |-> <<[cost |-> 300, days |-> 4], [cost |-> 100, days |-> 8]>>, coupons |-> {}]

ReverseRequests ==
  {[request |-> [upc |-> upc, quantity |-> 2],
    suppliers |-> <<[Offering EXCEPT !.pricing = pricing, !.shipping = shipping],
                    [Offering EXCEPT !.code = "s2", !.availability = availability, !.pricing = <<950>>,
                                     !.coupons = coupons],
                    [Offering EXCEPT !.code = "s3", !.results = results]>>,
    history |-> [c \in {"s2"} |-> history],
    intel |-> [c \in {"s1"} |-> [reliability |-> 9000, risk |-> risk, confidence |-> 8000]]] :
     upc \in {None, 5}, pricing \in {<<>>, <<1000>>, <<700>>},
     shipping \in {<<>>, Offering.shipping}, availability \in {<<>>, <<FALSE>>},
     coupons \in {{}, {[kind |-> "percentage", value |-> 10], [kind |-> "fixed_amount", value |-> 200]}},
     results \in {<<>>, <<Found>>}, history \in {<<>>, <<500, 1200, 1500>>}, risk \in {2000, 7000}}

Bare ==
  [asin |-> "x", gtin |-> None, ean |-> None, upc |-> None, title |-> {"red", "mug"}, sequence |-> 60,
   brand |-> 1, model |-> None, weight |-> None, dimensions |-> <<>>, image |-> TRUE, distance |-> None,
   cosine |-> None]

MatchingRequests ==
  {[supplier |-> [Bare EXCEPT !.brand = brand, !.model = 1, !.weight = 10, !.upc = 3],
    candidates |-> <<[Bare EXCEPT !.title = title, !.upc = upc, !.model = model, !.distance = distance],
                     [Bare EXCEPT !.asin = "y", !.weight = weight, !.cosine = cosine]>>,
    least |-> least, top |-> 2] :
     brand \in {None, 1}, title \in {{}, {"red", "mug"}, {"red", "pan", "lid"}}, upc \in {None, 3, 4},
     model \in {None, 1}, distance \in {None, 0, 40}, weight \in {None, 9, 30}, cosine \in {None, 72, 96},
     least \in {0, 5000}}

ForecastRequests ==
  {[request |-> [target |-> "price", horizon |-> h, series |-> s, flags |-> flags], actuals |-> <<>>] :
     h \in {1, 3, 40}, s \in {<<5>>, <<5, 5, 5>>, <<1, 9, 2, 8>>, <<10, 12, 14, 16, 18, 20, 22, 24>>},
     flags \in {{}, {"promotion_expected"}, {"supply_disruption"}}}

FeatureRequests ==
  {[signals |-> [k \in keys |-> IF k \in {"price_history", "monthly_sales", "competitor_prices", "brand_risk_indicators"}
                                  THEN list ELSE value], now |-> 0] :
     keys \in {UNION {Signals!RequiredSignals[f] : f \in DOMAIN Signals!RequiredSignals}, Signals!RequiredSignals["inventory_health"],
               Signals!RequiredSignals["competition_score"] \cup Signals!RequiredSignals["price_stability_score"]},
     value \in {0, 1, 30, 80}, list \in {<<>>, <<4>>, <<0, 5, 9>>}}

Nd(id, type, key) ==
  [id |-> id, type |-> type, key |-> key, profit |-> 20, brand |-> "b", category |-> "c", words |-> {"mug"}]
Ed(a, b, w) == [source |-> a, target |-> b, type |-> "supplied_by", weight |-> w]

GraphRequests ==
  {[nodes |-> <<Nd(1, "product", "k1"), Nd(2, "product", "k2"), Nd(3, "supplier", "k3"), Nd(4, "brand", "k4")>>,
    edges |-> edges] :
     edges \in {<<>>, <<Ed(1, 3, 1)>>, <<Ed(1, 3, 5), Ed(3, 2, 1), Ed(1, 4, 1), Ed(4, 2, 2)>>}}

Obs(v, n, wins, profit) ==
  [i \in 1 .. n |-> [variant |-> v, outcome |-> IF i <= wins THEN 1 ELSE 0, predicted |-> i % 2,
                     truth |-> IF i <= wins THEN 1 ELSE 0, profit |-> profit + (i % 2)]]

ExperimentRequests ==
  {Obs("control", 8, wins, 2) \o Obs("a", 8, 7, profit) \o Obs("b", n, n, 4) :
     wins \in {0, 2, 7}, profit \in {1, 9}, n \in {0, 3, 8}}

LearningRequests ==
  {[i \in 1 .. n |-> [actual |-> 2 * i, pred |-> IF i % 2 = 0 THEN bias ELSE 3 * i]] : n \in {0, 1, 5}, bias \in {0, 4, 12}}

AnalyticsRequests ==
  {[facts |-> [price |-> 900, amazon |-> amazon, suppliers |-> suppliers, sellers |-> <<>>, stock |-> stock, daily |-> 3,
               fees |-> fees],
    series |-> [i \in 1 .. n |-> [at |-> 10 * (i \div rows), value |-> 1 + ((7 * i) % 5)]], limit |-> limit] :
     amazon \in {<<>>, <<[at |-> 1, price |-> 1500, buyBox |-> FALSE], [at |-> 2, price |-> 100, buyBox |-> FALSE],
                         [at |-> 3, price |-> 1400, buyBox |-> TRUE]>>},
     suppliers \in {<<>>, <<[at |-> 1, supplier |-> 1, price |-> 300], [at |-> 5, supplier |-> 1, price |-> 1300],
                            [at |-> 2, supplier |-> 2, price |-> 1200]>>},
     stock \in {<<>>, <<[hand |-> 9, reserved |-> 4]>>, <<[hand |-> 9, reserved |-> 4], [hand |-> 1, reserved |-> 2]>>},
     fees \in {<<>>, <<[at |-> 1, referral |-> 90, fulfillment |-> 300, storage |-> 10, total |-> 450]>>},
     n \in {1, 5}, rows \in {1, 2}, limit \in {1, 2, 7}}

Number(n) == [type |-> "number", value |-> n]
Absent == [type |-> "absent", value |-> None]

RetailerRequests ==
  {[provider |-> provider, ask |-> [amazon |-> amazon, fulfillment |-> 300], monitored |-> <<[provider |-> "x", id |-> "1"], [provider |-> "walmart", id |-> ""]>>,
    raw |-> [title |-> "t", map |-> map, price |-> price, original |-> Number(1500), sellers |-> sellers,
             stock |-> None, availability |-> "unavailable"]] :
     provider \in Rules!RetailerProvider, amazon \in {None, 2000, 3900},
     map \in {<<>>, <<[price |-> Absent, unit |-> Number(700), was |-> Number(900)]>>},
     price \in {Absent, Number(1990), Number(600), [type |-> "text", value |-> 1200], [type |-> "junk", value |-> 0]},
     sellers \in {Absent, [type |-> "list", value |-> 0], [type |-> "total", value |-> 9], Number(25)}}

MCRequests ==
  [profit |-> ProfitRequests, finance |-> FinanceRequests, sourcing |-> SourcingRequests,
   supplier |-> SupplierRequests, reverse |-> ReverseRequests, matching |-> MatchingRequests,
   forecast |-> ForecastRequests, features |-> FeatureRequests, graph |-> GraphRequests,
   experiment |-> ExperimentRequests, metrics |-> LearningRequests, analytics |-> AnalyticsRequests,
   retailer |-> RetailerRequests]
-----------------------------------------------------------------------------
Calc == INSTANCE Calculations WITH Requests <- MCRequests, MaxSteps <- 1

NoRows == db = <<>> /\ mem = <<>> /\ req = <<>> /\ calls = 0
NoInput == input = <<>> /\ steps = 0

MCInit == (Init /\ NoInput) \/ (Calc!Init /\ NoRows)

MCNext ==
  \/ Next /\ UNCHANGED <<input, steps>>
  \/ Calc!Next /\ UNCHANGED <<db, mem, req, calls>>

MCSpec == MCInit /\ [][MCNext]_<<vars, input, steps>>

VerdictsAgree == Calc!VerdictsAgree
PathsLightest == Calc!PathsLightest
NeverWorse == Calc!NeverWorse
=============================================================================
