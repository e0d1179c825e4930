---------------------------- MODULE Calculations ----------------------------
(***************************************************************************)
(* The calculations of the platform under changing arguments.  A behaviour *)
(* begins with one request of one kind; each step betters or varies one    *)
(* argument, as the next call of the same client may, and the laws relate  *)
(* what the code answers before and after.  The calculations themselves    *)
(* are in the modules named after their packages.                          *)
(***************************************************************************)
EXTENDS Numbers

CONSTANTS
  Requests,  \* the first requests, a set for each kind
  MaxSteps   \* bound: how often a request is varied

P == INSTANCE Profit
F == INSTANCE Finance
S == INSTANCE Sourcing
I == INSTANCE Suppliers
M == INSTANCE Matching
C == INSTANCE Forecasting
T == INSTANCE Features
G == INSTANCE KnowledgeGraph
E == INSTANCE Statistics
A == INSTANCE Analytics

VARIABLES kind, input, steps
vars == <<kind, input, steps>>

Init == kind \in DOMAIN Requests /\ input \in Requests[kind] /\ steps = 0

Vary(k, other) == steps < MaxSteps /\ kind = k /\ input' = other /\ steps' = steps + 1 /\ UNCHANGED kind

-----------------------------------------------------------------------------
PriceRises == kind = "profit" /\ Vary("profit", [input EXCEPT !.in.price = @ + 100])
CostFalls == kind = "profit" /\ Vary("profit", [input EXCEPT !.in.cost = @ \div 2])
BudgetRises == kind = "finance" /\ Given(input.budget) /\ Vary("finance", [input EXCEPT !.budget = @ + 40])
RowRecorded ==
  kind = "finance" /\ \E type \in {"inflow", "outflow"}, category \in {"purchase", "commitment"} :
    Vary("finance", [input EXCEPT !.ledger = Append(@, [type |-> type, category |-> category, amount |-> 90])])
StockArrives == kind = "finance" /\ Vary("finance", [input EXCEPT !.opps[1].stock = @ + 2])

SupplierJoins ==
  kind = "sourcing" /\ \E price \in {200, 900} : Vary("sourcing", [input EXCEPT ![1].suppliers = @ \cup {price}])
SalesRise == kind = "sourcing" /\ Vary("sourcing", [input EXCEPT ![1].sales = @ + 600])

ServiceImproves ==
  kind = "supplier" /\ \E i \in DOMAIN input :
    Vary("supplier", [input EXCEPT ![i].cancels = @ \div 2, ![i].service = Least(100, @ + 10)])

OfferCheapens ==
  kind = "reverse" /\ input.suppliers[1].pricing # <<>>
    /\ Vary("reverse", [input EXCEPT !.suppliers[1].pricing[1] = (9 * @) \div 10])

CodeRevealed ==
  kind = "matching" /\ \E i \in DOMAIN input.candidates :
    /\ input.supplier.gtin = None /\ input.candidates[i].gtin = None
    /\ Vary("matching", [input EXCEPT !.supplier.gtin = 7, !.candidates[i].gtin = 7])
CandidateAdded ==
  kind = "matching" /\ Vary("matching", [input EXCEPT !.candidates = Append(@, [@[1] EXCEPT !.asin = "new", !.brand = None])])

SeriesGrows ==
  kind = "forecast" /\ \E v \in {0, 9} : Vary("forecast", [input EXCEPT !.request.series = Append(@, v)])
ActualArrives ==
  kind = "forecast" /\ \E v \in {3, 12} : Vary("forecast", [input EXCEPT !.actuals = Append(@, v)])

HoursPass == kind = "features" /\ \E h \in {2, 5, 20} : Vary("features", [input EXCEPT !.now = @ + h])
SignalLost ==
  kind = "features" /\ \E key \in DOMAIN input.signals :
    Vary("features", [input EXCEPT !.signals = [k \in DOMAIN @ \ {key} |-> @[k]]])

EdgeAdded ==
  kind = "graph" /\ \E a, b \in G!NodeIds(input), w \in {0, 3} :
    a # b /\ Vary("graph", G!AddEdge(input, [source |-> a, target |-> b, type |-> "supplied_by", weight |-> w]))
NodeUpserted ==
  kind = "graph" /\ \E i \in DOMAIN input.nodes, key \in {"k1", "k9"} :
    Vary("graph", G!UpsertNode(input, [input.nodes[i] EXCEPT !.key = key, !.id = 9, !.profit = 5]))
NodeDeleted == kind = "graph" /\ \E id \in G!NodeIds(input) : Vary("graph", G!DeleteNode(input, id))

Observed ==
  kind = "experiment" /\ \E v \in {"control", "a"}, success \in 0 .. 1, truth \in {None, 1} :
    Vary("experiment", Append(input, [variant |-> v, outcome |-> success, predicted |-> success,
                                      truth |-> truth, profit |-> 3 * success]))
Measured == kind = "metrics" /\ \E p, a \in {0, 4} : Vary("metrics", Append(input, [actual |-> a, pred |-> p]))

SupplierCheapens ==
  kind = "analytics" /\ \E i \in DOMAIN input.facts.suppliers :
    Vary("analytics", [input EXCEPT !.facts.suppliers[i].price = @ \div 2])
PointMeasured ==
  kind = "analytics" /\ \E v \in {2, 90} :
    Vary("analytics", [input EXCEPT !.series = Append(@, [at |-> 10 * Len(@) + 7, value |-> v])])

RetailerCheapens ==
  kind = "retailer" /\ input.raw.price.type = "number" /\ input.raw.price.value > 100
    /\ Vary("retailer", [input EXCEPT !.raw.price.value = @ - 90])

Next ==
  \/ PriceRises \/ CostFalls \/ BudgetRises \/ RowRecorded \/ StockArrives \/ SupplierJoins \/ SalesRise
  \/ ServiceImproves \/ OfferCheapens \/ CodeRevealed \/ CandidateAdded \/ SeriesGrows \/ ActualArrives
  \/ HoursPass \/ SignalLost \/ EdgeAdded \/ NodeUpserted \/ NodeDeleted \/ Observed \/ Measured
  \/ SupplierCheapens \/ PointMeasured \/ RetailerCheapens

Spec == Init /\ [][Next]_vars
-----------------------------------------------------------------------------
\* FinanceManager.allocate: without a budget, what the ledger leaves.
Budget(x) == IF Given(x.budget) THEN x.budget ELSE F!UsableBudget(x.ledger, x.config)

ForecastRows == C!Forecast(<<>>, input.request)
ActualRows == FoldLeft(LAMBDA rows, v : C!RecordActual(ForecastRows, rows, 1, v), <<>>, input.actuals)


\* Verdicts agree with the figures they rest on and rankings lose nobody: a product that
\* fails a critical rule is not viable (sourcing), scores are shares (supplier_intel), an
\* offer that is beaten on every count is not recommended (reverse_sourcing), and the
\* matches kept are the best ones (matching); what cannot be sold is not viable (retailers).
VerdictsAgree ==
  /\ kind = "sourcing" => S!RankingSound(S!EvaluateProducts(input), S!Scored(input))
  /\ kind = "supplier" => I!ScoresBounded(input)
  /\ kind = "reverse" => I!SourceSound(input.request, input.suppliers, input.history, input.intel)
  /\ kind = "matching" => M!MatchSound(input.supplier, input.candidates, input.least, input.top)
  /\ kind = "retailer" => S!LookupSound(input)


\* A graph keeps one row for a key and no dangling edge, and its paths are the lightest
\* there are (knowledge_graph).
PathsLightest == kind = "graph" => G!GraphSound(input) /\ G!PathsShortest(input)

Net(x) == P!Calculate(x.in, x.category).net
Capital(x) == F!Allocated(F!Allocate(x.opps, x.config, Budget(x), x.policy))
OrderNow(x) == F!Evaluate(x.opps[1], x.config, Budget(x)).buyNow
ScoreOf(results) == IF S!Scorable(results) THEN S!TotalScore(results) ELSE 0
SourcingScore(x) == ScoreOf(S!RuleResults(x[1]))
Reliability(x) == I!ComputeScores(x).reliability
Place(x, code) ==
  LET r == I!Source(x.request, x.suppliers, x.history, x.intel).ranking
  IN Min({i \in DOMAIN r : r[i].code = code})
Likelihood(x, i) == M!EvaluateCandidate(x.supplier, x.candidates[i]).confidence
BestMatch(x) ==
  LET found == M!Match(x.supplier, x.candidates, x.least, x.top)
  IN IF found = <<>> THEN 0 ELSE found[1].confidence
Certainty(x) == Total(DOMAIN T!RequiredSignals, LAMBDA key : T!SignalConfidence(x.signals, T!RequiredSignals[key]))
Distance(x, a, b) == LET found == G!ShortestPath(x, a, b) IN IF found.found THEN found.weight ELSE 1000
SnapshotNet(x) == A!CollectSnapshot(x.facts).profit.net
UpperTenth(x) == A!ComputeSummary(x.series, 0).percentiles[4]
Winner(x) == E!DetermineWinner(x, "control", "conversion").winner

\* What is better for the asker never makes the answer worse.  A higher price or a cheaper
\* supplier never lowers the profit (fees and tax left a tenth of the price), a larger
\* budget never funds less, an income never leaves less to invest and an outflow never more, more stock never causes an order, more sales or one more
\* supplier never lower a sourcing score, better service never lowers reliability, a cheaper
\* offer never loses places, an agreeing bar code never lowers a match below a certain
\* one's, one more candidate never spoils the best match, a missing signal never makes
\* features surer, a new edge never makes a path longer nor a lost node one shorter, a
\* success never costs the winner its victory, a cheaper supplier never lowers the profit of
\* a snapshot nor a cheaper product at a retailer its score, a value above all others no percentile, and a prediction that came true never makes
\* the mean error larger.
NeverWorseStep ==
  /\ PriceRises /\ P!ReferralFee(input.in, input.category).percent + input.in.tax <= 90 => Net(input') >= Net(input)
  /\ CostFalls => Net(input') >= Net(input)
  /\ BudgetRises => Capital(input') >= Capital(input)
  /\ RowRecorded => IF Last(input'.ledger).type = "inflow" THEN Budget(input') >= Budget(input)
                                                            ELSE Budget(input') <= Budget(input)
  /\ StockArrives => (OrderNow(input') => OrderNow(input))
  /\ SupplierJoins \/ SalesRise => SourcingScore(input') >= SourcingScore(input)
  /\ ServiceImproves => Reliability(input') >= Reliability(input)
  /\ OfferCheapens => Place(input', "s1") <= Place(input, "s1")
  /\ CodeRevealed =>
       \A i \in DOMAIN input.candidates :
         input'.candidates[i] # input.candidates[i] => Likelihood(input', i) >= Least(Likelihood(input, i), 9500)
  /\ CandidateAdded => BestMatch(input') >= BestMatch(input)
  /\ SignalLost => Certainty(input') <= Certainty(input)
  /\ EdgeAdded /\ Len(input'.edges) > Len(input.edges) =>
       \A a, b \in G!NodeIds(input) : Distance(input', a, b) <= Distance(input, a, b)
  /\ NodeDeleted => \A a, b \in G!NodeIds(input') : Distance(input', a, b) >= Distance(input, a, b)
  /\ Observed /\ Last(input').variant = Winner(input) /\ Last(input').outcome = 1 => Winner(input') = Winner(input)
  /\ Measured /\ Last(input').pred = Last(input').actual => E!Mae(input') <= E!Mae(input)
  /\ SupplierCheapens => SnapshotNet(input') >= SnapshotNet(input)
  /\ RetailerCheapens /\ Given(input.ask.amazon) => S!FetchAndScore(input').score >= S!FetchAndScore(input).score
  /\ PointMeasured /\ Last(input'.series).value = 90 => UpperTenth(input') >= UpperTenth(input)

NeverWorse == [][NeverWorseStep]_vars
=============================================================================
