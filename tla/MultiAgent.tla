----------------------------- MODULE MultiAgent -----------------------------
(***************************************************************************)
(* The agents of a sourcing task and their supervisor (app/multiagent).    *)
(* The agents of a wave run at once and leave what they found in the       *)
(* memory they share; any of them may raise.  Money is in cents, shares    *)
(* are in ten-thousandths, and the task has the default margins: 0.30 to   *)
(* aim for and 0.05 at least.                                              *)
(***************************************************************************)
EXTENDS Sessions

\* depends_on of each role.
DependsOn ==
  [planner |-> {}, research |-> {}, matching |-> {"research"}, forecast |-> {"research"},
   pricing |-> {"matching", "forecast"}, profit |-> {"pricing", "matching", "forecast"},
   risk |-> {"matching", "profit", "forecast"}, negotiation |-> {"matching", "profit"},
   inventory |-> {"forecast", "profit"},
   reporting |-> {"research", "matching", "forecast", "pricing", "profit", "risk", "negotiation", "inventory"}]

Roles == DOMAIN DependsOn

\* recall of what a role left behind, if it ran and did not raise.
Recall(shared, role, default) == IF role \in DOMAIN shared THEN shared[role] ELSE default

-----------------------------------------------------------------------------
\* ResearchAgent: the landed cost of each offer.
Research(task, shared) == [i \in DOMAIN task.offers |-> With(task.offers[i], "landed", task.offers[i].unit + task.offers[i].shipping)]

\* MatchingAgent: what is in stock and comes in time, the cheapest first.
Matching(task, shared) ==
  LET offers == Recall(shared, "research", <<>>)
      eligible == Filter(offers, LAMBDA o : o.inStock /\ o.days <= task.maxDays)
  IN Ranked(eligible, LAMBDA o : -o.landed)

\* ForecastAgent without a tool: what is expected, and the trend of a twentieth.
Forecast(task, shared) == [units |-> HalfEven(105 * task.units, 100), confidence |-> task.confidence]

BestLanded(shared) == LET matched == Recall(shared, "matching", <<>>) IN IF matched = <<>> THEN 0 ELSE matched[1].landed

\* PricingAgent with the markup tool.
Pricing(task, shared) ==
  LET cost == IF BestLanded(shared) = 0 THEN task.targetCost ELSE BestLanded(shared)
  IN [price |-> HalfEven(10 * cost, 7), floor |-> HalfEven(105 * cost, 100), cost |-> cost]

\* ProfitAgent: where pricing left nothing the price is zero.
Profit(task, shared) ==
  LET pricing == Recall(shared, "pricing", [price |-> 0, floor |-> 0, cost |-> 0])
      cost == IF pricing.cost = 0 THEN BestLanded(shared) ELSE pricing.cost
      margin == pricing.price - cost
      units == Recall(shared, "forecast", [units |-> 0]).units
  IN [price |-> pricing.price, cost |-> cost, margin |-> margin,
      percent |-> IF pricing.price = 0 THEN 0 ELSE HalfEven(10000 * margin, pricing.price),
      roi |-> IF cost = 0 THEN 0 ELSE HalfEven(10000 * margin, cost), units |-> units, total |-> margin * units]

MarginPercent(shared) == Recall(shared, "profit", [percent |-> 0]).percent

\* RiskAgent: the supplier's reliability is taken for a half.
Risk(task, shared) ==
  LET matched == Recall(shared, "matching", <<>>)
      days == IF matched = <<>> THEN 30 ELSE matched[1].days
      late == IF task.maxDays = 0 THEN 5000 ELSE Least(10000, (10000 * days) \div task.maxDays)
      demand == 10000 - Recall(shared, "forecast", [confidence |-> 7000]).confidence
      margin == IF MarginPercent(shared) >= 500 THEN 0 ELSE Least(10000, 20 * (500 - MarginPercent(shared)))
      lonely == IF Len(matched) <= 1 THEN 10000 ELSE 0
      score == HalfEven(35 * 5000 + 20 * late + 20 * demand + 15 * margin + 10 * lonely, 100)
  IN [score |-> score, level |-> IF score < 3300 THEN "low" ELSE IF score < 6600 THEN "medium" ELSE "high"]

\* NegotiationAgent: half the margin within its bounds, and the volume to offer.
Negotiation(task, shared) ==
  LET units == Recall(shared, "profit", [units |-> 0]).units
      matched == Recall(shared, "matching", <<>>)
      moq == IF matched = <<>> THEN 1 ELSE matched[1].moq
  IN [discount |-> Clamp(MarginPercent(shared) \div 2 + (IF units >= 100 THEN 200 ELSE 0), 500, 2500),
      moq |-> moq, ask |-> Greatest(moq, units)]

\* InventoryAgent with ten days of lead time and safety.
Inventory(task, shared) ==
  LET units == Recall(shared, "forecast", [units |-> 0]).units
      point == HalfEven(10 * units, 30)
  IN [point |-> point, qty |-> HalfEven(11 * units, 10), action |-> IF task.onHand < point THEN "reorder" ELSE "hold"]

\* _top_recommendation of the report.
TopRecommendation(shared) ==
  CASE Recall(shared, "matching", <<>>) = <<>> -> "expand"
    [] Recall(shared, "matching", <<>>) # <<>> /\ Recall(shared, "risk", [level |-> "none"]).level = "high" -> "mitigate"
    [] OTHER -> IF MarginPercent(shared) < 500 THEN "reconsider"
                ELSE IF Recall(shared, "inventory", [action |-> "none"]).action = "reorder" THEN "reorder" ELSE "proceed"

\* ReportingAgent: a section for each role that left something.  What they left has neither a
\* "summary" nor "data", which is what a section would quote.
Reporting(task, shared) == [sections |-> {"research", "matching", "forecast", "pricing", "profit", "risk", "negotiation", "inventory"}
                                           \cap DOMAIN shared, top |-> TopRecommendation(shared)]

Run(role, task, shared) ==
  CASE role = "planner" -> Roles \ {"planner"} [] role = "research" -> Research(task, shared)
    [] role = "matching" -> Matching(task, shared) [] role = "forecast" -> Forecast(task, shared)
    [] role = "pricing" -> Pricing(task, shared) [] role = "profit" -> Profit(task, shared)
    [] role = "risk" -> Risk(task, shared) [] role = "negotiation" -> Negotiation(task, shared)
    [] role = "inventory" -> Inventory(task, shared) [] role = "reporting" -> Reporting(task, shared)

\* evaluate_run: a failed run has no result, so nothing speaks for it.
EvaluateRun(failed, confidence) == IF failed THEN 0 ELSE 5000 + confidence \div 5 + 3000

-----------------------------------------------------------------------------
\* _resolve_waves: the first of them, the roles with no dependency among those that remain.
Wave(remaining) ==
  LET ready == {r \in remaining : DependsOn[r] \cap remaining = {}}
  IN IF ready = {} THEN remaining ELSE ready

\* The alphabetical order of the names, in which a wave is cut at max_parallel_agents.
Place ==
  [forecast |-> 1, inventory |-> 2, matching |-> 3, negotiation |-> 4, pricing |-> 5, profit |-> 6, reporting |-> 7, research |-> 8, risk |-> 9]

Chunk(wave, most) == {r \in wave : Cardinality({s \in wave : Place[s] <= Place[r]}) <= most}

Offers ==
  LET offer(unit, days, inStock) == [unit |-> unit, shipping |-> 100, days |-> days, inStock |-> inStock, moq |-> 50]
  IN {<<>>, <<offer(900, 3, TRUE), offer(700, 20, TRUE), offer(500, 3, FALSE)>>}

Tasks == [offers : Offers, maxDays : {10}, units : {60, 240}, confidence : {7000}, targetCost : {0}, onHand : {30}]

Pipeline == [task : Tasks, running : SUBSET Roles, remaining : SUBSET Roles, ran : SUBSET Roles, failed : SUBSET Roles, cut : SUBSET Roles]

TypeOK ==
  /\ \A i \in DOMAIN db : db[i].status \in {"succeeded", "degraded"} /\ DOMAIN db[i].shared \subseteq Roles
  /\ \A c \in Clients : req[c].op # "idle" => [f \in {"task", "running", "remaining", "ran", "failed", "cut"} |-> req[c][f]] \in Pipeline
  /\ mem \in [parallel : Nat]

\* max_parallel_agents is ten unless configured.
Init == db = <<>> /\ mem \in [parallel : {2, 10}] /\ NoRequests

\* run_pipeline begins: the planner alone.
RunPipeline(c) ==
  /\ req[c].op = "idle" /\ calls = 0
  /\ \E task \in Tasks, roles \in {Roles, Roles \ {"planner", "pricing"}} :
       req' = [req EXCEPT ![c] = [op |-> "pipeline", task |-> task, running |-> roles \cap {"planner"}, remaining |-> roles \ {"planner"},
                                  ran |-> {}, failed |-> {}, cut |-> {}, shared |-> <<>>]]
  /\ calls' = calls + 1 /\ UNCHANGED <<db, mem>>

\* The next wave, cut to its first roles; the others are never run.
StartWave(c) ==
  LET run == req[c]
      wave == Wave(run.remaining)
      chunk == Chunk(wave, mem.parallel)
  IN /\ run.op = "pipeline" /\ run.running = {} /\ run.remaining # {}
     /\ req' = [req EXCEPT ![c] = [run EXCEPT !.running = chunk, !.remaining = @ \ wave, !.cut = @ \cup (wave \ chunk)]]
     /\ UNCHANGED <<db, mem, calls>>

\* _run_agent: what an agent raises is its own failure.
AgentEnds(c, role, raises) ==
  LET run == req[c]
  IN /\ run.op = "pipeline" /\ role \in run.running
     /\ req' = [req EXCEPT ![c] =
          [run EXCEPT !.running = @ \ {role}, !.ran = @ \cup {role}, !.failed = IF raises THEN @ \cup {role} ELSE @,
                      !.shared = IF raises THEN @ ELSE With(@, role, Run(role, run.task, run.shared))]]
     /\ UNCHANGED <<db, mem, calls>>

\* _persist: the run with its traces and evaluations, in one transaction.
Persist(c) ==
  LET run == req[c]
  IN /\ run.op = "pipeline" /\ run.running = {} /\ run.remaining = {}
     /\ Commit(c, Append(db, [status |-> IF run.failed = {} THEN "succeeded" ELSE "degraded", shared |-> run.shared, cut |-> run.cut,
                              ran |-> run.ran, task |-> run.task, scores |-> [r \in run.ran |-> EvaluateRun(r \in run.failed, 8000)]]))

Next ==
  \E c \in Clients :
    RunPipeline(c) \/ StartWave(c) \/ Persist(c) \/ \E role \in Roles, raises \in BOOLEAN : AgentEnds(c, role, raises)

Spec == Init /\ [][Next]_sessionVars
-----------------------------------------------------------------------------
\* Agents decide on what those before them found: the profit is at the price that was set
\* for the units that were forecast,
ProfitFollows(s) ==
  /\ {"pricing", "profit"} \subseteq DOMAIN s => s.profit.price = s.pricing.price /\ s.pricing.price >= s.pricing.floor
  /\ {"forecast", "profit"} \subseteq DOMAIN s => s.profit.units = s.forecast.units

\* stock is ordered for those units,
StockFollows(s) == {"forecast", "inventory"} \subseteq DOMAIN s => s.inventory.qty >= s.forecast.units

\* what is asked of a supplier is what it sells and within bounds,
AskFollows(s) ==
  {"matching", "negotiation"} \subseteq DOMAIN s => s.negotiation.ask >= s.negotiation.moq /\ s.negotiation.discount \in 500 .. 2500

\* the report goes ahead only with a supplier that delivers in time, a margin, and no high risk;
ReportFollows(s, task) ==
  "reporting" \in DOMAIN s /\ s.reporting.top \in {"proceed", "reorder"} =>
    /\ "matching" \in DOMAIN s /\ s.matching[1].days <= task.maxDays
    /\ s.profit.percent >= 500 /\ ("risk" \in DOMAIN s => s.risk.level # "high")

\* and nobody who was asked for is left out but by the limit on a wave.
RunSound(run) ==
  /\ ProfitFollows(run.shared) /\ StockFollows(run.shared) /\ AskFollows(run.shared) /\ ReportFollows(run.shared, run.task)
  /\ \A r \in run.ran : run.scores[r] > 0 <=> r \in DOMAIN run.shared
  /\ run.cut # {} => mem.parallel < 3

\* No agent of a run ran before one that it depends on and that is of the run too.
Integrity ==
  /\ \A i \in DOMAIN db : RunSound(db[i])
  /\ \A c \in Clients : req[c].op = "pipeline" =>
       \A r \in req[c].ran, d \in req[c].ran \cup req[c].running \cup req[c].remaining :
         d \in DependsOn[r] => d \in req[c].ran

\* What an agent left behind stays as it is, and a persisted run too.
LegalStep ==
  /\ \A i \in DOMAIN db : db'[i] = db[i]
  /\ \A c \in Clients : req[c].op = "pipeline" /\ req'[c].op = "pipeline" =>
       \A r \in DOMAIN req[c].shared : req'[c].shared[r] = req[c].shared[r]
=============================================================================
