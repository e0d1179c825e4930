------------------------------ MODULE Finance ------------------------------
(***************************************************************************)
(* The capital decisions of app/finance (engine.py, manager.py): what cash *)
(* can be used, when and how much to reorder, and how a budget is split.   *)
(* Money is in whole dollars, what an allocation records in cents, rates   *)
(* and risks in percent, units and demand in hundredths; roots and         *)
(* quotients are cut to the hundredth.                                     *)
(***************************************************************************)
EXTENDS Numbers

Categories == {"payout", "purchase", "commitment", "cashback", "expense", "storage", "refund", "other"}

Policies == {"efficiency", "equal", "conservative"}

\* CashTransaction: the amount is positive, the direction is in the type.
CashTransaction == [type : {"inflow", "outflow"}, category : Categories, amount : Nat]

SumOfRows(ledger, Selects(_)) == SumOf([i \in DOMAIN ledger |-> IF Selects(ledger[i]) THEN ledger[i].amount ELSE 0])

CashBalance(ledger, starting) ==
  starting + SumOfRows(ledger, LAMBDA row : row.type = "inflow")
           - SumOfRows(ledger, LAMBDA row : row.type = "outflow")

SumOutflows(ledger, category) ==
  SumOfRows(ledger, LAMBDA row : row.type = "outflow" /\ row.category = category)

\* cash_position: a signal that is given replaces what the ledger says.
CashPosition(ledger, signals, config) ==
  LET cash == IF Given(signals.cash) THEN signals.cash ELSE CashBalance(ledger, config.starting)
      committed == IF Given(signals.committed) THEN signals.committed ELSE SumOutflows(ledger, "commitment")
      credit == Greatest(0, config.creditLimit - signals.credit)
      liquidity == cash + signals.payouts + credit - committed
  IN [cash |-> cash,
      committed |-> committed,
      credit |-> credit,
      liquidity |-> liquidity,
      usable |-> Greatest(0, Cut(liquidity * config.investable, 100) - config.reserve)]

NoSignals == [cash |-> None, committed |-> None, payouts |-> 0, credit |-> 0]

\* _usable_budget.
UsableBudget(ledger, config) == CashPosition(ledger, NoSignals, config).usable

-----------------------------------------------------------------------------
DaysPer(period) ==
  IF period = "week" THEN 7 ELSE IF period = "month" THEN 30 ELSE IF period = "year" THEN 365 ELSE 1

DailyDemand(opp) == (100 * opp.demand) \div DaysPer(opp.period)

\* daily_std: the variance of a period spreads over its days.
DailyStd(opp) == Root((10000 * opp.std * opp.std) \div DaysPer(opp.period))

SafetyStock(opp, config) == config.serviceLevel * Root(DailyStd(opp) * DailyStd(opp) * Greatest(opp.lead, 0))

ReorderPoint(opp, config) == DailyDemand(opp) * opp.lead + SafetyStock(opp, config)

EconomicOrderQty(opp, config) ==
  LET yearly == DailyDemand(opp) * 365
      holding == opp.cost * config.holdingRate  \* hundredths of a dollar
      order == IF Given(opp.orderCost) THEN opp.orderCost ELSE config.orderCost
  IN IF yearly <= 0 \/ holding <= 0 THEN 0 ELSE 10 * Root((200 * yearly * order) \div holding)

\* The units the budget pays for; NoBudget when there is no constraint.
NoBudget == -2

UnitsAffordable(opp, config, budget) ==
  IF opp.cost <= 0 THEN 0
  ELSE IF budget = NoBudget THEN config.maxUnits
  ELSE IF budget > 0 THEN budget \div opp.cost
  ELSE 0

\* evaluate_opportunity.
Evaluate(opp, config, budget) ==
  LET rop == ReorderPoint(opp, config)
      eoq == EconomicOrderQty(opp, config)
      cap == Min({UnitsAffordable(opp, config, budget), config.maxUnits}
                   \cup (IF Given(opp.maxUnits) THEN {opp.maxUnits} ELSE {}))
      buyNow == 100 * opp.stock <= rop
      suggested == IF buyNow THEN rop + eoq - 100 * opp.stock ELSE eoq
      qty == Greatest(0, Least(Cut(suggested, 100), cap))
      capital == qty * opp.cost
      margin == IF Given(opp.price) THEN opp.price - opp.cost ELSE 0
      profit == IF Given(opp.profit) THEN opp.profit ELSE margin * qty
      payback == IF DailyDemand(opp) > 0 THEN 100 * opp.lead + (10000 * qty) \div DailyDemand(opp)
                                         ELSE 100 * opp.lead
      paybackDays == IF Given(opp.payback) THEN 100 * opp.payback ELSE payback
  IN [id |-> opp.id, cost |-> opp.cost, risk |-> opp.risk,
      qty |-> qty,
      capital |-> capital,
      buyNow |-> buyNow,
      profit |-> profit,
      daysUntilReorder |-> IF DailyDemand(opp) > 0
                             THEN Greatest(0, (10 * (100 * opp.stock - rop)) \div DailyDemand(opp)) ELSE 0,
      \* return on each dollar and day, in hundredths of a percent, after the risk
      efficiency |-> IF capital > 0 /\ paybackDays > 0
                       THEN Cut(Cut(profit * 10000, capital) * (100 - opp.risk), paybackDays) ELSE 0]

\* The order in which a policy serves the opportunities.
Served(evals, policy) ==
  IF policy = "equal" THEN evals
  ELSE IF policy = "conservative" THEN Ranked(evals, LAMBDA e : e.efficiency * (100 - e.risk))
  ELSE Ranked(evals, LAMBDA e : e.efficiency)

\* What a policy gives of what is left, with the cents it is recorded as.  The exact amount
\* is in n-ths of a dollar, n opportunities being served.
Gift(e, n, exact) ==
  [id |-> e.id, capital |-> e.capital, efficiency |-> e.efficiency, risk |-> e.risk,
   exact |-> exact, allocated |-> HalfEven(100 * exact, n)]


\* allocate_opportunities: each is offered what is left, never more than it needs, and under
\* the equal policy no more than its share of the budget; what is left is reckoned with the
\* exact amounts, what is recorded is rounded to the cent.
Allocate(opps, config, budget, policy) ==
  LET n == Len(opps)
      share == IF policy = "equal" THEN {budget} ELSE {}
      Left(given) == n * budget - SumOf([i \in DOMAIN given |-> given[i].exact])
      Give(given, e) ==
        Append(given, Gift(e, n, Greatest(0, Min({n * e.capital, Left(given)} \cup share))))
  IN FoldLeft(Give, <<>>, Served([i \in DOMAIN opps |-> Evaluate(opps[i], config, budget)], policy))

-----------------------------------------------------------------------------
\* total_allocated, the sum of the rounded amounts, in cents.
Allocated(given) == SumOf([i \in DOMAIN given |-> given[i].allocated])

\* A ranking policy spends no more than the budget, to the cent; equal shares may round up
\* and overspend it, by no more than half a cent each.  Nobody gets more than the order
\* costs, every opportunity is served once, and a ranking policy leaves one short only when
\* those after it get nothing.
AllocationSound(opps, config, budget, policy) ==
  \A given \in {Allocate(opps, config, budget, policy)} :
    /\ IF policy = "equal" THEN 2 * (Allocated(given) - 100 * Greatest(0, budget)) <= Len(given)
                           ELSE Allocated(given) <= 100 * Greatest(0, budget)
    /\ {given[i].id : i \in DOMAIN given} = {opps[i].id : i \in DOMAIN opps}
    /\ \A i \in DOMAIN given : given[i].allocated \in 0 .. 100 * Greatest(0, given[i].capital)
    /\ policy # "equal" =>
         \A i, j \in DOMAIN given :
           i < j /\ given[i].allocated < 100 * given[i].capital => given[j].allocated = 0

\* What may be invested never exceeds the liquidity it is a part of.
UsableWithin(ledger, signals, config) ==
  LET position == CashPosition(ledger, signals, config)
  IN position.usable <= Greatest(0, position.liquidity)
=============================================================================
