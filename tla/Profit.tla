------------------------------- MODULE Profit -------------------------------
(***************************************************************************)
(* ProfitEngine.calculate (app/profit/engine.py) with the default fees of  *)
(* config.py.  What is given is in cents and whole percents; what comes    *)
(* out is in pips, hundredths of a cent, because the supplier's discount   *)
(* and the break-even price are not rounded to cents.                      *)
(***************************************************************************)
EXTENDS Numbers, TLC

Pips(cents) == 100 * cents

\* _money of an amount in pips.
Money(pips) == Pips(HalfUp(pips, 100))

NoCategory == "none"

\* Categories that pay 15 % and at least 30 cents.
CommonCategories ==
  {"Cell Phone Accessories", "Home & Kitchen", "Sports & Outdoors", "Toys & Games",
   "Health & Personal Care", "Beauty", "Automotive", "Pet Supplies", "Musical Instruments",
   "Office Products", "Grocery & Gourmet Food"}

\* Percent and minimum of the categories with a schedule of their own.
CategorySchedules ==
  [c \in CommonCategories |-> [percent |-> 15, min |-> 30]]
    @@ [c \in {"Books", "Video Games"} |-> [percent |-> 15, min |-> 0]]
    @@ ("Electronics" :> [percent |-> 8, min |-> 30])
    @@ ("Clothing & Accessories" :> [percent |-> 17, min |-> 30])

\* The only defaults the engine reads.
FeeConfig == [referral |-> [percent |-> 15, min |-> 0], fulfillment |-> 550]

ScheduledFee(category) ==
  IF category \in DOMAIN CategorySchedules THEN CategorySchedules[category] ELSE FeeConfig.referral

\* A percentage that is given overrides the category, and the minimum goes with it.
ReferralFee(in, category) ==
  IF Given(in.percent)
    THEN [percent |-> in.percent, min |-> Or(in.min, 0)]
    ELSE ScheduledFee(category)

\* What calculate returns, but for the texts and the copies of its arguments.
Calculate(in, category) ==
  LET fee == ReferralFee(in, category)
      each == in.cost * (100 - in.discount)  \* effective_cost
      revenue == Pips(in.price * in.qty)
      supplier == each * in.qty
      referral == Money(Greatest(in.price * fee.percent, Pips(fee.min))) * in.qty
      fulfillment == Pips(Or(in.fulfillment, FeeConfig.fulfillment)) * in.qty
      storage == Pips(Or(in.storage, 0)) * in.qty
      amazon == referral + fulfillment + storage + Pips(in.closing * in.qty)
      handling == Pips((in.shipping + in.prep + in.other) * in.qty)
      tax == Money(in.price * in.qty * in.tax)
      coupon == Pips(in.coupon * in.qty)
      savings == Money(in.price * in.qty * in.cashback) + Money(in.price * in.qty * in.rewards)
      cost == supplier + handling + amazon + tax + coupon - savings
      net == revenue - cost
      capital == IF in.capital \in {None, 0}
                   THEN supplier + Pips(in.shipping * in.qty)
                   ELSE Pips(in.capital)
      unit == each + Pips(in.shipping + in.prep + in.other + fee.min)
      rate == fee.percent + in.tax
  IN [revenue |-> revenue,
      cost |-> cost,
      gross |-> revenue - supplier,
      net |-> net,
      fees |-> {f \in {<<"referral", referral>>, <<"fulfillment", fulfillment>>,
                       <<"storage", storage>>, <<"closing", Pips(in.closing * in.qty)>>,
                       <<"shipping", Pips(in.shipping * in.qty)>>, <<"prep", Pips(in.prep * in.qty)>>,
                       <<"other", Pips(in.other * in.qty)>>, <<"tax", tax>>, <<"coupon", coupon>>,
                       <<"savings", -savings>>} : f[2] # 0},
      margin |-> Percentage(net, revenue),       \* hundredths of a percent
      roi |-> IF capital > 0 THEN Percentage(net, capital) ELSE 0,
      markup |-> IF cost > 0 THEN Percentage(net, cost) ELSE 0,
      breakEvenPrice |-> IF rate < 100 THEN HalfEven(unit, 100 - rate) ELSE HalfEven(unit, 100),
      breakEvenQuantity |-> 1,                         \* max(1, be_qty), be_qty is 0 or 1
      profitable |-> net > 0]

\* calculate_batch.
CalculateBatch(inputs, category) == [i \in DOMAIN inputs |-> Calculate(inputs[i], category)]

-----------------------------------------------------------------------------
\* The cost breakdown accounts for every pip between what the supplier gets and the
\* total cost.
BreakdownBalances(in, category) ==
  \A out \in {Calculate(in, category)} :
    /\ out.cost = out.revenue - out.gross + Total(out.fees, LAMBDA f : f[2])
    /\ out.net = out.revenue - out.cost
=============================================================================
