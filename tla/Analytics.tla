----------------------------- MODULE Analytics -----------------------------
(***************************************************************************)
(* Snapshots of a product and summaries of its history (app/analytics:     *)
(* service.py, repository.py).  Prices are in cents, times in whole hours, *)
(* percentages in hundredths; quotients are cut.                           *)
(***************************************************************************)
EXTENDS Numbers

CollectionStatus == {"success", "partial", "skipped", "failed"}

\* Rows of a history table by effective_date, newest first.
Newest(rows) == Ranked(rows, LAMBDA r : r.at)

\* The get_latest_... of one table: no row, or one.
Latest(rows) == Top(Newest(rows), 1)
LatestPrice(amazon, buyBox) == Latest(SelectSeq(amazon, LAMBDA r : r.buyBox = buyBox))

\* get_latest_supplier_prices: one for each supplier.
LatestSupplierPrices(rows) ==
  {rows[i].price : i \in {i \in DOMAIN rows : \A j \in DOMAIN rows :
                            rows[j].supplier = rows[i].supplier => rows[j].at <= rows[i].at}}

-----------------------------------------------------------------------------
\* _collect_prices.
PriceSnapshot(facts, supplied) ==
  LET latest == LatestPrice(facts.amazon, FALSE)
      buyBox == LatestPrice(facts.amazon, TRUE)
      price == IF latest = <<>> THEN facts.price ELSE latest[1].price
      lowest == IF supplied = {} THEN None ELSE Min(supplied)
  IN [amazon |-> price, buyBox |-> IF buyBox = <<>> THEN None ELSE buyBox[1].price,
      lowest |-> lowest, suppliers |-> Cardinality(supplied),
      spread |-> IF price # 0 /\ Given(lowest) /\ price # lowest THEN price - lowest ELSE None]

\* _collect_sellers: all zero when nothing is known.
SellerSnapshot(facts) ==
  LET latest == Latest(facts.sellers)
  IN IF latest = <<>> THEN [new |-> 0, fba |-> 0, total |-> 0]
     ELSE [new |-> latest[1].new, fba |-> latest[1].fba, total |-> latest[1].new + latest[1].used]

\* _collect_inventory: a product with stock in two places has no single row, and fails.
InventorySnapshot(facts) ==
  LET row == facts.stock[1]
      available == row.hand - row.reserved
  IN IF facts.stock = <<>> THEN [status |-> "skipped", available |-> 0, days |-> None]
     ELSE IF Len(facts.stock) > 1 THEN [status |-> "failed", available |-> 0, days |-> None]
     ELSE [status |-> "success", available |-> Greatest(0, available),
           days |-> IF facts.daily > 0 /\ available > 0 THEN (10 * available) \div facts.daily ELSE None]

\* _collect_fees.
FeeSnapshot(facts) ==
  LET latest == Latest(facts.fees)
      price == LatestPrice(facts.amazon, FALSE)
      sold == IF price = <<>> THEN facts.price ELSE price[1].price
  IN IF latest = <<>> THEN [status |-> "skipped", referral |-> 0, fulfillment |-> 0, storage |-> 0, percent |-> None]
     ELSE [status |-> "success", referral |-> latest[1].referral, fulfillment |-> latest[1].fulfillment,
           storage |-> latest[1].storage, percent |-> IF sold > 0 THEN Percentage(latest[1].total, sold) ELSE None]

\* The columns hold a margin of less than 1000 percent, and a return of a thousand times more.
Storable(margin, roi) == Abs(margin) < 10 ^ 5 /\ Abs(roi) < 10 ^ 8

\* _collect_profit: of the snapshots before it; the closing and other fees are not in it.
ProfitSnapshot(prices, fees) ==
  LET cost == Or(prices.lowest, 0)
      total == cost + fees.referral + fees.fulfillment + fees.storage
      net == prices.amazon - total
      margin == Cut(10000 * net, prices.amazon)
      roi == Cut(10000 * net, total)
      stored == Storable(margin, roi)
  IN IF prices.amazon <= 0 \/ cost <= 0 THEN [status |-> "skipped", net |-> 0, total |-> 0, profitable |-> FALSE]
     ELSE [status |-> IF stored THEN "success" ELSE "failed",
           net |-> net, total |-> total, profitable |-> stored /\ net > 0]

Overall(parts) ==
  IF parts = {"success"} THEN "success" ELSE IF parts = {"failed"} THEN "failed" ELSE "partial"

\* collect_snapshot: each part fails on its own; what was written before a part that the
\* table refuses goes with it when the request ends.
Snapshot(prices, sellers, inventory, fees, profit) ==
  LET status == [prices |-> "success", sellers |-> "success", inventory |-> inventory.status,
                 fees |-> fees.status, profit |-> profit.status]
  IN [prices |-> prices, sellers |-> sellers, inventory |-> inventory, fees |-> fees, profit |-> profit,
      status |-> Overall({status[c] : c \in DOMAIN status}),
      written |-> IF profit.status = "failed" THEN {}
                  ELSE {c \in {"inventory", "profit"} : status[c] = "success"}]

CollectSnapshot(facts) ==
  LET prices == PriceSnapshot(facts, LatestSupplierPrices(facts.suppliers))
      fees == FeeSnapshot(facts)
  IN Snapshot(prices, SellerSnapshot(facts), InventorySnapshot(facts), fees, ProfitSnapshot(prices, fees))

\* collect_batch: whatever is neither a success nor partial has failed.
CollectBatch(snapshots) ==
  LET Of(statuses) == Len(SelectSeq(snapshots, LAMBDA s : s.status \in statuses))
  IN [total |-> Len(snapshots), succeeded |-> Of({"success"}), partial |-> Of({"partial"}),
      failed |-> Of(CollectionStatus \ {"success", "partial"})]

-----------------------------------------------------------------------------
\* _build_time_series_query: a page of the rows dated before the cursor, newest first, those
\* of one date as the database keeps them.
TimeSeries(rows, since, cursor, limit) ==
  Top(Newest(SelectSeq(rows, LAMBDA r : r.at >= since /\ (Given(cursor) => r.at < cursor))), limit)

\* A client that follows the cursor from page to page.
Pages(rows, since, limit) ==
  FoldLeft(LAMBDA read, i : read \o TimeSeries(rows, since, IF read = <<>> THEN None ELSE Last(read).at, limit),
           <<>>, [i \in 1 .. Len(rows) + 1 |-> i])

\* percentile, in hundredths of the value.
Percentile(data, p) ==
  LET k == p * (Len(data) - 1)
      f == k \div 100
      c == k % 100
  IN IF f + 1 < Len(data) THEN data[f + 1] * (100 - c) + data[f + 2] * c ELSE 100 * data[f + 1]

\* compute_trend_slope, as the quotient of two whole numbers; two times are needed.
TrendSlope(rows) ==
  LET n == Len(rows)
      Sum(F(_)) == SumOf([i \in 1 .. n |-> F(rows[i])])
      x == Sum(LAMBDA r : r.at)
  IN [covariance |-> n * Sum(LAMBDA r : r.at * r.value) - x * Sum(LAMBDA r : r.value),
      variance |-> n * Sum(LAMBDA r : r.at * r.at) - x * x]

\* _determine_trend: the slope is by the second, a thousandth of the mean in each.
DetermineTrend(values, slope) ==
  LET steep == 5 * Len(values) * Abs(slope.covariance)
      flat == 18 * SumOf(values) * slope.variance
  IN IF Len(values) < 3 \/ slope.variance = 0 THEN "insufficient data"
     ELSE IF steep < flat \/ slope.covariance = 0 THEN "flat" ELSE IF slope.covariance > 0 THEN "up" ELSE "down"

\* compute_summary: the first and the last value are those of the sorted values.
Summarized(data, slope) ==
  IF data = <<>> THEN [count |-> 0, trend |-> "insufficient data"]
  ELSE [count |-> Len(data), mean |-> SumOf(data) \div Len(data), min |-> data[1], max |-> Last(data),
        current |-> Last(data), change |-> Last(data) - data[1],
        percentiles |-> [i \in 1 .. 7 |-> Percentile(data, <<10, 25, 50, 75, 90, 95, 99>>[i])],
        deviation |-> Root(Len(data) * SumOf([i \in DOMAIN data |-> data[i] * data[i]]) - SumOf(data) * SumOf(data))
                        \div Len(data),
        trend |-> DetermineTrend(data, slope)]

ComputeSummary(rows, since) ==
  LET within == SelectSeq(rows, LAMBDA r : r.at >= since)
  IN Summarized(SortSeq([i \in DOMAIN within |-> within[i].value], <), TrendSlope(within))

-----------------------------------------------------------------------------
\* A snapshot is a success only when every part of it is, what it says of the profit adds
\* up, and it writes what it reports.
SnapshotSound(facts) ==
  \A out \in {CollectSnapshot(facts)} :
    /\ out.profit.status = "success" =>
         /\ out.profit.net = out.prices.amazon - out.prices.lowest - out.fees.referral
                               - out.fees.fulfillment - out.fees.storage
         /\ out.profit.profitable = (out.profit.net > 0)
         /\ Given(out.prices.spread) => out.profit.net <= out.prices.spread
    /\ out.status = "success" => out.written = {"inventory", "profit"} /\ facts.stock # <<>> /\ facts.fees # <<>>
    /\ out.status # "failed"
    /\ LET batch == CollectBatch(<<out, out>>) IN batch.succeeded + batch.partial + batch.failed = batch.total

Copies(s, x) == Cardinality({i \in DOMAIN s : s[i] = x})

\* Following the cursor reads rows of the window only, newest first and none twice.  It may
\* miss some: the cursor is a date, and several rows may have the date a full page ends in.
\* No other row is missed.
PagesSound(rows, since, limit) ==
  \A read \in {Pages(rows, since, limit)}, window \in {SelectSeq(rows, LAMBDA r : r.at >= since)} :
    /\ \A i, j \in DOMAIN read : i < j => read[i].at >= read[j].at
    /\ \A x \in ToSet(read) : Copies(read, x) <= Copies(window, x)
    /\ \A x \in ToSet(window) :
         Copies(read, x) < Copies(window, x) =>
           \E i \in DOMAIN read : i % limit = 0 /\ read[i].at = x.at

\* The pages are sound in whatever order rows of one date are kept; the figures of a summary
\* are in their order.
HistorySound(rows, since, limit) ==
  /\ PagesSound(rows, since, limit) /\ PagesSound(Reverse(rows), since, limit)
  /\ \A s \in {ComputeSummary(rows, since)} :
       s.count > 0 =>
         /\ s.min <= s.mean /\ s.mean <= s.max /\ s.change >= 0 /\ s.deviation <= s.max - s.min
         /\ \A i \in 1 .. 6 : s.percentiles[i] <= s.percentiles[i + 1]
         /\ 100 * s.min <= s.percentiles[1] /\ s.percentiles[7] <= 100 * s.max
=============================================================================
