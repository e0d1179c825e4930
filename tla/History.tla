------------------------------ MODULE History ------------------------------
(***************************************************************************)
(* What was observed of a product over time and the answers about it       *)
(* (domain/services/product_sourcing_service.py over                       *)
(* product_sourcing_repository.py, and keepa/repository.py, which writes   *)
(* the rows).  An answer is made of several queries, each of which sees    *)
(* what is committed when it runs.  Dates are days; the month began on day *)
(* 1, and request n is made on day Today + n.                              *)
(***************************************************************************)
EXTENDS Sessions

Today == 12
Now(c) == Today + req[c].at

\* Whether a price is Amazon's own or that of the buy box (is_buy_box).
Own == FALSE
BuyBox == TRUE

\* AmazonPrice, SellerCount, Review and SalesEstimate: rows with an effective date.
AmazonPrice == [date : Int, price : Nat, buyBox : BOOLEAN]
SellerCount == [date : Int, count : Nat]
Review == [date : Int, count : Nat]
SalesEstimate == [date : Int, count : Nat, rank : Nat]

\* KeepaProductResponse, as far as it is stored.
Series(first, days, price) == [i \in 1 .. days |-> [date |-> first + i, price |-> price + (i % 7)]]
Keepa ==
  {[amazon |-> amazon, buyBox |-> buyBox, price |-> price, buyBoxPrice |-> 9, sellers |-> count, reviews |-> count, sales |-> count] :
     amazon \in {<<>>, Series(-5, 11, 4)}, buyBox \in {Series(3, 2, 20)}, price \in {0, 5}, count \in {0, 3}}

TypeOK ==
  /\ ToSet(db.prices) \subseteq AmazonPrice /\ ToSet(db.sellers) \subseteq SellerCount
  /\ ToSet(db.reviews) \subseteq Review /\ ToSet(db.sales) \subseteq SalesEstimate

Init ==
  /\ \E prices \in {<<>>, <<[date |-> -20, price |-> 50, buyBox |-> FALSE], [date |-> 10, price |-> 7, buyBox |-> TRUE]>>} :
       db = [prices |-> prices, sellers |-> <<>>, reviews |-> <<>>, sales |-> <<>>, refreshes |-> 0]
  /\ mem = [kind |-> "none"] /\ NoRequests

-----------------------------------------------------------------------------
\* data[::10].
Sampled(points) == [i \in 1 .. ((Len(points) + 9) \div 10) |-> points[10 * (i - 1) + 1]]

\* store_price_history and store_amazon_price.
StorePriceHistory(points, buyBox) == [i \in DOMAIN points |-> [date |-> points[i].date, price |-> points[i].price, buyBox |-> buyBox]]
StoreAmazonPrice(price, date, buyBox) == IF price > 0 THEN <<[date |-> date, price |-> price, buyBox |-> buyBox]>> ELSE <<>>

\* store_seller_count, store_reviews and store_sales_estimate, where there is any.
StoreCount(count, row) == IF count > 0 THEN <<row>> ELSE <<>>

\* store_full_product_data appends: what a refresh stored before is stored again.
StoreFullProductData(data, date) ==
  [prices |-> db.prices \o StorePriceHistory(Sampled(data.amazon), Own) \o StorePriceHistory(Sampled(data.buyBox), BuyBox)
                \o StoreAmazonPrice(data.price, date, Own) \o StoreAmazonPrice(data.buyBoxPrice, date, BuyBox),
   sellers |-> db.sellers \o StoreCount(data.sellers, [date |-> date, count |-> data.sellers]),
   reviews |-> db.reviews \o StoreCount(data.reviews, [date |-> date, count |-> data.reviews]),
   sales |-> db.sales \o StoreCount(data.sales, [date |-> date, count |-> data.sales, rank |-> data.sales]),
   refreshes |-> db.refreshes + 1]

\* refresh_product; one that Keepa does not answer stores nothing.
RefreshProduct(c) ==
  /\ req[c].op = "refresh"
  /\ \E data \in Keepa : Commit(c, StoreFullProductData(data, Now(c)))

-----------------------------------------------------------------------------
\* ORDER BY effective_date DESC; the latest is the first of them.
Descending(rows) == Ranked(rows, LAMBDA row : row.date)
Latest(rows) == IF rows = <<>> THEN <<>> ELSE <<Descending(rows)[1]>>

\* The days asked for are taken from the day of the month, so that the first of the month is
\* the earliest whatever number of days is asked for.
Since(c, days) == Greatest(1, Now(c) - days)

\* get_price_history, get_price_range and get_latest_price.
GetPriceHistory(buyBox, since) == Descending(Filter(db.prices, LAMBDA row : row.buyBox = buyBox /\ row.date >= since))
GetPriceRange(since) ==
  LET prices == {row.price : row \in {r \in ToSet(db.prices) : r.date >= since}}
  IN IF prices = {} THEN <<>> ELSE <<Min(prices), Max(prices)>>
GetLatestPrice(buyBox) == Latest(Filter(db.prices, LAMBDA row : row.buyBox = buyBox))

\* One query of an answer, and the last one.
Query(c, field, value) ==
  /\ LET r == req[c]
     IN req' = [req EXCEPT ![c] = [r EXCEPT !.step = @ + 1, !.answer = With(@, field, value)]]
  /\ UNCHANGED <<db, mem, calls>>
Respond(c, field, value) ==
  /\ req' = [req EXCEPT ![c] = Idle] /\ mem' = With(req[c].answer, field, value)
  /\ UNCHANGED <<db, calls>>
Read(c, op, days) ==
  /\ req[c].op = "idle" /\ calls < MaxCalls
  /\ req' = [req EXCEPT ![c] = [op |-> op, at |-> calls + 1, days |-> days, step |-> 1, answer |-> [kind |-> op]]]
  /\ calls' = calls + 1 /\ UNCHANGED <<db, mem>>

\* get_pricing_history: the prices, the buy box, the range of both, the latest of each.
GetPricingHistory(c) ==
  /\ req[c].op = "pricing"
  /\ LET since == Since(c, req[c].days)
     IN \/ req[c].step = 1 /\ Query(c, "amazon", GetPriceHistory(Own, since))
        \/ req[c].step = 2 /\ Query(c, "buyBox", GetPriceHistory(BuyBox, since))
        \/ req[c].step = 3 /\ Query(c, "range", GetPriceRange(since))
        \/ req[c].step = 4 /\ Query(c, "current", GetLatestPrice(Own))
        \/ req[c].step = 5 /\ Respond(c, "currentBuyBox", GetLatestPrice(BuyBox))

\* get_bsr_history: the history of the buy box, whatever its dates, under the latest rank.
GetBsrHistory(c) ==
  /\ req[c].op = "bsr"
  /\ \/ req[c].step = 1 /\ Query(c, "history", GetPriceHistory(BuyBox, -100))
     \/ req[c].step = 2 /\ Respond(c, "rank", Latest(db.sales))

\* get_buy_box.
GetBuyBox(c) ==
  /\ req[c].op = "offer"
  /\ \/ req[c].step = 1 /\ Query(c, "history", GetPriceHistory(BuyBox, Since(c, req[c].days)))
     \/ req[c].step = 2 /\ Respond(c, "latest", GetLatestPrice(BuyBox))

\* get_seller_counts.
GetSellerCounts(c) ==
  /\ req[c].op = "sellers"
  /\ \/ req[c].step = 1 /\ Query(c, "history", Descending(db.sellers))
     \/ req[c].step = 2 /\ Respond(c, "latest", Latest(db.sellers))

\* _build_detail_dto.
BuildDetail(c) ==
  /\ req[c].op = "detail"
  /\ \/ req[c].step = 1 /\ Query(c, "reviews", Latest(db.reviews))
     \/ req[c].step = 2 /\ Query(c, "sales", Latest(db.sales))
     \/ req[c].step = 3 /\ Respond(c, "sellers", Latest(db.sellers))

Requests(c) ==
  \/ Ask(c, "refresh", <<>>)
  \/ \E days \in {1, 5, 90} : Read(c, "pricing", days)
  \/ \E op \in {"bsr", "offer", "sellers", "detail"} : Read(c, op, 90)

Next ==
  \E c \in Clients :
    \/ Requests(c) \/ RefreshProduct(c) \/ Rollback(c)
    \/ GetPricingHistory(c) \/ GetBsrHistory(c) \/ GetBuyBox(c) \/ GetSellerCounts(c) \/ BuildDetail(c)

Spec == Init /\ [][Next]_sessionVars

-----------------------------------------------------------------------------
\* An answer never contradicts itself, though rows come between its queries: the range covers
\* every price that is listed, a latest row is no older than the first that is listed, and a
\* list is by date.
AnswerSound(answer) ==
  /\ answer.kind = "pricing" =>
       /\ \A row \in ToSet(answer.amazon) \cup ToSet(answer.buyBox) :
            answer.range # <<>> /\ answer.range[1] <= row.price /\ row.price <= answer.range[2]
       /\ answer.amazon # <<>> => answer.current # <<>> /\ answer.current[1].date >= answer.amazon[1].date
       /\ answer.buyBox # <<>> => answer.currentBuyBox # <<>> /\ answer.currentBuyBox[1].date >= answer.buyBox[1].date
  /\ answer.kind \in {"offer", "sellers"} =>
       (answer.history # <<>> => answer.latest # <<>> /\ answer.latest[1].date >= answer.history[1].date)
  /\ "history" \in DOMAIN answer => \A i, j \in DOMAIN answer.history : i < j => answer.history[i].date >= answer.history[j].date

\* What one refresh stores of a series it stores each time: no point of it is there more
\* often than there were refreshes, but for those that were there before.
Integrity ==
  /\ AnswerSound(mem)
  /\ \A row \in ToSet(db.prices) :
       Cardinality({i \in DOMAIN db.prices : db.prices[i] = row}) <= db.refreshes + 1
  /\ \A rows \in {db.sellers, db.reviews} : Len(rows) <= db.refreshes

\* History is only added to.
LegalStep ==
  /\ IsPrefix(db.prices, db'.prices) /\ IsPrefix(db.sellers, db'.sellers)
  /\ IsPrefix(db.reviews, db'.reviews) /\ IsPrefix(db.sales, db'.sales)
=============================================================================
