------------------------------ MODULE Plugins ------------------------------
(***************************************************************************)
(* The plugins of the suppliers (app/plugins): what each of them makes of  *)
(* an answer of its supplier, in the models of plugins/models.py, whose    *)
(* prices are positive and whose quantities are not negative.  Prices are  *)
(* in cents.                                                               *)
(***************************************************************************)
EXTENDS Adapters

Suppliers == {"walmart", "bestbuy", "target", "homedepot", "costco", "demo", "scrape"}
Operations == {"search", "lookup", "pricing", "inventory", "shipping", "coupon", "availability"}

\* A result, and the ways to have none: nothing there, an exception of the request or of the
\* model that refuses the result.
Ok(result) == With(result, "outcome", "ok")
Missing == [outcome |-> "none"]
Failed == [outcome |-> "failed"]
Invalid == [outcome |-> "invalid"]

Priced(price, result) == IF price > 0 THEN Ok(result) ELSE Invalid

\* What a supplier answers.
Answers == [status : {200, 404, 500}, price : {0, 1000}, quantity : {-1, 0, 5}, backorder : BOOLEAN]

\* What differs between the suppliers that are asked over HTTP: the tiers of their prices, the
\* advertised minimum and what is suggested, in hundredths of the price; what their coupons take
\* off, where nothing is refused by the model; how they ship.
WalmartPlugin == [tiers |-> <<>>, map |-> 0, suggested |-> 0, discount |-> 10, methods |-> 3]
BestBuyPlugin == [tiers |-> <<<<5, 98>>, <<25, 95>>, <<100, 90>>>>, map |-> 95, suggested |-> 120, discount |-> 0, methods |-> 3]
TargetPlugin == [tiers |-> <<>>, map |-> 0, suggested |-> 0, discount |-> 0, methods |-> 3]
HomeDepotPlugin == [tiers |-> <<<<10, 95>>, <<50, 90>>, <<100, 85>>>>, map |-> 0, suggested |-> 125, discount |-> 10, methods |-> 3]
CostcoPlugin == [tiers |-> <<<<50, 97>>, <<200, 93>>>>, map |-> 0, suggested |-> 115, discount |-> 5, methods |-> 2]
Plain == [tiers |-> <<>>, map |-> 0, suggested |-> 0, discount |-> 10, methods |-> 2]

Http == [walmart |-> WalmartPlugin, bestbuy |-> BestBuyPlugin, target |-> TargetPlugin, homedepot |-> HomeDepotPlugin, costco |-> CostcoPlugin]

Pricing(supplier, price) ==
  Priced(price, [unit |-> price, tiers |-> [i \in DOMAIN supplier.tiers |-> <<supplier.tiers[i][1], (price * supplier.tiers[i][2]) \div 100>>],
                 map |-> (price * supplier.map) \div 100, suggested |-> (price * supplier.suggested) \div 100])

Inventory(answer) ==
  IF answer.quantity < 0 THEN Invalid ELSE Ok([quantity |-> answer.quantity, backorder |-> answer.backorder])

Availability(inventory) ==
  IF inventory.outcome # "ok" THEN inventory
  ELSE Ok([available |-> inventory.quantity > 0 \/ inventory.backorder, backorder |-> inventory.backorder,
           stock |-> IF inventory.quantity > 0 THEN "in" ELSE "out"])

Coupon(supplier) == IF supplier.discount = 0 THEN Invalid ELSE Ok([discounts |-> <<supplier.discount>>])
Shipping(supplier) == Ok([methods |-> supplier.methods])

\* The operations of a supplier that is asked over HTTP.
HttpPlugin(supplier, operation, answer) ==
  CASE operation = "coupon" -> Coupon(supplier)
    [] operation = "shipping" -> Shipping(supplier)
    [] operation \notin {"coupon", "shipping"} ->
         CASE answer.status = 500 -> Failed
           [] answer.status = 404 -> IF operation = "search" THEN Failed ELSE Missing
           [] answer.status = 200 ->
                CASE operation = "search" -> Priced(answer.price, [count |-> 1])
                  [] operation = "lookup" -> Priced(answer.price, [unit |-> answer.price])
                  [] operation = "pricing" -> Pricing(supplier, answer.price)
                  [] operation = "inventory" -> Inventory(answer)
                  [] operation = "availability" -> Availability(Inventory(answer))

\* DemoPlugin: what is asked for is in the catalogue or it is not.
DemoPlugin(operation, answer) ==
  CASE operation = "search" -> Ok([count |-> IF answer.status = 200 THEN 1 ELSE 0])
    [] operation = "coupon" -> Coupon(Plain)
    [] operation \notin {"search", "coupon"} ->
         IF answer.status # 200 THEN Missing
         ELSE CASE operation \in {"lookup", "pricing"} -> Pricing(Plain, 1100)
                [] operation = "inventory" -> Ok([quantity |-> 500, backorder |-> FALSE])
                [] operation = "availability" -> Availability([outcome |-> "ok", quantity |-> Greatest(0, answer.quantity), backorder |-> FALSE])
                [] operation = "shipping" -> Shipping(Plain)

\* ScrapePlugin: a search has no prices, so that what it finds is always refused; a page that
\* is blocked or empty is nothing.
ScrapePlugin(operation, answer) ==
  LET lookup == Pricing(Plain, answer.price)
      one == Ok([quantity |-> 1, backorder |-> FALSE])
  IN CASE operation = "coupon" -> Ok([discounts |-> <<>>])
       [] operation = "shipping" -> Ok([methods |-> 0])
       [] operation \notin {"coupon", "shipping"} ->
            CASE answer.status = 500 -> Failed
              [] answer.status = 404 -> IF operation = "search" THEN Ok([count |-> 0]) ELSE Missing
              [] answer.status = 200 ->
                   CASE operation = "search" -> Invalid
                     [] operation \in {"lookup", "pricing"} -> lookup
                     [] operation = "inventory" -> IF lookup.outcome = "ok" THEN one ELSE lookup
                     [] operation = "availability" -> Availability(IF lookup.outcome = "ok" THEN one ELSE lookup)

Remote(supplier, operation) == supplier \in DOMAIN Http /\ operation \notin {"coupon", "shipping"}

Answer(supplier, operation, answer, closed) ==
  CASE supplier = "demo" -> DemoPlugin(operation, answer)
    [] supplier = "scrape" -> ScrapePlugin(operation, answer)
    [] OTHER -> IF closed /\ Remote(supplier, operation) THEN Failed ELSE HttpPlugin(Http[supplier], operation, answer)

-----------------------------------------------------------------------------
TypeOK == InstancesTyped(Suppliers) /\ DOMAIN db.answers \subseteq Suppliers

Init == Started({{}, {"costco", "scrape"}}, Operations)

\* PluginManager.search, lookup, pricing and the others.
CallOne(c) == \E supplier \in Suppliers : Call(c, <<supplier>>, FALSE)

\* search_all asks the enabled ones; lookup_all and compare_pricing the ones they are given.
CallAll(c) ==
  CASE mem.asked = "search" -> mem.enabled # {} /\ Call(c, SetToSeq(mem.enabled), TRUE)
    [] mem.asked \in {"lookup", "pricing"} -> Call(c, <<"bestbuy", "demo">>, TRUE)
    [] OTHER -> FALSE

\* What fails is left out of search_all, and so is an empty list; the others keep a None.
Kept(operation, answer) ==
  IF operation = "search" THEN answer.outcome = "ok" /\ answer.count > 0 ELSE TRUE
Swallowed(answer) == IF answer.outcome \in {"failed", "invalid"} THEN Missing ELSE answer

Ends(c) ==
  /\ req[c].op = "call"
  /\ LET supplier == req[c].todo[1]
     IN \E out \in {Answer(supplier, mem.asked, answer, IsClosed(c)) : answer \in Answers} :
          Answered(c, IF ~req[c].all THEN [s \in {supplier} |-> out]
                      ELSE IF Kept(mem.asked, out) THEN With(req[c].answers, supplier, Swallowed(out)) ELSE req[c].answers)

Next == Initialize \/ \E c \in Clients : Shutdown(c) \/ Closed(c) \/ CallOne(c) \/ CallAll(c) \/ Ends(c)

Spec == Init /\ [][Next]_sessionVars

-----------------------------------------------------------------------------
\* Larger quantities cost less, and no price is under the advertised minimum or over the one
\* that is suggested by a supplier that has them; what is available is in stock or can be
\* ordered; a call of several never fails, and a search of them has no empty lists.
AnswerSound(answer) ==
  /\ "unit" \in DOMAIN answer => answer.unit > 0
  /\ "tiers" \in DOMAIN answer =>
       /\ \A i, j \in DOMAIN answer.tiers : i < j => answer.tiers[i][1] < answer.tiers[j][1] /\ answer.tiers[i][2] > answer.tiers[j][2]
       /\ \A tier \in ToSet(answer.tiers) : tier[2] < answer.unit
       /\ answer.map <= answer.unit /\ (answer.suggested > 0 => answer.suggested > answer.unit)
  /\ "available" \in DOMAIN answer => (answer.available <=> answer.stock = "in" \/ answer.backorder)

Integrity ==
  /\ LifeCycleSound
  /\ \A supplier \in DOMAIN db.answers : AnswerSound(db.answers[supplier])
  /\ db.all => /\ \A supplier \in DOMAIN db.answers : db.answers[supplier].outcome \in {"ok", "none"}
               /\ mem.asked = "search" => DOMAIN db.answers \subseteq mem.enabled

LegalStep == InstancesKept
=============================================================================
