------------------------------ MODULE Catalog ------------------------------
(***************************************************************************)
(* Products, their history rows and the orders of them (domain/services,   *)
(* infrastructure/repositories and integrations/keepa/repository.py with   *)
(* the constraints of domain/models).                                      *)
(***************************************************************************)
EXTENDS Sessions

Prices == {1, 2}

NoProduct == [at |-> 0, price |-> 0, active |-> FALSE, history |-> 0]

\* A row is known by the transaction that made it; `history' counts its price rows.
Product == [at : 0 .. MaxCalls, price : {0} \cup Prices, active : BOOLEAN, history : 0 .. 2 * MaxCalls]

OrderItem == [product : Ids, row : 0 .. MaxCalls, quantity : 1 .. 2, unitPrice : {0} \cup Prices]

OrderStatus == {"pending", "confirmed", "processing", "shipped", "delivered", "cancelled", "refunded"}

Order == [status : OrderStatus, items : SUBSET OrderItem, total : Nat]

TypeOK == db.product \in [Ids -> Product] /\ (\A i \in DOMAIN db.orders : db.orders[i] \in Order) /\ mem = <<>>

AllowedTransitions ==
  [s \in OrderStatus |->
     CASE s = "pending" -> {"confirmed", "cancelled"} [] s = "confirmed" -> {"processing", "cancelled"}
       [] s = "processing" -> {"shipped", "cancelled"} [] s = "shipped" -> {"delivered", "cancelled"}
       [] s = "delivered" -> {"refunded"} [] OTHER -> {}]

TotalOf(items) == MapThenSumSet(LAMBDA i : i.unitPrice * i.quantity, items)
OrderedItems == UNION {db.orders[i].items : i \in DOMAIN db.orders}

\* Products of an import, without history, and an order of one of them that got somewhere.
Init ==
  /\ \E known \in SUBSET Ids, status \in {"pending", "shipped"} :
       LET items(k) == {[product |-> k, row |-> 1, quantity |-> 1, unitPrice |-> 1]}
     IN db = [product |-> [k \in Ids |-> IF k \in known THEN [at |-> 1, price |-> 1, active |-> TRUE, history |-> 0]
                                           ELSE NoProduct],
                orders |-> IF "a" \in known THEN << [status |-> status, items |-> items("a"), total |-> TotalOf(items("a"))] >> ELSE <<>>]
  /\ mem = <<>> /\ NoRequests

\* The row that was read is still there.
SameRow(c, k) == req[c].saw.product[k].at # 0 /\ db.product[k].at = req[c].saw.product[k].at

-----------------------------------------------------------------------------
\* create_product: the ASIN is unique, by the read of it and by the constraint.
CreateProduct(c) ==
  LET k == req[c].arg.asin
  IN /\ req[c].op = "create product"
     /\ req[c].saw.product[k] = NoProduct /\ db.product[k] = NoProduct
     /\ Commit(c, [db EXCEPT !.product[k] = [at |-> req[c].at, price |-> req[c].arg.price, active |-> TRUE, history |-> 0]])

\* update_product: a field is never cleared, BaseRepository.update skips None.
UpdateProduct(c) ==
  LET k == req[c].arg.asin
  IN /\ req[c].op = "update product" /\ SameRow(c, k)
     /\ Commit(c, IF req[c].arg.price = 0 THEN [db EXCEPT !.product[k].active = ~@]
                  ELSE [db EXCEPT !.product[k].price = req[c].arg.price])

\* Mutant of DeleteProduct: the orders of the product do not hold it.
DeleteOrderedProduct(c) ==
  /\ req[c].op = "delete product" /\ SameRow(c, req[c].arg)
  /\ req[c].saw.product[req[c].arg].history = 0
  /\ Commit(c, [db EXCEPT !.product[req[c].arg] = NoProduct])

\* delete_product: the session clears the product of the rows it finds, which the columns
\* refuse; rows it did not find go with the product, except that an order keeps it.
DeleteProduct(c) ==
  LET k == req[c].arg
  IN /\ req[c].op = "delete product" /\ SameRow(c, k)
     /\ req[c].saw.product[k].history = 0
     /\ ~ \E item \in OrderedItems : item.product = k
     /\ Commit(c, [db EXCEPT !.product[k] = NoProduct])

\* Mutant of StoreFullProductData: Keepa's -1 for no price is written as the price.
StoreMissingPrice(c, product, keepa) ==
  [at |-> IF product = NoProduct THEN req[c].at ELSE product.at,
   price |-> IF keepa.price # 0 THEN keepa.price ELSE -1, active |-> TRUE, history |-> product.history + keepa.points]

\* upsert_product and store_full_product_data, of what Keepa says of one product: its
\* price where it has one, and how many points of price history.
StoreFullProductData(c, product, keepa) ==
  [at |-> IF product = NoProduct THEN req[c].at ELSE product.at,
   price |-> IF keepa.price # 0 THEN keepa.price ELSE product.price,
   active |-> product = NoProduct \/ product.active,
   history |-> product.history + keepa.points + (IF keepa.price > 0 THEN 1 ELSE 0)]

\* One session stores the products of a refresh: if one of them fails, none is stored.
Stored(c, asins) ==
  /\ \A k \in asins : db.product[k].at = req[c].saw.product[k].at
  /\ \E keepa \in [asins -> [price : {0, 2}, points : {1}]] :
       Commit(c, [db EXCEPT !.product = [k \in Ids |-> IF k \in asins THEN StoreFullProductData(c, @[k], keepa[k]) ELSE @[k]]])

\* refresh_product and the batch of it: what Keepa does not answer is left out.
RefreshProduct(c) == req[c].op = "refresh" /\ \E asins \in SUBSET req[c].arg \ {{}} : Stored(c, asins)

\* search_by_asin: Keepa is asked for a product that is not known.
SearchByAsin(c) == req[c].op = "search" /\ req[c].saw.product[req[c].arg] = NoProduct /\ Stored(c, {req[c].arg})

\* create_order: every product has stock; the prices are read a second time.
CreateOrder(c) ==
  LET data == req[c].arg
      prices(k) == {req[c].saw.product[k].price, db.product[k].price}
  IN /\ req[c].op = "create order"
     /\ \A k \in DOMAIN data : SameRow(c, k)
     /\ \E price \in [DOMAIN data -> {0} \cup Prices] :
          /\ \A k \in DOMAIN data : price[k] \in prices(k)
          /\ LET items == {[product |-> k, row |-> db.product[k].at, quantity |-> data[k], unitPrice |-> price[k]] :
                             k \in DOMAIN data}
             IN Commit(c, [db EXCEPT !.orders = Append(@, [status |-> "pending", items |-> items, total |-> TotalOf(items)])])

\* update_order_status and cancel_order: the transition is from the status it read.
UpdateOrderStatus(c) ==
  LET order == req[c].arg.order
  IN /\ req[c].op = "order status" /\ order \in DOMAIN req[c].saw.orders
     /\ req[c].arg.status \in AllowedTransitions[req[c].saw.orders[order].status]
     /\ Commit(c, [db EXCEPT !.orders[order].status = req[c].arg.status])

ProductRequests(c) ==
  \E k \in Ids :
    \/ Ask(c, "create product", [asin |-> k, price |-> 1])
    \/ \E price \in {0, 2} : Ask(c, "update product", [asin |-> k, price |-> price])
    \/ Ask(c, "delete product", k)

SourcingRequests(c) ==
  \/ \E asins \in {{"a"}, Ids} : Ask(c, "refresh", asins)
  \/ \E k \in Ids : Ask(c, "search", k)

OrderRequests(c) ==
  \/ \E products \in {{"a"}, Ids} : Ask(c, "create order", [k \in products |-> IF k = "a" THEN 1 ELSE 2])
  \/ \E status \in {"confirmed", "cancelled", "delivered", "refunded"} : Ask(c, "order status", [order |-> 1, status |-> status])

Next ==
  \E c \in Clients :
    \/ ProductRequests(c) \/ SourcingRequests(c) \/ OrderRequests(c)
    \/ CreateProduct(c) \/ UpdateProduct(c) \/ DeleteProduct(c) \/ RefreshProduct(c) \/ SearchByAsin(c)
    \/ CreateOrder(c) \/ UpdateOrderStatus(c) \/ Rollback(c)

Spec == Init /\ [][Next]_sessionVars

-----------------------------------------------------------------------------
\* Every item of an order is of the product row it was ordered from, and the total is theirs.
Integrity ==
  /\ \A item \in OrderedItems : db.product[item.product].at = item.row /\ item.row # 0
  /\ \A i \in DOMAIN db.orders : db.orders[i].items # {} /\ db.orders[i].total = TotalOf(db.orders[i].items)
  /\ \A k \in Ids : db.product[k].at = 0 => db.product[k].history = 0

\* An order's status moves as the service allows it from the status that was read; what was
\* ordered never changes; history goes only with a product that had none when it was deleted.
LegalStep ==
  /\ \A i \in DOMAIN db.orders :
       /\ i \in DOMAIN db'.orders /\ db'.orders[i].items = db.orders[i].items
       /\ db'.orders[i].status # db.orders[i].status =>
            \E c \in Clients :
              req[c].op = "order status" /\ i \in DOMAIN req[c].saw.orders /\ db'.orders[i].status \in AllowedTransitions[req[c].saw.orders[i].status]
  /\ \A k \in Ids :
       db'.product[k].history < db.product[k].history =>
         /\ db'.product[k] = NoProduct
         /\ \E c \in Clients : req[c].op = "delete product" /\ req[c].saw.product[k].history = 0
=============================================================================
