------------------------------- MODULE Keepa -------------------------------
(***************************************************************************)
(* The Keepa client that coroutines share, the service that stores what it *)
(* fetches, and the refresh job (app/integrations/keepa).                  *)
(***************************************************************************)
EXTENDS RateLimits

\* _decode_keepa_price: cents, with -1 for none.
DecodePrice(price) == IF price <= 0 THEN 0 ELSE price

\* _parse_price_array: pairs of a minute and a price; an odd end is dropped.
ParsePriceArray(data) ==
  IF Len(data) < 2 THEN <<>> ELSE [i \in 1 .. Len(data) \div 2 |-> [at |-> data[2 * i - 1], price |-> DecodePrice(data[2 * i])]]

\* _parse_offers: one that cannot be read is left out.
ParseOffers(offers) ==
  LET readable == Filter(offers, LAMBDA o : ~o.malformed)
  IN [i \in DOMAIN readable |-> [seller |-> readable[i].seller, price |-> DecodePrice(readable[i].price), fba |-> readable[i].fba]]

\* _parse_sellers: the first offer of each seller that has a name, readable or not.
ParseSellers(offers) ==
  LET first(i) == offers[i].seller # NoName /\ \A j \in 1 .. i - 1 : offers[j].seller # offers[i].seller
      named == Selected(offers, {i \in DOMAIN offers : first(i)})
  IN [i \in DOMAIN named |-> named[i].seller]

\* _parse_product_response: an answer without a product gives an empty one.
ParseProductResponse(asin, raw) ==
  IF ~raw.found THEN [asin |-> asin, price |-> 0, amazon |-> <<>>, ranks |-> <<>>, offers |-> <<>>, sellers |-> <<>>, count |-> 0, fba |-> 0]
  ELSE [asin |-> asin, price |-> DecodePrice(raw.price), amazon |-> ParsePriceArray(raw.amazon), ranks |-> ParsePriceArray(raw.sales),
        offers |-> ParseOffers(raw.offers), sellers |-> ParseSellers(raw.offers),
        count |-> Cardinality({o.seller : o \in ToSet(ParseOffers(raw.offers))} \ {NoName}),
        fba |-> Cardinality({i \in DOMAIN ParseOffers(raw.offers) : ParseOffers(raw.offers)[i].fba})]

Offer(seller, malformed) == [seller |-> seller, price |-> 900, fba |-> seller = "s1", malformed |-> malformed]

\* What Keepa may answer about a product.
RawProduct(found, malformed) ==
  [found |-> found, price |-> -1, amazon |-> <<1, 1500, 9, -1, 12>>, sales |-> <<1, 7>>,
   offers |-> <<Offer("s1", FALSE), Offer("s1", FALSE), Offer("s2", malformed), Offer(NoName, FALSE)>>]
RawProducts == {RawProduct(found, malformed) : found \in BOOLEAN, malformed \in BOOLEAN}

TypeOK ==
  /\ mem \in Limiter(Ids \X {"params", "params and key"}) /\ RequestsTyped
  /\ db.products \in [Ids -> {<<>>} \cup Seq({ParseProductResponse(k, raw) : k \in Ids, raw \in RawProducts})]

Init == db = [products |-> [k \in Ids |-> <<>>]] /\ mem = Ready /\ NoRequests

-----------------------------------------------------------------------------
\* fetch_and_store_product, of a request, and the watchlist of the job, one product after
\* the other and on after a failure.
FetchAndStore(c) == \E k \in Ids : Begin(c, <<k>>, FALSE, None)
RefreshWatchlist(c) == mem.running /\ Refreshing = {} /\ Begin(c, SetToSeq(Ids), TRUE, None)

\* KeepaCache.get: the key is made of the parameters without the API key, while set makes
\* it of those with it.  So nothing is ever found.
Look(c) ==
  /\ req[c].op = "look"
  /\ To(c, IF <<Head(req[c].todo), "params">> \in mem.cache THEN Following(c) ELSE Go(c, "acquire"), mem)

\* A good answer is cached, parsed and stored; it does not matter whether storing works.
Answered(c) ==
  /\ req[c].op = "sent"
  /\ \E raw \in RawProducts, stored \in BOOLEAN :
       db' = IF stored THEN [db EXCEPT !.products[Head(req[c].todo)] = <<ParseProductResponse(Head(req[c].todo), raw)>>] ELSE db
  /\ mem' = [mem EXCEPT !.cache = @ \cup {<<Head(req[c].todo), "params and key">>}]
  /\ req' = [req EXCEPT ![c] = Following(c)] /\ UNCHANGED calls

\* An error of _request ends the product, not the batch.
Failed(c) == req[c].op = "failed" /\ req[c].wait = 0 /\ To(c, Following(c), mem)

StopJob == CancelJob /\ UNCHANGED db

Next ==
  \/ \E c \in Clients :
       \/ FetchAndStore(c) \/ RefreshWatchlist(c) \/ Look(c) \/ Acquire(c) \/ Send(c) \/ Answered(c) \/ Failed(c)
       \/ \E status \in {401, 429, 500} : Refused(c, status)
  \/ Tick \/ StartJob \/ StopJob

Spec == Init /\ [][Next]_sessionVars

-----------------------------------------------------------------------------
\* Sellers of a stored product are counted once, and no price of it is negative.
Integrity ==
  /\ LimiterSound
  /\ \A k \in Ids : \A p \in ToSet(db.products[k]) :
       /\ p.asin = k /\ p.count <= Len(p.sellers) /\ p.fba <= Len(p.offers) /\ Len(p.sellers) <= Len(p.offers) + 1
       /\ \A point \in ToSet(p.amazon) : point.price >= 0

LegalStep == Paced
=============================================================================
