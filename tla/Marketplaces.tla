---------------------------- MODULE Marketplaces ----------------------------
(***************************************************************************)
(* The marketplaces a seller lists on (app/marketplaces): what each        *)
(* provider makes of an answer of its API, in the models of models.py,     *)
(* and the HTTP status a client of ours gets.  Prices are in cents.        *)
(***************************************************************************)
EXTENDS Adapters

Capabilities ==
  {"search", "lookup", "pricing", "fees", "inventory", "orders", "listings", "competition", "salesEstimate", "buybox", "shipping", "returns"}

Unsupported ==
  [amazon |-> {"salesEstimate"}, ebay |-> {"fees", "salesEstimate", "returns"},
   walmart |-> {"fees", "competition", "salesEstimate", "buybox", "shipping"},
   etsy |-> {"inventory", "competition", "salesEstimate", "buybox", "shipping", "returns"},
   tiktok |-> {"search", "lookup", "pricing", "fees", "competition", "salesEstimate", "buybox", "shipping"},
   facebook |-> Capabilities \ {"orders", "listings"}]

Codes == DOMAIN Unsupported

Ok(result) == With(result, "outcome", "ok")
Missing == [outcome |-> "none"]
Refused(reason) == [outcome |-> reason]

\* What a marketplace answers: `offers' counts what a list of it holds.
Answers == [status : {200, 404, 500}, price : {None, 900}, quantity : {0, 3}, offers : {0, 2}]

List(answer) == Ok([count |-> answer.offers])
Stock(answer) == Ok([quantity |-> answer.quantity, status |-> IF answer.quantity > 0 THEN "in_stock" ELSE "out_of_stock"])

\* Lines of an order have a quantity of one at least: an order of which nothing is left to
\* ship makes the whole list invalid.
Orders(answer) == IF answer.offers > 0 /\ answer.quantity = 0 THEN Refused("invalid") ELSE List(answer)

\* CompetitorOffer and MarketplaceShippingOption need a marketplace that these dicts lack.
Unlabelled(answer) == IF answer.offers > 0 THEN Refused("invalid") ELSE List(answer)

\* _not_supported makes a result without the fields a product must have.
NotSupported(capability) ==
  CASE capability = "lookup" -> Refused("invalid") [] capability \in {"search", "returns"} -> Ok([count |-> 0])
    [] OTHER -> Ok([supported |-> FALSE])

-----------------------------------------------------------------------------
\* AmazonMarketplace.search, lookup, pricing and fees.
AmazonCatalog(capability, answer) ==
  CASE capability = "search" -> List(answer)
    [] capability = "fees" -> Ok([total |-> answer.price])
    [] OTHER -> Ok([price |-> answer.price])

\* AmazonMarketplace.competition, buybox and inventory.
AmazonOffers(capability, answer) ==
  CASE capability = "competition" -> Unlabelled(answer)
    [] capability = "buybox" -> Ok([winner |-> answer.offers > 0 /\ answer.quantity > 0, count |-> answer.offers])
    [] OTHER -> Stock(answer)

\* AmazonMarketplace.orders, listings, returns and the fixed options of shipping.
AmazonSeller(capability, answer) ==
  CASE capability = "orders" -> Orders(answer) [] capability = "shipping" -> Ok([count |-> 2]) [] OTHER -> List(answer)

\* EBayMarketplace: its public API of items, and the one of a seller.
EBayItems(capability, answer) ==
  CASE capability \in {"lookup", "pricing"} -> Ok([price |-> answer.price])
    [] capability = "shipping" -> Unlabelled(answer)
    [] capability = "competition" -> Refused("invalid")
    [] capability = "buybox" -> IF answer.price = None THEN Missing ELSE Ok([winner |-> FALSE, count |-> 0])
    [] capability = "search" -> List(answer)

Seller(capability, answer) ==
  CASE capability = "inventory" -> Stock(answer) [] capability = "orders" -> Orders(answer) [] OTHER -> List(answer)

EBaySeller(capability, answer) == Seller(capability, answer)

\* WalmartMarketplace.
WalmartItems(answer) == Ok([price |-> answer.price])
WalmartSeller(capability, answer) == Seller(capability, answer)

\* The fees of Etsy, asked for without a price: 6.5 and 3 percent and a quarter, of no price when there is none.
EtsyFees(price) ==
  LET referral == HalfEven(65 * Or(price, 0), 1000)
      processing == HalfEven(3 * Or(price, 0) + 2500, 100)
  IN [referral |-> referral, processing |-> processing, total |-> referral + processing]

Etsy(capability, answer) ==
  CASE capability \in {"lookup", "pricing"} -> Ok([price |-> answer.price])
    [] capability = "fees" -> Ok(EtsyFees(answer.price))
    [] capability = "orders" -> Orders(answer)
    [] OTHER -> List(answer)

TikTok(capability, answer) == Seller(capability, answer)

Facebook(capability, answer) == List(answer)

\* _require_credentials, which comes first wherever it is called.
Open(code, capability) == code = "ebay" /\ capability \notin {"inventory", "listings", "orders"}

\* Whether a 404 is taken for nothing there; elsewhere raise_for_status raises.
TakesMissing(code, capability) ==
  CASE code = "amazon" -> capability = "lookup"
    [] code = "ebay" -> capability \in {"lookup", "pricing", "shipping", "competition", "buybox", "inventory"}
    [] code = "walmart" -> capability \in {"lookup", "pricing", "inventory"}
    [] code = "etsy" -> capability \in {"lookup", "pricing"}
    [] OTHER -> FALSE

NotFound(code, capability) ==
  CASE code = "facebook" -> Ok([count |-> 0])
    [] code = "etsy" /\ capability = "fees" -> Ok(EtsyFees(None))
    [] OTHER -> IF TakesMissing(code, capability) THEN Missing ELSE Refused("http")

Found(code, capability, answer) ==
  CASE code = "amazon" -> IF capability \in {"search", "lookup", "pricing", "fees"} THEN AmazonCatalog(capability, answer)
                          ELSE IF capability \in {"competition", "buybox", "inventory"} THEN AmazonOffers(capability, answer)
                          ELSE AmazonSeller(capability, answer)
    [] code = "ebay" -> IF Open(code, capability) THEN EBayItems(capability, answer) ELSE EBaySeller(capability, answer)
    [] code = "walmart" -> IF capability \in {"lookup", "pricing"} THEN WalmartItems(answer) ELSE WalmartSeller(capability, answer)
    [] code = "etsy" -> Etsy(capability, answer) [] code = "tiktok" -> TikTok(capability, answer)
    [] code = "facebook" -> Facebook(capability, answer)

Answer(code, capability, answer, configured, closed) ==
  IF capability \in Unsupported[code] THEN NotSupported(capability)
  ELSE IF ~configured /\ ~Open(code, capability) THEN Refused("unconfigured")
  ELSE IF code = "amazon" /\ capability = "shipping" THEN AmazonSeller(capability, answer)
  ELSE IF closed \/ answer.status = 500 THEN Refused("http")
  ELSE IF answer.status = 404 THEN NotFound(code, capability) ELSE Found(code, capability, answer)

\* _to_http of the API, which only knows MarketplaceError: what httpx and pydantic raise is a
\* server's error.
HttpStatus(out) ==
  CASE out.outcome = "ok" -> 200 [] out.outcome = "none" -> 404 [] out.outcome = "unconfigured" -> 503 [] OTHER -> 500

-----------------------------------------------------------------------------
TypeOK == InstancesTyped(Codes) /\ DOMAIN db.answers \subseteq Codes

Init == Started({{}, {"amazon", "etsy"}}, Capabilities)

\* A method of MarketplaceManager, and search_all of the enabled ones.
CallOne(c) == \E code \in Codes : Call(c, <<code>>, FALSE)
SearchAll(c) == mem.asked = "search" /\ mem.enabled # {} /\ Call(c, SetToSeq(mem.enabled), TRUE)

Ends(c) ==
  /\ req[c].op = "call"
  /\ LET code == req[c].todo[1]
     IN \E out \in {Answer(code, mem.asked, answer, req[c].uses.configured, IsClosed(c)) : answer \in Answers} :
          Answered(c, IF ~req[c].all THEN [k \in {code} |-> With(out, "http", HttpStatus(out))]
                      ELSE IF out.outcome = "ok" /\ out.count > 0 THEN With(req[c].answers, code, out) ELSE req[c].answers)

Next == Initialize \/ \E c \in Clients : Shutdown(c) \/ Closed(c) \/ CallOne(c) \/ SearchAll(c) \/ Ends(c)

Spec == Init /\ [][Next]_sessionVars

-----------------------------------------------------------------------------
\* Nothing comes from a marketplace that was not configured before it was first used, but
\* from eBay's public API and where nothing is asked; what is not supported never looks as if
\* it were; what is in stock has a quantity, and fees add up.
AnswerSound(code, out) ==
  /\ "winner" \in DOMAIN out /\ out.winner => out.count > 0
  /\ "quantity" \in DOMAIN out => (out.status = "in_stock" <=> out.quantity > 0)
  /\ "referral" \in DOMAIN out => out.total >= out.referral /\ out.total = out.referral + out.processing
  /\ out.outcome = "ok" => \/ mem.instances[code].configured \/ Open(code, mem.asked) \/ mem.asked \in Unsupported[code]
  /\ mem.asked \in Unsupported[code] => out.outcome = "invalid" \/ out = With(NotSupported(mem.asked), "http", 200)

Integrity ==
  /\ LifeCycleSound
  /\ \A code \in DOMAIN db.answers : IF db.all THEN code \in mem.enabled /\ db.answers[code].count > 0 ELSE AnswerSound(code, db.answers[code])

LegalStep == InstancesKept
=============================================================================
