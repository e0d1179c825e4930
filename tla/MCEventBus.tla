----------------------------- MODULE MCEventBus -----------------------------
(* An instance of EventBus for TLC: two handlers of one event type, one of *)
(* them retried once, and one handler of another type that takes critical  *)
(* events only.                                                            *)
EXTENDS EventBus

CONSTANTS e1, e2, h1, h2, h3, price, stock

MCTypeOf == (e1 :> price) @@ (e2 :> stock)
MCUrgency == (e1 :> 2) @@ (e2 :> 0)

MCOn == (h1 :> price) @@ (h2 :> price) @@ (h3 :> stock)
MCAccepts == (h1 :> {0, 1, 2, 3}) @@ (h2 :> {0, 1, 2, 3}) @@ (h3 :> {0})
MCEarly == <<h1, h2>>
MCMaxRetries == (h1 :> 0) @@ (h2 :> 1) @@ (h3 :> 0)
=============================================================================
